------------------------ MODULE CompatibilityCheckProofs ------------------------
(***************************************************************************)
(* Theorems about CompatibilityCheck, for every profile and every set of   *)
(* candidates: what the first check lets through and the closure completes *)
(* is looked at by the second check in the same surroundings.              *)
(***************************************************************************)
EXTENDS CompatibilityCheck, TLAPS, WellFoundedInduction

-----------------------------------------------------------------------------
(* The inductive invariant *)

\* What the closure hands on.
ClosedSelection ==
  /\ selected \subseteq Clean(list)
  /\ \A id \in selected : References(ById(list)[id]) \subseteq selected

IInv ==
  /\ list \in Candidate
  /\ phase \in {"check", "closed", "approved", "blocked"}
  /\ phase # "check" => ClosedSelection
  /\ phase = "approved" => ~Blocked(list)

\* The selection stays closed, and what is approved was never contested.
LEMMA Invariant == Spec => []IInv
<1>1. Init => IInv
  BY DEF Init, IInv
<1>2. IInv /\ [Next]_vars => IInv'
  <2> SUFFICES ASSUME IInv, [Next]_vars PROVE IInv'
    OBVIOUS
  <2>1. CASE Select
    BY <2>1 DEF Select, IInv, ClosedSelection
  <2>2. CASE Conclude
    BY <2>2 DEF Conclude, IInv, ClosedSelection
  <2>3. CASE UNCHANGED vars
    BY <2>3 DEF vars, IInv, ClosedSelection
  <2> QED BY <2>1, <2>2, <2>3 DEF Next
<1> QED BY <1>1, <1>2, PTL DEF Spec

-----------------------------------------------------------------------------
(* Lists of objects *)

\* A list of objects at numbered positions.
IsList(objs) == DOMAIN objs \subseteq Nat

\* A set of numbers that is not empty has a least one.
LEMMA LeastExists ==
  ASSUME NEW S \in SUBSET Nat, S # {}
  PROVE  \E x \in S : \A y \in S : x <= y
<1>1. PICK x \in S : \A y \in S : <<y, x>> \notin OpToRel(<, Nat)
  BY NatLessThanWellFounded, WFMin, Zenon
<1>2. \A y \in S : ~(y < x)
  BY <1>1, Zenon DEF OpToRel
<1>3. x \in Nat /\ S \subseteq Nat
  OBVIOUS
<1> QED BY <1>2, <1>3

\* The first position of an identifier is one of its positions.
LEMMA FirstIs ==
  ASSUME NEW objs, IsList(objs), NEW id \in Ids(objs)
  PROVE  First(objs, id) \in DOMAIN objs /\ objs[First(objs, id)].id = id /\ id # Missing
<1> DEFINE S == {i \in DOMAIN objs : objs[i].id = id}
<1>1. S \in SUBSET Nat /\ S # {}
  BY DEF IsList, Ids
<1>2. PICK i \in S : \A j \in S : i <= j
  BY <1>1, LeastExists
<1>3. i \in DOMAIN objs /\ objs[i].id = id /\ \A j \in DOMAIN objs : objs[j].id = id => i <= j
  BY <1>2
<1> QED BY <1>3 DEF First, Ids

\* by_id stores under an identifier an object that has it.
LEMMA Stored ==
  ASSUME NEW objs, IsList(objs), NEW id \in Ids(objs)
  PROVE  /\ ById(objs)[id] = objs[First(objs, id)]
         /\ ById(objs)[id].id = id /\ id # Missing
         /\ \E i \in DOMAIN objs : ById(objs)[id] = objs[i]
BY FirstIs DEF ById

\* The four kinds of findings.
LEMMA InFindings ==
  ASSUME NEW objs, NEW f
  PROVE  f \in Findings(objs) <=>
           \/ \E i \in DOMAIN objs : \E code \in ShapeCodes(objs[i]) :
                f = Complaint(code, objs[i].id)
           \/ \E id \in Ids(objs) : \E code \in ContextCodes(ById(objs)[id], ById(objs)) :
                f = Complaint(code, id)
           \/ \E id \in Conflicts(objs) : f = Complaint("OPENCTI_DUPLICATE_ID_CONFLICT", id)
           \/ \E code \in ListCodes(objs) : f = Complaint(code, None)
<1>1. f \in ShapeFindings(objs) <=>
        \E i \in DOMAIN objs : \E code \in ShapeCodes(objs[i]) : f = Complaint(code, objs[i].id)
  BY DEF ShapeFindings
<1>2. f \in ContextFindings(objs) <=>
        \E id \in Ids(objs) : \E code \in ContextCodes(ById(objs)[id], ById(objs)) :
          f = Complaint(code, id)
  BY DEF ContextFindings
<1> QED BY <1>1, <1>2 DEF Findings

\* No complaint about a clean object, wherever it occurs.
LEMMA CleanObject ==
  ASSUME NEW objs, IsList(objs), NEW id \in Clean(objs)
  PROVE  /\ id \in Ids(objs)
         /\ ShapeCodes(ById(objs)[id]) = {}
         /\ ContextCodes(ById(objs)[id], ById(objs)) = {}
<1>1. id \in Ids(objs) /\ \A f \in Findings(objs) : f.object # id
  BY DEF Clean
<1>2. PICK i \in DOMAIN objs : ById(objs)[id] = objs[i] /\ objs[i].id = id
  BY <1>1, Stored
<1>3. ASSUME NEW code \in ShapeCodes(objs[i]) PROVE FALSE
  <2>1. Complaint(code, id) \in Findings(objs)
    BY <1>2, InFindings
  <2>2. Complaint(code, id).object = id
    BY DEF Complaint
  <2> QED BY <1>1, <2>1, <2>2
<1>4. ASSUME NEW code \in ContextCodes(ById(objs)[id], ById(objs)) PROVE FALSE
  <2>1. Complaint(code, id) \in Findings(objs)
    BY <1>1, InFindings
  <2>2. Complaint(code, id).object = id
    BY DEF Complaint
  <2> QED BY <1>1, <2>1, <2>2
<1> QED BY <1>1, <1>2, <1>3, <1>4

-----------------------------------------------------------------------------
(* The artifact *)

LEMMA CandidateIsList ==
  ASSUME IInv
  PROVE  IsList(list) /\ 0 \notin DOMAIN list /\ \A i \in DOMAIN list : IsObject(list[i])
BY CandidateAssumption DEF IInv, IsList

\* What is selected is stored, without complaint, with all it refers to.
LEMMA SelectedObject ==
  ASSUME IInv, phase # "check", NEW id \in selected
  PROVE  LET o == ById(list)[id] IN
         /\ id \in Ids(list) /\ id # Report /\ o.id = id /\ IsObject(o)
         /\ ShapeCodes(o) = {} /\ ContextCodes(o, ById(list)) = {}
         /\ References(o) \subseteq selected /\ o.refs \subseteq selected
         /\ o.marks \subseteq selected
<1>1. IsList(list) /\ \A i \in DOMAIN list : IsObject(list[i])
  BY CandidateIsList
<1>2. id \in Clean(list) /\ References(ById(list)[id]) \subseteq selected
  BY DEF IInv, ClosedSelection
<1>3. id \in Ids(list) /\ ShapeCodes(ById(list)[id]) = {}
      /\ ContextCodes(ById(list)[id], ById(list)) = {}
  BY <1>1, <1>2, CleanObject
<1>4. ById(list)[id].id = id /\ IsObject(ById(list)[id])
  BY <1>1, <1>3, Stored
<1>5. id # Missing
  BY <1>1, <1>3, Stored
<1>6. ById(list)[id].refs \subseteq selected /\ ById(list)[id].marks \subseteq selected
  BY <1>2, <1>4 DEF References, IsObject
<1> QED BY <1>2, <1>3, <1>4, <1>5, <1>6 DEF IsObject

\* The artifact holds what is selected, unchanged, and the report.
LEMMA ArtifactHolds ==
  ASSUME IInv, phase # "check"
  PROVE  /\ IsList(Artifact)
         /\ Ids(Artifact) = selected \cup (IF Approved = {} THEN {} ELSE {Report})
         /\ \A i \in DOMAIN Artifact :
              \/ i = 0 /\ Artifact[i] = GatewayReport /\ Approved # {}
              \/ Artifact[i].id \in selected /\ Artifact[i] = ById(list)[Artifact[i].id]
         /\ \A id \in selected : ById(Artifact)[id] = ById(list)[id]
         /\ Approved # {} => ById(Artifact)[Report] = GatewayReport
         /\ \A i \in DOMAIN Artifact : Artifact[i].id # Missing
<1>1. IsList(list) /\ 0 \notin DOMAIN list
  BY CandidateIsList
<1>2. ASSUME NEW id \in selected
      PROVE  /\ First(list, id) \in DOMAIN list /\ First(list, id) # 0
             /\ list[First(list, id)].id = id /\ id # Report /\ id # Missing
             /\ list[First(list, id)] = ById(list)[id]
  BY <1>1, SelectedObject, FirstIs, Stored
<1>3. GatewayReport.id = Report /\ Report # Missing
  BY MissingAssumption DEF GatewayReport
<1>4. DOMAIN Artifact = {First(list, id) : id \in selected}
                          \cup (IF Approved = {} THEN {} ELSE {0})
  BY DEF Artifact
<1>5. \A i \in DOMAIN Artifact : Artifact[i] = IF i = 0 THEN GatewayReport ELSE list[i]
  BY DEF Artifact
<1>6. IsList(Artifact)
  BY <1>1, <1>2, <1>4 DEF IsList
<1>7. \A i \in DOMAIN Artifact :
        \/ i = 0 /\ Artifact[i] = GatewayReport /\ Approved # {}
        \/ Artifact[i].id \in selected /\ Artifact[i] = ById(list)[Artifact[i].id]
  BY <1>2, <1>4, <1>5
<1>8. ASSUME NEW id \in selected
      PROVE  First(list, id) \in DOMAIN Artifact /\ Artifact[First(list, id)].id = id
  BY <1>2, <1>4, <1>5
<1>9. Approved # {} => 0 \in DOMAIN Artifact /\ Artifact[0] = GatewayReport
  BY <1>4, <1>5
<1>10. Ids(Artifact) = selected \cup (IF Approved = {} THEN {} ELSE {Report})
  <2>1. ASSUME NEW id \in Ids(Artifact) PROVE id \in selected \/ (Approved # {} /\ id = Report)
    <3>1. PICK i \in DOMAIN Artifact : Artifact[i].id = id
      BY DEF Ids
    <3> QED BY <1>3, <1>7, <3>1
  <2>2. ASSUME NEW id \in selected PROVE id \in Ids(Artifact)
    BY <1>2, <1>8 DEF Ids
  <2>3. Approved # {} => Report \in Ids(Artifact)
    BY <1>3, <1>9 DEF Ids
  <2> QED BY <2>1, <2>2, <2>3
<1>11. ASSUME NEW id \in Ids(Artifact)
       PROVE  ById(Artifact)[id].id = id
              /\ \E i \in DOMAIN Artifact : ById(Artifact)[id] = Artifact[i]
  BY <1>6, Stored
<1>12. \A id \in selected : ById(Artifact)[id] = ById(list)[id]
  BY <1>2, <1>3, <1>7, <1>10, <1>11
<1>13. Approved # {} => ById(Artifact)[Report] = GatewayReport
  BY <1>2, <1>3, <1>7, <1>10, <1>11
<1>14. \A i \in DOMAIN Artifact : Artifact[i].id # Missing
  BY <1>2, <1>3, <1>7
<1> QED BY <1>6, <1>7, <1>10, <1>12, <1>13, <1>14

-----------------------------------------------------------------------------
(* The second check *)

\* What the artifact says of the surroundings of a selected object is what the
\* candidate said.
LEMMA SameSurroundings ==
  ASSUME IInv, phase # "check", NEW id \in selected
  PROVE  LET o == ById(list)[id] IN
         /\ ContextCodes(o, ById(Artifact)) = {}
         /\ TlpValues(o, ById(Artifact)) = TlpValues(o, ById(list))
<1> DEFINE o == ById(list)[id]
           old == ById(list)
           new == ById(Artifact)
<1>1. /\ References(o) \subseteq selected /\ o.marks \subseteq selected
      /\ o.refs \subseteq selected /\ IsObject(o) /\ ContextCodes(o, old) = {}
  BY SelectedObject
<1>2. /\ selected \subseteq DOMAIN new /\ selected \subseteq DOMAIN old
      /\ \A r \in selected : new[r] = old[r]
  BY ArtifactHolds, SelectedObject DEF ById
<1> HIDE DEF o, old, new
<1>3. TlpValues(o, new) = TlpValues(o, old)
  <2>1. {r \in o.marks \cap DOMAIN new : new[r].type = "marking-definition"}
        = {r \in o.marks \cap DOMAIN old : old[r].type = "marking-definition"}
    BY <1>1, <1>2
  <2> DEFINE R == {r \in o.marks \cap DOMAIN old : old[r].type = "marking-definition"}
  <2>2. \A r \in R : TlpValue(new[r]) = TlpValue(old[r])
    BY <1>1, <1>2
  <2>3. {TlpValue(new[r]) : r \in R} = {TlpValue(old[r]) : r \in R}
    BY <2>2
  <2>4. TlpValues(o, old) = {TlpValue(old[r]) : r \in R} \ {None}
    BY DEF TlpValues
  <2>5. TlpValues(o, new) = {TlpValue(new[r]) : r \in R} \ {None}
    BY <2>1 DEF TlpValues
  <2> QED BY <2>3, <2>4, <2>5
<1>4. ASSUME o.type = "relationship" PROVE EndTypes(o, new) = EndTypes(o, old)
  <2>1. Missing \notin DOMAIN old /\ Missing \notin DOMAIN new
    BY DEF old, new, ById, Ids
  <2>2. \A end \in {o.source, o.target} : end \in selected \/ end = Missing
    BY <1>1, <1>4 DEF IsObject
  <2> QED BY <1>2, <2>1, <2>2 DEF EndTypes
<1>5. ContextCodes(o, new) = {}
  BY <1>1, <1>2, <1>3, <1>4 DEF ContextCodes, Unless
<1> QED BY <1>3, <1>5 DEF o, old, new

\* Nothing selected carries TLP:RED.
LEMMA SelectedNotRed ==
  ASSUME IInv, phase # "check", NEW id \in selected
  PROVE  "red" \notin TlpValues(ById(list)[id], ById(list))
BY SelectedObject DEF ContextCodes, Unless

\* The report only ever has the markings of objects that disagree.
LEMMA ReportCodes ==
  ASSUME IInv, phase # "check"
  PROVE  /\ ShapeCodes(GatewayReport) = {}
         /\ ContextCodes(GatewayReport, ById(Artifact)) \subseteq {"OPENCTI_MARKING_CONFLICT"}
<1> DEFINE new == ById(Artifact)
<1>1. ShapeCodes(GatewayReport) = {}
  BY ProfileAssumption DEF ShapeCodes, Unless, GatewayReport
<1>2. Approved \subseteq selected /\ Markings \subseteq selected
  BY SelectedObject DEF Approved, Markings
<1>3. References(GatewayReport) \subseteq DOMAIN new
  BY <1>2, ArtifactHolds DEF References, GatewayReport, ById
<1>4. "red" \notin TlpValues(GatewayReport, new)
  <2> SUFFICES ASSUME "red" \in TlpValues(GatewayReport, new) PROVE FALSE
    OBVIOUS
  <2>1. PICK r \in Markings \cap DOMAIN new :
          new[r].type = "marking-definition" /\ TlpValue(new[r]) = "red"
    BY DEF TlpValues, GatewayReport
  <2>2. PICK id \in selected : r \in ById(list)[id].marks
    BY <2>1 DEF Markings
  <2>3. "red" \in TlpValues(ById(list)[id], new)
    BY <2>1, <2>2, ProfileAssumption DEF TlpValues
  <2> QED BY <2>2, <2>3, SameSurroundings, SelectedNotRed
<1>5. GatewayReport.type # "relationship"
  BY DEF GatewayReport
<1> HIDE DEF new
<1>6. ContextCodes(GatewayReport, new) \subseteq {"OPENCTI_MARKING_CONFLICT"}
  BY <1>3, <1>4, <1>5 DEF ContextCodes, Unless
<1> QED BY <1>1, <1>6 DEF new

\* No identifier occurs twice in the artifact.
LEMMA NoConflicts ==
  ASSUME IInv, phase # "check"
  PROVE  Conflicts(Artifact) = {}
<1>1. ASSUME NEW i \in DOMAIN Artifact PROVE Artifact[i] = ById(Artifact)[Artifact[i].id]
  <2>1. CASE i = 0 /\ Artifact[i] = GatewayReport /\ Approved # {}
    BY <2>1, ArtifactHolds DEF GatewayReport
  <2>2. CASE Artifact[i].id \in selected /\ Artifact[i] = ById(list)[Artifact[i].id]
    BY <2>2, ArtifactHolds
  <2> QED BY <2>1, <2>2, ArtifactHolds
<1> QED BY <1>1, ArtifactHolds DEF Conflicts

\* The second check has nothing to say of the objects the first one let through,
\* which is what lets ApprovedArtifact decide about each object once.
THEOREM SecondCheckIsQuiet == Spec => []RecheckIsQuiet
<1>1. IInv => RecheckIsQuiet
  <2> SUFFICES ASSUME IInv, phase # "check", NEW f \in Findings(Artifact)
               PROVE  f \in {Complaint("OPENCTI_MARKING_CONFLICT", Report),
                             Complaint("OPENCTI_LIMIT_EXCEEDED", None)}
    BY DEF RecheckIsQuiet
  <2>1. CASE \E i \in DOMAIN Artifact : \E code \in ShapeCodes(Artifact[i]) :
               f = Complaint(code, Artifact[i].id)
    <3>1. PICK i \in DOMAIN Artifact : ShapeCodes(Artifact[i]) # {}
      BY <2>1
    <3>2. Artifact[i] # GatewayReport
      BY <3>1, ReportCodes
    <3>3. Artifact[i].id \in selected /\ Artifact[i] = ById(list)[Artifact[i].id]
      BY <3>2, ArtifactHolds
    <3> QED BY <3>1, <3>3, SelectedObject
  <2>2. CASE \E id \in Ids(Artifact) : \E code \in ContextCodes(ById(Artifact)[id], ById(Artifact)) :
               f = Complaint(code, id)
    <3>1. PICK id \in Ids(Artifact) : \E code \in ContextCodes(ById(Artifact)[id], ById(Artifact)) :
            f = Complaint(code, id)
      BY <2>2
    <3>2. CASE id \in selected
      <4>1. ById(Artifact)[id] = ById(list)[id]
        BY <3>2, ArtifactHolds
      <4>2. ContextCodes(ById(list)[id], ById(Artifact)) = {}
        BY <3>2, SameSurroundings
      <4> QED BY <3>1, <4>1, <4>2
    <3>3. CASE id \notin selected
      <4>1. id = Report /\ ById(Artifact)[id] = GatewayReport
        BY <3>3, ArtifactHolds
      <4> QED BY <3>1, <4>1, ReportCodes
    <3> QED BY <3>2, <3>3
  <2>3. CASE \E id \in Conflicts(Artifact) : f = Complaint("OPENCTI_DUPLICATE_ID_CONFLICT", id)
    BY <2>3, NoConflicts
  <2>4. CASE \E code \in ListCodes(Artifact) : f = Complaint(code, None)
    <3>1. ListCodes(Artifact) \subseteq {"OPENCTI_LIMIT_EXCEEDED"}
      BY ArtifactHolds DEF ListCodes, Unless
    <3> QED BY <2>4, <3>1
  <2> QED BY <2>1, <2>2, <2>3, <2>4, InFindings
<1> QED BY <1>1, Invariant, PTL

-----------------------------------------------------------------------------
(* Markings and order *)

\* Every object of a candidate that may be delivered has an identifier.
LEMMA AllNamed ==
  ASSUME ~Blocked(list), NEW i \in DOMAIN list
  PROVE  list[i].id # Missing
<1> SUFFICES ASSUME list[i].id = Missing PROVE FALSE
  OBVIOUS
<1>1. "OPENCTI_UNSUPPORTED_PROPERTY" \in ListCodes(list)
  BY DEF ListCodes, Unless
<1>2. Complaint("OPENCTI_UNSUPPORTED_PROPERTY", None) \in Findings(list)
  BY <1>1, InFindings
<1>3. Complaint("OPENCTI_UNSUPPORTED_PROPERTY", None).object = None
  BY DEF Complaint
<1> QED BY <1>2, <1>3 DEF Blocked

\* Where no identifier is contested or missing, by_id is the list.
LEMMA Uncontested ==
  ASSUME NEW objs, Conflicts(objs) = {}, NEW i \in DOMAIN objs, objs[i].id # Missing
  PROVE  objs[i].id \in Ids(objs) /\ objs[i] = ById(objs)[objs[i].id]
BY DEF Conflicts, Ids

\* No approved object is marked with what anything in the candidate makes red.
THEOREM RedNeverLeaves == Spec => []RedStaysIn
<1>1. IInv => RedStaysIn
  <2> SUFFICES ASSUME IInv, phase = "approved",
                      NEW i \in DOMAIN Artifact, NEW j \in DOMAIN list,
                      list[j].type = "marking-definition",
                      list[j].id \in RedIds \/ list[j].tlp = "red",
                      list[j].id \in Artifact[i].marks
               PROVE  FALSE
    BY DEF RedStaysIn
  <2> DEFINE r == list[j].id
  <2>1. Conflicts(list) = {} /\ r # Missing
    <3>1. ~Blocked(list)
      BY DEF IInv
    <3> QED BY <3>1, AllNamed DEF Blocked
  <2>2. r \in Ids(list) /\ ById(list)[r] = list[j]
    BY <2>1, Uncontested
  <2>3. TlpValue(ById(list)[r]) = "red" /\ ById(list)[r].type = "marking-definition"
    BY <2>2 DEF TlpValue
  <2>4. PICK id \in selected : r \in ById(list)[id].marks
    <3>1. CASE Artifact[i] = GatewayReport
      BY <3>1 DEF GatewayReport, Markings
    <3>2. CASE Artifact[i].id \in selected /\ Artifact[i] = ById(list)[Artifact[i].id]
      BY <3>2
    <3> QED BY <3>1, <3>2, ArtifactHolds
  <2>5. r \in DOMAIN ById(list)
    BY <2>2 DEF ById
  <2>6. "red" \in TlpValues(ById(list)[id], ById(list))
    BY <2>3, <2>4, <2>5, ProfileAssumption DEF TlpValues
  <2> QED BY <2>6, SelectedNotRed
<1> QED BY <1>1, Invariant, PTL

\* Another order of an uncontested list is the same to the checker.
LEMMA Reordered ==
  ASSUME NEW objs, IsList(objs), Conflicts(objs) = {}, \A i \in DOMAIN objs : objs[i].id # Missing,
         NEW swap \in Permutations(DOMAIN objs)
  PROVE  LET other == [i \in DOMAIN objs |-> objs[swap[i]]] IN
         /\ Ids(other) = Ids(objs) /\ ById(other) = ById(objs)
         /\ Conflicts(other) = {} /\ Findings(other) = Findings(objs)
<1> DEFINE other == [i \in DOMAIN objs |-> objs[swap[i]]]
<1>1. /\ DOMAIN other = DOMAIN objs /\ IsList(other)
      /\ \A i \in DOMAIN objs : \E k \in DOMAIN objs : other[i] = objs[k]
      /\ \A k \in DOMAIN objs : \E i \in DOMAIN objs : other[i] = objs[k]
  <2>1. /\ DOMAIN other = DOMAIN objs
        /\ \A i \in DOMAIN objs : swap[i] \in DOMAIN objs /\ other[i] = objs[swap[i]]
        /\ \A k \in DOMAIN objs : \E i \in DOMAIN objs : swap[i] = k
    BY DEF Permutations
  <2> HIDE DEF other
  <2>2. ASSUME NEW k \in DOMAIN objs PROVE \E i \in DOMAIN objs : other[i] = objs[k]
    <3>1. PICK i \in DOMAIN objs : swap[i] = k
      BY <2>1
    <3> QED BY <2>1, <3>1
  <2>3. IsList(other)
    BY <2>1 DEF IsList
  <2> QED BY <2>1, <2>2, <2>3
<1> HIDE DEF other
<1>2. Ids(other) = Ids(objs)
  <2>1. ASSUME NEW id \in Ids(other) PROVE id \in Ids(objs)
    <3>1. PICK i \in DOMAIN other : other[i].id = id
      BY DEF Ids
    <3>2. PICK k \in DOMAIN objs : other[i] = objs[k]
      BY <1>1, <3>1
    <3> QED BY <3>1, <3>2 DEF Ids
  <2>2. ASSUME NEW id \in Ids(objs) PROVE id \in Ids(other)
    <3>1. PICK k \in DOMAIN objs : objs[k].id = id
      BY DEF Ids
    <3>2. PICK i \in DOMAIN other : other[i] = objs[k]
      BY <1>1
    <3> QED BY <3>1, <3>2 DEF Ids
  <2> QED BY <2>1, <2>2
<1>3. ASSUME NEW id \in Ids(objs) PROVE ById(other)[id] = ById(objs)[id]
  <2>1. PICK i \in DOMAIN objs : ById(other)[id] = other[i] /\ other[i].id = id
    <3>1. id \in Ids(other) /\ IsList(other) /\ DOMAIN other = DOMAIN objs
      BY <1>1, <1>2
    <3>2. PICK i \in DOMAIN other : ById(other)[id] = other[i]
      BY <3>1, Stored
    <3>3. ById(other)[id].id = id
      BY <3>1, Stored
    <3> QED BY <3>1, <3>2, <3>3
  <2>2. PICK k \in DOMAIN objs : other[i] = objs[k]
    BY <1>1
  <2>3. objs[k] = ById(objs)[objs[k].id]
    BY Uncontested
  <2> QED BY <2>1, <2>2, <2>3
<1>4. ById(other) = ById(objs)
  BY <1>2, <1>3 DEF ById
<1>5. Conflicts(other) = {}
  <2>1. ASSUME NEW i \in DOMAIN other PROVE other[i] = ById(other)[other[i].id]
    <3>1. PICK k \in DOMAIN objs : other[i] = objs[k]
      BY <1>1
    <3>2. objs[k] = ById(objs)[objs[k].id]
      BY Uncontested
    <3> QED BY <1>4, <3>1, <3>2
  <2> QED BY <2>1 DEF Conflicts
<1>6. ASSUME NEW f PROVE f \in Findings(other) <=> f \in Findings(objs)
  <2>1. (\E i \in DOMAIN other : \E code \in ShapeCodes(other[i]) : f = Complaint(code, other[i].id))
        <=> (\E i \in DOMAIN objs : \E code \in ShapeCodes(objs[i]) : f = Complaint(code, objs[i].id))
    <3>1. ASSUME NEW i \in DOMAIN other, NEW code \in ShapeCodes(other[i]),
                 f = Complaint(code, other[i].id)
          PROVE  \E k \in DOMAIN objs : \E c \in ShapeCodes(objs[k]) : f = Complaint(c, objs[k].id)
      <4>1. PICK k \in DOMAIN objs : other[i] = objs[k]
        BY <1>1
      <4> QED BY <3>1, <4>1
    <3>2. ASSUME NEW k \in DOMAIN objs, NEW code \in ShapeCodes(objs[k]),
                 f = Complaint(code, objs[k].id)
          PROVE  \E i \in DOMAIN other : \E c \in ShapeCodes(other[i]) : f = Complaint(c, other[i].id)
      <4>1. PICK i \in DOMAIN other : other[i] = objs[k]
        BY <1>1
      <4> QED BY <3>2, <4>1
    <3> QED BY <3>1, <3>2
  <2>2. f \in Findings(other) <=>
           \/ \E i \in DOMAIN other : \E code \in ShapeCodes(other[i]) :
                f = Complaint(code, other[i].id)
           \/ \E id \in Ids(other) : \E code \in ContextCodes(ById(other)[id], ById(other)) :
                f = Complaint(code, id)
           \/ \E id \in Conflicts(other) : f = Complaint("OPENCTI_DUPLICATE_ID_CONFLICT", id)
           \/ \E code \in ListCodes(other) : f = Complaint(code, None)
    BY InFindings
  <2>3. f \in Findings(objs) <=>
           \/ \E i \in DOMAIN objs : \E code \in ShapeCodes(objs[i]) :
                f = Complaint(code, objs[i].id)
           \/ \E id \in Ids(objs) : \E code \in ContextCodes(ById(objs)[id], ById(objs)) :
                f = Complaint(code, id)
           \/ \E id \in Conflicts(objs) : f = Complaint("OPENCTI_DUPLICATE_ID_CONFLICT", id)
           \/ \E code \in ListCodes(objs) : f = Complaint(code, None)
    BY InFindings
  <2>4. ListCodes(other) = ListCodes(objs)
    <3>1. \A i \in DOMAIN other : other[i].id # Missing
      BY <1>1
    <3> QED BY <1>1, <3>1 DEF ListCodes
  <2> QED BY <1>2, <1>4, <1>5, <2>1, <2>2, <2>3, <2>4
<1>7. Findings(other) = Findings(objs)
  BY <1>6
<1> QED BY <1>2, <1>4, <1>5, <1>7 DEF other

\* What may be delivered does not depend on the order in which the AI tool
\* wrote the objects down.
THEOREM OrderIsIrrelevant == Spec => []OrderDecidesNothing
<1>1. IInv => OrderDecidesNothing
  <2> SUFFICES ASSUME IInv, ~Blocked(list), NEW swap \in Permutations(DOMAIN list)
               PROVE  LET other == [i \in DOMAIN list |-> list[swap[i]]]
                      IN ~Blocked(other) /\ Clean(other) = Clean(list)
                         /\ ById(other) = ById(list)
    BY DEF OrderDecidesNothing
  <2> DEFINE other == [i \in DOMAIN list |-> list[swap[i]]]
  <2>1. Conflicts(list) = {} /\ IsList(list)
    BY CandidateIsList DEF Blocked
  <2>2. /\ Ids(other) = Ids(list) /\ ById(other) = ById(list)
        /\ Conflicts(other) = {} /\ Findings(other) = Findings(list)
    BY <2>1, AllNamed, Reordered
  <2> HIDE DEF other
  <2>3. ~Blocked(other) /\ Clean(other) = Clean(list)
    BY <2>1, <2>2 DEF Blocked, Clean
  <2> QED BY <2>2, <2>3 DEF other
<1> QED BY <1>1, Invariant, PTL
=============================================================================
