--------------------------- MODULE CompatibilityCheck ---------------------------
(***************************************************************************)
(* check_opencti_compatibility (compatibility/checker.py) and the two uses *)
(* ApprovedArtifactBuilder.build makes of it: on the candidate, where what *)
(* it says of an object excludes the object, and on the artifact, where    *)
(* whatever it says blocks the delivery.  Cycles and depth are the subject *)
(* of ReferenceCheck; the selection and its closure, of ApprovedArtifact.  *)
(*                                                                         *)
(* A list of objects is a function from positions, which are numbers, to   *)
(* objects: an identifier may occur twice, and then the first counts.      *)
(*                                                                         *)
(* XFault is a plausible wrong version of X that the model never uses.     *)
(***************************************************************************)
EXTENDS Naturals, FiniteSets

CONSTANTS
  Id,           \* identifiers
  Report,       \* identifier of the report the gateway adds
  Candidate,    \* the lists of objects considered
  Types,        \* the profile: object types,
  Extensions,   \*   extension definitions,
  Legal,        \*   relationship types with the types of their ends,
  RedIds,       \*   identifiers of TLP:RED,
  MaxObjects,   \*   largest number of objects
  Missing,      \* the identifier, or the end of a relationship, that is not there
  None

\* What an object is to the checker.  extra: properties the profile does not
\* list; embedded: extensions that carry their own definition; exact: a channel
\* in the pinned representation; class: identity_class, or location type in lower
\* case; marks: object_marking_refs, which are among refs; tlp: of a marking
\* definition.  What is there has the type STIX gives it, identifiers are strings.
IsObject(o) ==
  /\ DOMAIN o = {"id", "type", "version", "extra", "extensions", "embedded", "exact", "class",
                 "refs", "verb", "source", "target", "marks", "tlp"}
  /\ {o.version, o.exact} \subseteq BOOLEAN
  /\ o.id \in (Id \ {Report}) \cup {Missing}
  /\ o.refs \subseteq Id \ {Report} /\ o.extensions \subseteq Id \ {Report}
  /\ o.marks \subseteq o.refs
  /\ o.type = "relationship" => {o.source, o.target} \subseteq o.refs \cup {Missing}

Control == {"marking-definition", "extension-definition"}

ASSUME CandidateAssumption ==
  \A list \in Candidate :
    DOMAIN list \subseteq Nat \ {0} /\ \A i \in DOMAIN list : IsObject(list[i])
ASSUME ProfileAssumption == "report" \in Types /\ MaxObjects \in Nat /\ None # "red"
ASSUME MissingAssumption == Missing \notin Id \cup {Report}

VARIABLES
  list,      \* the objects of the candidate
  selected,  \* identifiers of what goes into the artifact
  phase

vars == <<list, selected, phase>>

-----------------------------------------------------------------------------
(* The checker *)

Ids(objs) == {objs[i].id : i \in DOMAIN objs} \ {Missing}

First(objs, id) ==
  CHOOSE i \in DOMAIN objs :
    objs[i].id = id /\ \A j \in DOMAIN objs : objs[j].id = id => i <= j

\* by_id
ById(objs) == [id \in Ids(objs) |-> objs[First(objs, id)]]

\* object_references: what granular markings refer to is not among them.
References(o) == o.refs \cup (o.extensions \ o.embedded)

\* _semantic_type, of an identity or a location with its class; STIX calls a
\* sector a class.
SemanticType(o) ==
  <<o.type, CASE o.type = "identity" /\ o.class = "class" -> "sector"
              [] o.type = "identity" /\ o.class \in {"individual", "organization"} -> o.class
              [] o.type = "location" /\ o.class \in {"country", "region"} -> o.class
              [] OTHER -> None>>

\* Goes by the definition only.
TlpValueFault(o) == o.tlp

TlpValue(o) == IF o.id \in RedIds THEN "red" ELSE o.tlp

\* The TLP values of the markings of an object, as far as they are there.
TlpValues(o, byId) ==
  {TlpValue(byId[ref]) : ref \in {r \in o.marks \cap DOMAIN byId :
                                    byId[r].type = "marking-definition"}} \ {None}

Unless(ok, code) == IF ok THEN {} ELSE {code}

\* Complaints about an object alone.
ShapeCodes(o) ==
  IF o.type \notin Types THEN {"OPENCTI_UNSUPPORTED_TYPE"}
  ELSE
    Unless(o.version, "OPENCTI_VERSION_MISMATCH")
    \cup Unless(o.extra = {}, "OPENCTI_UNSUPPORTED_PROPERTY")
    \cup Unless(/\ o.extensions \subseteq Extensions
                /\ o.type # "channel" => o.extensions = {}
                /\ o.type = "extension-definition" => o.id \in Extensions,
                "OPENCTI_UNSUPPORTED_EXTENSION")
    \cup Unless(o.type = "channel" => o.exact, "OPENCTI_UNSUPPORTED_CUSTOM_TYPE")
    \cup Unless(o.type \in {"identity", "location"} => SemanticType(o)[2] # None,
                "OPENCTI_UNSUPPORTED_REPRESENTATION")

\* The types of the ends of a relationship, nothing standing for one that is absent.
EndTypes(o, byId) ==
  [end \in {o.source, o.target} |->
     IF end \in DOMAIN byId THEN SemanticType(byId[end]) ELSE <<"", None>>]

\* Complaints about an object among others.
ContextCodes(o, byId) ==
  Unless(References(o) \subseteq DOMAIN byId, "OPENCTI_MISSING_DEPENDENCY")
  \cup Unless(o.type = "relationship" =>
                LET ends == EndTypes(o, byId)
                IN <<o.verb, ends[o.source], ends[o.target]>> \in Legal,
              "OPENCTI_ILLEGAL_RELATIONSHIP")
  \cup Unless(\A v, w \in TlpValues(o, byId) : v = w, "OPENCTI_MARKING_CONFLICT")
  \cup Unless("red" \notin TlpValues(o, byId), "OPENCTI_TLP_RED_BLOCKED")

\* Takes the later object for the earlier one.
ConflictsFault(objs) == {}

\* Identifiers of different objects.
Conflicts(objs) ==
  {id \in Ids(objs) : \E i \in DOMAIN objs : objs[i].id = id /\ objs[i] # ById(objs)[id]}

Complaint(code, id) == [code |-> code, object |-> id]

ShapeFindings(objs) ==
  UNION {{Complaint(code, objs[i].id) : code \in ShapeCodes(objs[i])} : i \in DOMAIN objs}

ContextFindings(objs) ==
  UNION {{Complaint(code, id) : code \in ContextCodes(ById(objs)[id], ById(objs))} :
           id \in Ids(objs)}

\* Complaints about the list, or about nothing that has a name.
ListCodes(objs) ==
  Unless(Cardinality(DOMAIN objs) <= MaxObjects, "OPENCTI_LIMIT_EXCEEDED")
  \cup Unless(\A i \in DOMAIN objs : objs[i].id # Missing, "OPENCTI_UNSUPPORTED_PROPERTY")

\* check_opencti_compatibility.
Findings(objs) ==
  ShapeFindings(objs) \cup ContextFindings(objs)
  \cup {Complaint("OPENCTI_DUPLICATE_ID_CONFLICT", id) : id \in Conflicts(objs)}
  \cup {Complaint(code, None) : code \in ListCodes(objs)}

-----------------------------------------------------------------------------
(* The builder *)

Clean(objs) == {id \in Ids(objs) : \A f \in Findings(objs) : f.object # id}

\* What keeps the candidate as a whole from being delivered.
Blocked(objs) == Conflicts(objs) # {} \/ \E f \in Findings(objs) : f.object = None

Approved == {id \in selected : ById(list)[id].type \notin Control}

\* Those of the whole candidate.
MarkingsFault == UNION {ById(list)[id].marks : id \in Ids(list)}

Markings == UNION {ById(list)[id].marks : id \in selected}

\* _gateway_report.
GatewayReport ==
  [id |-> Report, type |-> "report", version |-> TRUE, extra |-> {}, extensions |-> {},
   embedded |-> {}, exact |-> FALSE, class |-> None, refs |-> Approved \cup Markings,
   verb |-> None, source |-> None, target |-> None, marks |-> Markings,
   tlp |-> None]

\* The objects of the artifact, at the positions they had; the report at 0.
Artifact ==
  [i \in {First(list, id) : id \in selected} \cup (IF Approved = {} THEN {} ELSE {0}) |->
     IF i = 0 THEN GatewayReport ELSE list[i]]

Init == list \in Candidate /\ selected = {} /\ phase = "check"

\* Findings, reviews and claims leave some objects that no complaint is about,
\* and the closure, those of them with all they refer to.
Select ==
  /\ phase = "check"
  /\ \E S \in SUBSET Clean(list) :
       /\ \A id \in S : References(ById(list)[id]) \subseteq S
       /\ selected' = S
  /\ phase' = "closed"
  /\ UNCHANGED list

Conclude ==
  /\ phase = "closed"
  /\ phase' = IF ~Blocked(list) /\ Approved # {} /\ Findings(Artifact) = {}
              THEN "approved" ELSE "blocked"
  /\ UNCHANGED <<list, selected>>

Next == Select \/ Conclude

Spec == Init /\ [][Next]_vars

-----------------------------------------------------------------------------
(* Properties *)

\* The second check never objects to an object the first one let through: what
\* it may say is that the report collects the markings of objects that disagree,
\* and that the report is one object too many.
RecheckIsQuiet ==
  phase # "check" =>
    Findings(Artifact) \subseteq
      {Complaint("OPENCTI_MARKING_CONFLICT", Report), Complaint("OPENCTI_LIMIT_EXCEEDED", None)}

\* Nothing in an approved artifact, its report included, carries an object marking
\* (object_marking_refs) that any object of the candidate defines as TLP:RED, by
\* its identifier or its text.  Granular markings are not looked at.
RedStaysIn ==
  phase = "approved" =>
    \A i \in DOMAIN Artifact, j \in DOMAIN list :
      /\ list[j].type = "marking-definition"
      /\ list[j].id \in RedIds \/ list[j].tlp = "red"
      => list[j].id \notin Artifact[i].marks

\* Of a finite set.
Permutations(S) == {f \in [S -> S] : \A y \in S : \E x \in S : f[x] = y}

\* The order of the objects decides nothing: if it lets a candidate be
\* delivered, any other lets the same objects be delivered with the same content.
OrderDecidesNothing ==
  ~Blocked(list) =>
    \A swap \in Permutations(DOMAIN list) :
      LET other == [i \in DOMAIN list |-> list[swap[i]]]
      IN ~Blocked(other) /\ Clean(other) = Clean(list) /\ ById(other) = ById(list)
=============================================================================
