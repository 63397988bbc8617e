--------------------------- MODULE ApprovedArtifact ---------------------------
(***************************************************************************)
(* ApprovedArtifactBuilder.build (delivery/artifact.py): the references of *)
(* the candidate are searched, the objects are selected by findings,       *)
(* reviews and claims, the selection is closed under references, a report  *)
(* is added, and the references of the artifact are searched again.        *)
(*                                                                         *)
(* An object carries what the selection looks at; the decision on it is    *)
(* that of its last review.                                                *)
(***************************************************************************)
EXTENDS ReferenceCheck

CONSTANTS
  Object,      \* identifiers of the candidate's objects
  Report,      \* identifier of the report the gateway adds
  Candidate,   \* the references of the candidates considered
  Fact,        \* the facts about an object that are considered
  Verdict      \* verdict of the analysis

Claim == {"SUPPORTED", "reviewable", "unsupported"}

\* A candidate is a list in memory: it has finitely many objects.
ASSUME ObjectAssumption ==
  /\ Object \subseteq Id /\ IsFiniteSet(Object)
  /\ Report \in Id \ Object
ASSUME CandidateAssumption == Candidate \subseteq [Object -> SUBSET Id]
\* flagged: by another check of compatibility, or by a hard finding.
\* unmodeled: has a property no claim is made about.  claims: the statuses of
\* its claims, reviewable standing for UNKNOWN, PARTIAL and NOT_FOUND.
ASSUME FactAssumption ==
  /\ Fact \subseteq [type : {"control", "report", "modeled"}, flagged : BOOLEAN,
                     decision : {"none", "accept", "reject"}, unmodeled : BOOLEAN,
                     claims : SUBSET Claim]
  /\ Verdict \in {"PASS", "REVIEW", "ABSTAIN", "REJECT", "QUARANTINE"}

VARIABLES
  refs,      \* object_references of the candidate's objects
  phase,
  control,   \* the objects of a control type
  reasons,   \* why an object is excluded
  selected,
  todo,      \* objects this pass of the closure has still to look at
  changed

vars == <<graph, search, refs, phase, control, reasons, selected, todo, changed>>

Reason == {"refused", "MISSING_DEPENDENCY", "UNAPPROVED_DEPENDENCY"}

TypeOK ==
  /\ SearchTypeOK
  /\ refs \in [Object -> SUBSET Id]
  /\ phase \in {"check", "close", "recheck", "approved", "blocked"}
  /\ control \subseteq Object
  /\ reasons \in [Object -> SUBSET Reason]
  /\ selected \subseteq Object
  /\ todo \subseteq Object
  /\ changed \in BOOLEAN

Init ==
  /\ refs \in Candidate
  /\ Begin(refs)
  /\ phase = "check"
  /\ control = {} /\ reasons = [o \in Object |-> {}] /\ selected = {}
  /\ todo = {} /\ changed = FALSE

closing == <<refs, control, reasons, selected, todo, changed>>

-----------------------------------------------------------------------------
(* Selection *)

\* Supported, or unrefuted and accepted where the verdict leaves it to the analyst.
Eligible(f) ==
  /\ f.type = "modeled" /\ ~f.unmodeled
  /\ \/ f.claims = {"SUPPORTED"} /\ Verdict \in {"PASS", "REVIEW", "ABSTAIN"}
     \/ /\ f.claims = {"reviewable"} /\ f.decision = "accept"
        /\ Verdict \in {"REVIEW", "ABSTAIN"}

\* Forgets that a control object can be refused.
RefusedFault(fact) ==
  {o \in Object :
    fact[o].type # "control" /\ (o \in Flagged \/ refs[o] \ Object # {} \/ ~Eligible(fact[o]))}

\* Objects that get a reason before the closure.
Refused(fact) ==
  {o \in Object :
    \/ o \in Flagged
    \/ refs[o] \ Object # {}
    \/ fact[o].flagged
    \/ fact[o].decision = "reject"
    \/ fact[o].type # "control" /\ ~Eligible(fact[o])}

Select ==
  /\ phase = "check" /\ Ended
  /\ \E fact \in [Object -> Fact] :
       /\ control' = {o \in Object : fact[o].type = "control"}
       /\ reasons' = [o \in Object |-> IF o \in Refused(fact) THEN {"refused"} ELSE {}]
       /\ selected' = Object \ (control' \cup Refused(fact))
  /\ todo' = {} /\ changed' = TRUE
  /\ phase' = "close"
  /\ UNCHANGED <<graph, search, refs>>

-----------------------------------------------------------------------------
(* Closure: _close_dependencies *)

Pass ==
  /\ phase = "close" /\ todo = {} /\ changed
  /\ todo' = selected
  /\ changed' = FALSE
  /\ UNCHANGED <<graph, search, refs, phase, control, reasons, selected>>

\* Control objects that may be pulled in with an object that refers to them.
Safe == {o \in control : reasons[o] = {}}

Missing(o) == refs[o] \ Object

\* Pulls in a control object that has been dropped.
PulledFault(o) == (refs[o] \cap control) \ selected

\* Fails for a control object that is not in the selection yet.
BlockingFault(o) == refs[o] \ selected

\* The dependencies o pulls in, and those it fails for.
Pulled(o) == IF Missing(o) = {} THEN (refs[o] \cap Safe) \ selected ELSE {}
Blocking(o) == refs[o] \ (Safe \cup selected)

\* Drops the object and does not say that something changed.
ResolveObjectFault(o) ==
  /\ todo' = todo \ {o}
  /\ selected' = (selected \cup Pulled(o)) \ (IF Blocking(o) # {} THEN {o} ELSE {})
  /\ reasons' = [reasons EXCEPT ![o] = @ \cup IF Missing(o) # {} THEN {"MISSING_DEPENDENCY"}
                                             ELSE IF Blocking(o) # {} THEN {"UNAPPROVED_DEPENDENCY"}
                                             ELSE {}]
  /\ changed' = (changed \/ Pulled(o) # {})

\* One turn of the inner loop, for the object o.
ResolveObject(o) ==
  /\ todo' = todo \ {o}
  /\ selected' = (selected \cup Pulled(o)) \ (IF Blocking(o) # {} THEN {o} ELSE {})
  /\ reasons' = [reasons EXCEPT ![o] = @ \cup IF Missing(o) # {} THEN {"MISSING_DEPENDENCY"}
                                             ELSE IF Blocking(o) # {} THEN {"UNAPPROVED_DEPENDENCY"}
                                             ELSE {}]
  /\ changed' = (changed \/ Pulled(o) # {} \/ Blocking(o) # {})

Resolve ==
  /\ phase = "close" /\ todo # {}
  /\ ResolveObject(Least(todo))
  /\ UNCHANGED <<graph, search, refs, phase, control>>

-----------------------------------------------------------------------------
(* The artifact *)

Approved == selected \ control

\* The references of the artifact; the report refers to what is approved and
\* to the markings, which are among the control objects referred to.
Artifact(markings) ==
  [o \in selected \cup (IF Approved = {} THEN {} ELSE {Report}) |->
     IF o = Report THEN Approved \cup markings ELSE refs[o]]

Recheck ==
  /\ phase = "close" /\ todo = {} /\ ~changed
  /\ \E markings \in SUBSET {c \in selected \cap control : \E o \in selected : c \in refs[o]} :
       /\ graph' = Artifact(markings)
       /\ roots' = DOMAIN graph'
  /\ stack' = <<>> /\ visited' = <<>> /\ found' = {}
  /\ phase' = "recheck"
  /\ UNCHANGED closing

Dangling == {o \in DOMAIN graph : graph[o] \ DOMAIN graph # {}}

\* The gates.  otherBlockers: integrity of the snapshot, and the checks of
\* compatibility that do not look at references.
Conclude ==
  /\ phase = "recheck" /\ Ended
  /\ \E otherBlockers \in BOOLEAN :
       phase' = IF ~otherBlockers /\ found = {} /\ Dangling = {} /\ Approved # {}
                THEN "approved" ELSE "blocked"
  /\ UNCHANGED <<graph, search, closing>>

Check ==
  /\ phase \in {"check", "recheck"}
  /\ SearchStep
  /\ UNCHANGED <<closing, phase>>

Next == Check \/ Select \/ Pass \/ Resolve \/ Recheck \/ Conclude

Spec == Init /\ [][Next]_vars

\* One thread runs the function to its end.
BuildSpec == Spec /\ WF_vars(Next)

-----------------------------------------------------------------------------
(* Properties *)

Closed == phase \in {"recheck", "approved", "blocked"}

\* An object with a reason for its exclusion is not in the artifact, whatever
\* refers to it: not the one an analyst rejected, not the control object that
\* is unsafe.
ExcludedStaysOut == \A o \in selected : reasons[o] = {}

\* The closure leaves no reference out of the selection.
SelectionIsClosed == Closed => \A o \in selected : refs[o] \subseteq selected

\* The largest closed set of objects that were not refused at the selection.
Largest ==
  UNION {C \in SUBSET {o \in Object : "refused" \notin reasons[o]} :
           \A o \in C : refs[o] \subseteq C}

\* The order of the identifiers decides nothing: an object is delivered if it
\* may be together with all it refers to, and a control object only then.
SelectionIsLargest ==
  Closed => Approved = Largest \ control /\ selected \subseteq Largest

\* Nothing delivered refers to what is not, and nothing is left out without need.
SelectionIsLargestClosed == SelectionIsClosed /\ SelectionIsLargest

\* The artifact has no cycle and no dangling reference although cycles are
\* looked for in the candidate only object by object: the second search never
\* has to refuse an artifact for them.
RecheckFindsOnlyDepth == Closed => Dangling = {} /\ \A f \in found : f[1] = "depth"

PhasesLeft ==
  CASE phase = "check" -> 3 [] phase = "close" -> 2 [] phase = "recheck" -> 1
    [] phase \in {"approved", "blocked"} -> 0

\* What the closure can still do: pull in a control object, drop an object, and
\* make another pass for what it did.
ClosureLeft ==
  Cardinality(Safe \ selected) + Cardinality({o \in Object : reasons[o] = {}})
    + (IF changed THEN 1 ELSE 0)

\* How much of the build is left, what weighs most first.
Measure == <<PhasesLeft, ClosureLeft, Cardinality(todo), SearchLeft>>

Descent ==
  \E i \in 1..4 : /\ Measure'[i] < Measure[i]
                  /\ \A j \in 1..(i - 1) : Measure'[j] = Measure[j]

\* Every step of build, of the searches and of `while changed` included, leaves
\* less to do: no object is pulled in and dropped in turn, for whatever references
\* and in whatever order of the identifiers.
BuildProgresses == [][Descent]_vars

\* The build ends, in spite of objects that come and go during the closure.
BuildEnds == <>(phase \in {"approved", "blocked"})
=============================================================================
