------------------------ MODULE ApprovedArtifactProofs ------------------------
(***************************************************************************)
(* Theorems about ApprovedArtifact, for any candidate, any facts about its *)
(* objects and any depth limit: what the closure of the dependencies       *)
(* leaves, and that the second search finds no cycle.                      *)
(***************************************************************************)
EXTENDS ApprovedArtifact, ReferenceCheckProofs

\* The objects that were not refused at the selection.
Unrefused == {o \in Object : "refused" \notin reasons[o]}

\* In a pass that has changed nothing, the objects it has looked at have all
\* they refer to.
PassInv ==
  phase = "close" =>
    /\ todo \subseteq selected
    /\ ~changed => \A o \in selected \ todo : refs[o] \subseteq selected

\* What may be delivered together with all it refers to is never excluded,
\* and stays selected unless it is a control object.
KeepsLargest ==
  phase # "check" => \A o \in Largest : reasons[o] = {} /\ o \in control \cup selected

\* The references of the artifact are searched, or those of the candidate.
SearchedGraph ==
  IF Closed
  THEN /\ selected \subseteq DOMAIN graph
       /\ DOMAIN graph \subseteq selected \cup {Report}
       /\ \A o \in DOMAIN graph : IF o = Report THEN graph[o] \subseteq selected
                                                ELSE graph[o] = refs[o]
       /\ \A f \in found : f[1] = "depth"
  ELSE graph = refs

\* Among the references of objects that were not refused there is no cycle.
Acyclic ==
  phase # "check" =>
    \A C \in SUBSET Unrefused : C # {} => \E o \in C : refs[o] \cap C = {}

IInv ==
  /\ TypeOK /\ SearchInv
  /\ ExcludedStaysOut /\ PassInv /\ SelectionIsClosed /\ KeepsLargest
  /\ SearchedGraph /\ Acyclic
  /\ FindingsAreReal

-----------------------------------------------------------------------------

\* A closed set of unrefused objects is a part of the largest one, which is
\* closed itself.
LEMMA LargestProps ==
  /\ Largest \subseteq Unrefused
  /\ \A o \in Largest : refs[o] \subseteq Largest
  /\ \A C \in SUBSET Unrefused : (\A o \in C : refs[o] \subseteq C) => C \subseteq Largest
BY DEF Largest, Unrefused

LEMMA InvInit == Init => IInv
<1> SUFFICES ASSUME Init PROVE IInv
  OBVIOUS
<1>1. /\ refs \in [Object -> SUBSET Id] /\ Object \subseteq Id
      /\ phase = "check" /\ selected = {} /\ control = {} /\ todo = {} /\ changed = FALSE
      /\ reasons = [o \in Object |-> {}]
      /\ Begin(refs) /\ graph = refs
  BY CandidateAssumption, ObjectAssumption DEF Init, Begin
<1>2. SearchInv
  BY <1>1, BeginInv
<1>3. TypeOK
  BY <1>1, <1>2 DEF TypeOK, SearchInv
<1>4. FindingsAreReal
  BY <1>1 DEF Begin, FindingsAreReal
<1> QED BY <1>1, <1>2, <1>3, <1>4 DEF IInv, ExcludedStaysOut, PassInv, SelectionIsClosed, Closed,
           KeepsLargest, SearchedGraph, Acyclic

-----------------------------------------------------------------------------
(* The steps *)

LEMMA CheckInv == IInv /\ Check => IInv'
<1> SUFFICES ASSUME IInv, Check PROVE IInv'
  OBVIOUS
<1>1. /\ UNCHANGED closing /\ phase' = phase /\ SearchStep
      /\ phase \in {"check", "recheck"} /\ graph' = graph
  BY DEF Check, SearchStep, Root, Follow, Leave
<1> USE DEF closing
<1>2. SearchInv'
  BY <1>1, SearchStepInv DEF IInv
<1>3. TypeOK'
  BY <1>1, <1>2 DEF IInv, TypeOK, SearchInv
<1>4. /\ ExcludedStaysOut' /\ PassInv' /\ SelectionIsClosed' /\ Acyclic'
  BY <1>1 DEF IInv, ExcludedStaysOut, PassInv, SelectionIsClosed, Closed, Acyclic, Unrefused
<1>5. KeepsLargest'
  BY <1>1 DEF IInv, KeepsLargest, Largest
<1>6. SearchedGraph'
  <2>1. CASE ~Closed
    BY <1>1, <2>1 DEF IInv, SearchedGraph, Closed
  <2>2. CASE Closed
    <3>1. phase # "check" /\ phase # "close"
      BY <2>2 DEF Closed
    <3>2. selected \subseteq Unrefused
      BY DEF IInv, TypeOK, ExcludedStaysOut, Unrefused
    <3>3. AcyclicOn(DOMAIN graph)
      <4> SUFFICES ASSUME NEW C \in SUBSET DOMAIN graph, C # {}
                   PROVE  \E o \in C : graph[o] \cap C = {}
        BY DEF AcyclicOn
      <4>1. \A o \in selected : Report \notin refs[o] /\ graph[o] = refs[o]
        <5> SUFFICES ASSUME NEW o \in selected
                     PROVE  Report \notin refs[o] /\ graph[o] = refs[o]
          OBVIOUS
        <5>1. selected \subseteq Object /\ Report \notin Object
          BY ObjectAssumption DEF IInv, TypeOK
        <5>2. refs[o] \subseteq selected
          BY <2>2 DEF IInv, SelectionIsClosed
        <5>3. graph[o] = refs[o]
          BY <2>2, <5>1 DEF IInv, SearchedGraph
        <5> QED BY <5>1, <5>2, <5>3
      <4>2. CASE C \subseteq {Report}
        <5>1. C = {Report} /\ Report \notin selected /\ Report \in DOMAIN graph
          BY <4>2, ObjectAssumption DEF IInv, TypeOK
        <5>2. graph[Report] \subseteq selected
          BY <2>2, <5>1, ObjectAssumption DEF IInv, SearchedGraph, TypeOK
        <5> QED BY <5>1, <5>2
      <4>3. CASE C \cap selected # {}
        <5>1. PICK o \in C \cap selected : refs[o] \cap (C \cap selected) = {}
          BY <3>1, <3>2, <4>3 DEF IInv, Acyclic
        <5>2. C \subseteq selected \cup {Report}
          BY <2>2 DEF IInv, SearchedGraph
        <5> QED BY <4>1, <5>1, <5>2
      <4> QED BY <2>2, <4>2, <4>3 DEF IInv, SearchedGraph
    <3>4. \A f \in found' : f[1] = "depth"
      BY <1>1, <2>2, <3>3, NoCycleNoFinding DEF IInv, SearchedGraph
    <3> QED BY <1>1, <2>2, <3>4 DEF IInv, SearchedGraph, Closed
  <2> QED BY <2>1, <2>2
<1>7. FindingsAreReal'
  BY <1>1, FindingsStep DEF IInv
<1> QED BY <1>7, <1>2, <1>3, <1>4, <1>5, <1>6 DEF IInv

\* The selection: nothing with a reason is selected, and every unrefused
\* object that is not a control object is.
LEMMA SelectInv == IInv /\ Select => IInv'
<1> SUFFICES ASSUME IInv, Select PROVE IInv'
  OBVIOUS
<1>1. PICK fact \in [Object -> Fact] :
        /\ control' = {o \in Object : fact[o].type = "control"}
        /\ reasons' = [o \in Object |-> IF o \in Refused(fact) THEN {"refused"} ELSE {}]
        /\ selected' = Object \ (control' \cup Refused(fact))
  BY DEF Select
<1>2. /\ phase = "check" /\ Ended /\ phase' = "close" /\ todo' = {} /\ changed' = TRUE
      /\ UNCHANGED <<graph, search>> /\ refs' = refs
  BY DEF Select
<1>3. SearchInv'
  BY <1>2, SearchStutter DEF IInv
<1>4. TypeOK'
  BY <1>1, <1>2, <1>3 DEF IInv, TypeOK, SearchInv, Reason
<1>5. Unrefused' = Object \ Refused(fact)
  BY <1>1 DEF Unrefused
<1>6. \A o \in Unrefused' : reasons'[o] = {} /\ o \in control' \cup selected'
  BY <1>1, <1>5
<1>7. Largest' \subseteq Unrefused'
  BY DEF Largest, Unrefused
<1>8. ExcludedStaysOut' /\ PassInv' /\ SelectionIsClosed' /\ KeepsLargest' /\ SearchedGraph'
  BY <1>1, <1>2, <1>6, <1>7 DEF IInv, ExcludedStaysOut, PassInv, SelectionIsClosed, Closed,
     KeepsLargest, SearchedGraph
<1>9. Acyclic'
  <2> SUFFICES ASSUME NEW C \in SUBSET Unrefused', C # {}
               PROVE  \E o \in C : refs[o] \cap C = {}
    BY <1>2 DEF Acyclic
  <2>1. graph = refs /\ DOMAIN refs = Object
    BY <1>2 DEF IInv, SearchedGraph, Closed, TypeOK
  <2>2. Unrefused' \subseteq Object \ Flagged
    BY <1>5 DEF Refused
  <2>3. AcyclicOn(DOMAIN graph \ Flagged)
    BY <1>2, CycleIsFlagged DEF IInv, EveryCycleIsFlagged
  <2> QED BY <2>1, <2>2, <2>3 DEF AcyclicOn
<1>10. FindingsAreReal'
  BY <1>2, FindingsStutter DEF IInv, search
<1> QED BY <1>10, <1>3, <1>4, <1>8, <1>9 DEF IInv

LEMMA PassStepInv == IInv /\ Pass => IInv'
<1> SUFFICES ASSUME IInv, Pass PROVE IInv'
  OBVIOUS
<1>1. /\ phase = "close" /\ todo' = selected /\ changed' = FALSE
      /\ UNCHANGED <<graph, search, refs, phase, control, reasons, selected>>
  BY DEF Pass
<1>2. SearchInv'
  BY <1>1, SearchStutter DEF IInv
<1>3. TypeOK'
  BY <1>1, <1>2 DEF IInv, TypeOK, SearchInv
<1>4. KeepsLargest' /\ Acyclic'
  BY <1>1 DEF IInv, KeepsLargest, Largest, Acyclic, Unrefused
<1>5. FindingsAreReal'
  BY <1>1, FindingsStutter DEF IInv, search
<1> QED BY <1>5, <1>1, <1>2, <1>3, <1>4 DEF IInv, ExcludedStaysOut, PassInv, SelectionIsClosed, Closed,
           SearchedGraph, search

\* The closure: an object of the largest closed set has nothing it could fail
\* for; a turn that changes nothing has found all references of its object.
LEMMA ResolveInv == IInv /\ Resolve => IInv'
<1> SUFFICES ASSUME IInv, Resolve PROVE IInv'
  OBVIOUS
<1> DEFINE o == Least(todo)
<1>1. /\ phase = "close" /\ todo # {} /\ ResolveObject(o)
      /\ UNCHANGED <<graph, search, refs, phase, control>>
  BY DEF Resolve
<1>2. o \in todo /\ todo \subseteq Object
  BY <1>1, LeastIn, ObjectAssumption DEF IInv, TypeOK
<1> HIDE DEF o
<1>3. o \in selected /\ o \in Object /\ todo \subseteq selected /\ reasons[o] = {}
  BY <1>1, <1>2 DEF IInv, PassInv, TypeOK, ExcludedStaysOut
<1>4. /\ Pulled(o) \subseteq Safe /\ Pulled(o) \subseteq control /\ control \subseteq Object
      /\ Missing(o) # {} => Blocking(o) # {}
      /\ Blocking(o) = {} => refs[o] \subseteq selected \cup Pulled(o)
  BY DEF IInv, TypeOK, Pulled, Missing, Blocking, Safe
<1>5. /\ todo' = todo \ {o}
      /\ selected' = (selected \cup Pulled(o)) \ (IF Blocking(o) # {} THEN {o} ELSE {})
      /\ changed' = (changed \/ Pulled(o) # {} \/ Blocking(o) # {})
      /\ reasons' \in [Object -> SUBSET Reason]
      /\ \A x \in Object : x # o => reasons'[x] = reasons[x]
      /\ Blocking(o) = {} => reasons'[o] = reasons[o]
      /\ "refused" \notin reasons'[o]
  <2> DEFINE why == IF Missing(o) # {} THEN {"MISSING_DEPENDENCY"}
                    ELSE IF Blocking(o) # {} THEN {"UNAPPROVED_DEPENDENCY"} ELSE {}
  <2>1. /\ why \subseteq Reason /\ "refused" \notin why
        /\ Blocking(o) = {} => why = {}
    BY <1>4 DEF Reason
  <2>2. reasons' = [reasons EXCEPT ![o] = @ \cup why]
    BY <1>1 DEF ResolveObject
  <2>3. /\ todo' = todo \ {o}
        /\ selected' = (selected \cup Pulled(o)) \ (IF Blocking(o) # {} THEN {o} ELSE {})
        /\ changed' = (changed \/ Pulled(o) # {} \/ Blocking(o) # {})
    BY <1>1 DEF ResolveObject
  <2> HIDE DEF why
  <2>4. reasons \in [Object -> SUBSET Reason]
    BY DEF IInv, TypeOK
  <2>5. /\ reasons' \in [Object -> SUBSET Reason] /\ reasons'[o] = why
        /\ \A x \in Object : x # o => reasons'[x] = reasons[x]
    BY <1>3, <2>1, <2>2, <2>4
  <2> QED BY <1>3, <2>1, <2>3, <2>5
<1>6. SearchInv'
  BY <1>1, SearchStutter DEF IInv
<1>7. TypeOK'
  BY <1>1, <1>4, <1>5, <1>6 DEF IInv, TypeOK, SearchInv
<1>8. Unrefused' = Unrefused /\ Largest' = Largest
  <2>1. \A x \in Object : "refused" \in reasons'[x] <=> "refused" \in reasons[x]
    BY <1>3, <1>5
  <2> QED BY <1>1, <2>1 DEF Unrefused, Largest
<1>9. ExcludedStaysOut'
  BY <1>3, <1>4, <1>5 DEF IInv, TypeOK, ExcludedStaysOut, Safe
<1>10. PassInv'
  <2>1. CASE ~changed'
    <3>1. ~changed /\ Pulled(o) = {} /\ Blocking(o) = {} /\ selected' = selected
      BY <1>5, <2>1 DEF IInv, TypeOK
    <3>2. refs[o] \subseteq selected
      BY <1>4, <3>1
    <3> QED BY <1>1, <1>3, <1>5, <3>1, <3>2 DEF IInv, PassInv
  <2>2. CASE changed'
    BY <1>1, <1>3, <1>5, <2>2 DEF PassInv
  <2> QED BY <2>1, <2>2
<1>11. KeepsLargest'
  <2>1. \A x \in Largest : reasons[x] = {} /\ x \in control \cup selected
    BY <1>1 DEF IInv, KeepsLargest
  <2>2. o \in Largest => Blocking(o) = {}
    BY <2>1, LargestProps DEF Blocking, Safe
  <2>3. Largest \subseteq Object
    BY LargestProps DEF Unrefused
  <2> QED BY <1>1, <1>3, <1>5, <1>8, <2>1, <2>2, <2>3 DEF KeepsLargest
<1>12. SelectionIsClosed' /\ SearchedGraph' /\ Acyclic'
  BY <1>1, <1>8 DEF IInv, SelectionIsClosed, Closed, SearchedGraph, Acyclic, search
<1>13. FindingsAreReal'
  BY <1>1, FindingsStutter DEF IInv, search
<1> QED BY <1>13, <1>6, <1>7, <1>9, <1>10, <1>11, <1>12 DEF IInv

\* The second search begins with the references of a closed selection.
LEMMA RecheckInv == IInv /\ Recheck => IInv'
<1> SUFFICES ASSUME IInv, Recheck PROVE IInv'
  OBVIOUS
<1>1. PICK markings \in SUBSET {c \in selected \cap control : \E o \in selected : c \in refs[o]} :
        graph' = Artifact(markings) /\ roots' = DOMAIN graph'
  BY DEF Recheck
<1>2. /\ phase = "close" /\ todo = {} /\ ~changed /\ phase' = "recheck"
      /\ stack' = <<>> /\ visited' = <<>> /\ found' = {} /\ UNCHANGED closing
  BY DEF Recheck
<1> USE DEF closing
<1>3. \A o \in selected : refs[o] \subseteq selected
  BY <1>2 DEF IInv, PassInv
<1>4. /\ DOMAIN graph' = selected \cup (IF Approved = {} THEN {} ELSE {Report})
      /\ \A o \in DOMAIN graph' : graph'[o] = IF o = Report THEN Approved \cup markings ELSE refs[o]
  BY <1>1 DEF Artifact
<1>5. selected \subseteq Object /\ Approved \cup markings \subseteq selected /\ Object \subseteq Id
  BY ObjectAssumption DEF IInv, TypeOK, Approved
<1>6. /\ DOMAIN graph' \subseteq Id
      /\ \A o \in DOMAIN graph' : graph'[o] \subseteq Id
  BY <1>3, <1>4, <1>5, ObjectAssumption
<1>7. SearchInv'
  BY <1>1, <1>2, <1>6 DEF SearchInv, SearchTypeOK, FramesOK, Followed, Ordered, Reached
<1>8. TypeOK'
  BY <1>2, <1>7 DEF IInv, TypeOK, SearchInv
<1>9. SearchedGraph'
  BY <1>2, <1>4, <1>5 DEF SearchedGraph, Closed
<1>10. ExcludedStaysOut' /\ PassInv' /\ SelectionIsClosed' /\ KeepsLargest' /\ Acyclic'
  BY <1>2, <1>3 DEF IInv, ExcludedStaysOut, PassInv, SelectionIsClosed, KeepsLargest, Largest,
     Acyclic, Unrefused
<1>11. FindingsAreReal'
  BY <1>2 DEF FindingsAreReal
<1> QED BY <1>11, <1>7, <1>8, <1>9, <1>10 DEF IInv

LEMMA ConcludeInv == IInv /\ Conclude => IInv'
<1> SUFFICES ASSUME IInv, Conclude PROVE IInv'
  OBVIOUS
<1>1. /\ phase = "recheck" /\ phase' \in {"approved", "blocked"}
      /\ UNCHANGED <<graph, search, closing>>
  BY DEF Conclude
<1> USE DEF closing, search
<1>2. SearchInv'
  BY <1>1, SearchStutter DEF IInv
<1>3. TypeOK'
  BY <1>1, <1>2 DEF IInv, TypeOK, SearchInv
<1>4. KeepsLargest' /\ Acyclic'
  BY <1>1 DEF IInv, KeepsLargest, Largest, Acyclic, Unrefused
<1>5. SelectionIsClosed' /\ SearchedGraph'
  BY <1>1 DEF IInv, SelectionIsClosed, Closed, SearchedGraph
<1>6. FindingsAreReal'
  BY <1>1, FindingsStutter DEF IInv
<1> QED BY <1>6, <1>1, <1>2, <1>3, <1>4, <1>5 DEF IInv, ExcludedStaysOut, PassInv

LEMMA InvStep == IInv /\ [Next]_vars => IInv'
<1> SUFFICES ASSUME IInv, UNCHANGED vars PROVE IInv'
  BY CheckInv, SelectInv, PassStepInv, ResolveInv, RecheckInv, ConcludeInv DEF Next
<1> USE DEF vars, search
<1>1. SearchInv'
  BY SearchStutter DEF IInv
<1>2. TypeOK'
  BY <1>1 DEF IInv, TypeOK, SearchInv
<1>3. KeepsLargest' /\ Acyclic'
  BY DEF IInv, KeepsLargest, Largest, Acyclic, Unrefused
<1>4. SelectionIsClosed' /\ SearchedGraph'
  BY DEF IInv, SelectionIsClosed, Closed, SearchedGraph
<1>5. FindingsAreReal'
  BY FindingsStutter DEF IInv
<1> QED BY <1>5, <1>1, <1>2, <1>3, <1>4 DEF IInv, ExcludedStaysOut, PassInv

LEMMA Invariance == Spec => []IInv
<1>1. Init => IInv
  BY InvInit
<1>2. IInv /\ [Next]_vars => IInv'
  BY InvStep
<1> QED BY <1>1, <1>2, PTL DEF Spec

-----------------------------------------------------------------------------
(* build ends *)

\* What is searched has finitely many objects, none of them twice on the stack.
Bounded == IsFiniteSet(DOMAIN graph) /\ Distinct

LEMMA BoundedInit == Init => Bounded
<1> SUFFICES ASSUME Init PROVE Bounded
  OBVIOUS
<1>1. graph = refs /\ DOMAIN refs = Object /\ stack = <<>>
  BY CandidateAssumption DEF Init, Begin
<1> QED BY <1>1, ObjectAssumption DEF Bounded, Distinct

LEMMA BoundedStep == IInv /\ Bounded /\ [Next]_vars => Bounded'
<1> SUFFICES ASSUME IInv, Bounded, [Next]_vars PROVE Bounded'
  OBVIOUS
<1>1. CASE UNCHANGED <<graph, search>>
  BY <1>1, DistinctStutter DEF Bounded
<1>2. CASE Check
  <2>1. SearchStep /\ graph' = graph
    BY <1>2 DEF Check, SearchStep, Root, Follow, Leave
  <2> QED BY <2>1, DistinctStep DEF IInv, Bounded
<1>3. CASE Recheck
  <2>1. /\ stack' = <<>>
        /\ DOMAIN graph' = selected \cup (IF Approved = {} THEN {} ELSE {Report})
    BY <1>3 DEF Recheck, Artifact
  <2>2. IsFiniteSet(selected)
    BY ObjectAssumption, FS_Subset DEF IInv, TypeOK
  <2>3. IsFiniteSet(selected \cup {Report})
    BY <2>2, FS_AddElement
  <2>4. IsFiniteSet(DOMAIN graph')
    BY <2>1, <2>2, <2>3
  <2> QED BY <2>1, <2>4 DEF Bounded, Distinct
<1> QED BY <1>1, <1>2, <1>3
        DEF Next, Select, Pass, Resolve, Conclude, vars

LEMMA Boundedness == Spec => []Bounded
<1>1. IInv /\ Bounded /\ [Next]_vars => Bounded'
  BY BoundedStep
<1> QED BY <1>1, BoundedInit, Invariance, PTL DEF Spec

\* The sets the measure counts.
Pullable == Safe \ selected
Clean == {o \in Object : reasons[o] = {}}

LEMMA MeasureParts ==
  ASSUME IInv, Bounded
  PROVE  /\ IsFiniteSet(Pullable) /\ IsFiniteSet(Clean) /\ IsFiniteSet(todo)
         /\ \A i \in 1..4 : Measure[i] \in Nat
<1>1. /\ Pullable \in SUBSET Object /\ Clean \in SUBSET Object /\ todo \in SUBSET Object
      /\ phase \in {"check", "close", "recheck", "approved", "blocked"} /\ changed \in BOOLEAN
  BY DEF IInv, TypeOK, Pullable, Safe, Clean
<1>2. IsFiniteSet(Pullable) /\ IsFiniteSet(Clean) /\ IsFiniteSet(todo)
  <2> HIDE DEF Pullable, Clean
  <2> QED BY <1>1, ObjectAssumption, FS_Subset
<1>3. Cardinality(Pullable) \in Nat /\ Cardinality(Clean) \in Nat /\ Cardinality(todo) \in Nat
  BY <1>2, FS_CardinalityType
<1>4. ClosureLeft \in Nat
  <2>1. (IF changed THEN 1 ELSE 0) \in Nat
    OBVIOUS
  <2>2. \A a, b, c \in Nat : a + b + c \in Nat
    OBVIOUS
  <2>3. ClosureLeft = Cardinality(Pullable) + Cardinality(Clean) + (IF changed THEN 1 ELSE 0)
    BY DEF ClosureLeft, Pullable, Clean
  <2> QED BY <1>3, <2>1, <2>2, <2>3
<1>5. SearchLeft \in Nat
  BY Counted DEF IInv, Bounded
<1>6. PhasesLeft \in Nat
  BY <1>1 DEF PhasesLeft
<1>7. /\ Measure[1] = PhasesLeft /\ Measure[2] = ClosureLeft
      /\ Measure[3] = Cardinality(todo) /\ Measure[4] = SearchLeft
  BY DEF Measure
<1>8. \A i \in 1..4 : i = 1 \/ i = 2 \/ i = 3 \/ i = 4
  OBVIOUS
<1> QED BY <1>2, <1>3, <1>4, <1>5, <1>6, <1>7, <1>8

\* A turn of the closure that changes something leaves less to pull in or to drop.
LEMMA TurnShrinks ==
  ASSUME IInv, Bounded, Resolve
  PROVE  /\ Cardinality(todo') < Cardinality(todo)
         /\ Pullable' \subseteq Pullable /\ Clean' \subseteq Clean
         /\ changed' # changed => Pullable' # Pullable \/ Clean' # Clean
         /\ changed => changed'
<1> DEFINE o == Least(todo)
<1>1. /\ phase = "close" /\ todo # {} /\ ResolveObject(o) /\ control' = control
  BY DEF Resolve
<1>2. o \in todo /\ todo \subseteq Object
  BY <1>1, LeastIn, ObjectAssumption DEF IInv, TypeOK
<1> HIDE DEF o
<1>3. o \in selected /\ o \in Object /\ reasons[o] = {} /\ changed \in BOOLEAN
      /\ reasons \in [Object -> SUBSET Reason] /\ control \subseteq Object
  BY <1>1, <1>2 DEF IInv, PassInv, TypeOK, ExcludedStaysOut
<1> DEFINE why == IF Missing(o) # {} THEN {"MISSING_DEPENDENCY"}
                  ELSE IF Blocking(o) # {} THEN {"UNAPPROVED_DEPENDENCY"} ELSE {}
<1>4. /\ todo' = todo \ {o}
      /\ selected' = (selected \cup Pulled(o)) \ (IF Blocking(o) # {} THEN {o} ELSE {})
      /\ changed' = (changed \/ Pulled(o) # {} \/ Blocking(o) # {})
      /\ reasons' = [reasons EXCEPT ![o] = @ \cup why]
  BY <1>1 DEF ResolveObject
<1>5. /\ why = {} <=> Blocking(o) = {}
      /\ Pulled(o) \subseteq Safe \ selected
  BY <1>3 DEF Missing, Blocking, Pulled, Safe, IInv, TypeOK
<1> HIDE DEF why
<1>6. /\ \A x \in Object : x # o => reasons'[x] = reasons[x]
      /\ reasons'[o] = why
  BY <1>3, <1>4
<1>7. Cardinality(todo') < Cardinality(todo)
  <2>1. todo' \in SUBSET todo /\ todo' # todo
    BY <1>2, <1>4
  <2> QED BY <2>1, MeasureParts, Fewer
<1>8. Clean' \subseteq Clean /\ (Blocking(o) # {} => Clean' # Clean)
  BY <1>3, <1>5, <1>6 DEF Clean
<1>9. Pullable' \subseteq Pullable
  <2>1. Safe' \subseteq Safe /\ (Blocking(o) # {} => o \notin Safe')
    BY <1>1, <1>3, <1>5, <1>6 DEF Safe
  <2> QED BY <1>3, <1>4, <2>1 DEF Pullable
<1>10. Blocking(o) = {} /\ Pulled(o) # {} => Pullable' # Pullable
  <2> SUFFICES ASSUME Blocking(o) = {}, NEW p \in Pulled(o) PROVE Pullable' # Pullable
    OBVIOUS
  <2>1. p \in Pullable /\ p \in selected'
    BY <1>4, <1>5 DEF Pullable
  <2> QED BY <2>1 DEF Pullable
<1> QED BY <1>3, <1>4, <1>7, <1>8, <1>9, <1>10

\* Every step of build leaves less to do.
LEMMA MeasureStep ==
  ASSUME IInv, Bounded, Next
  PROVE  Descent
<1>1. SUFFICES \E i \in 1..4 : /\ Measure'[i] < Measure[i]
                               /\ \A j \in 1..(i - 1) : Measure'[j] = Measure[j]
  BY DEF Descent
<1>2. /\ Measure[1] = PhasesLeft /\ Measure'[1] = PhasesLeft'
      /\ Measure[2] = ClosureLeft /\ Measure'[2] = ClosureLeft'
      /\ Measure[3] = Cardinality(todo) /\ Measure'[3] = Cardinality(todo')
      /\ Measure[4] = SearchLeft /\ Measure'[4] = SearchLeft'
  BY DEF Measure
<1>3. CASE Select \/ Recheck \/ Conclude
  <2>1. PhasesLeft' < PhasesLeft
    BY <1>3 DEF Select, Recheck, Conclude, PhasesLeft
  <2>2. 1 \in 1..4 /\ \A j \in 1..(1 - 1) : FALSE
    OBVIOUS
  <2> QED BY <1>2, <2>1, <2>2
<1>4. CASE Pass
  <2>1. PhasesLeft' = PhasesLeft /\ phase' = phase
    BY <1>4 DEF Pass, PhasesLeft
  <2>2. /\ changed /\ ~changed' /\ control' = control /\ reasons' = reasons
        /\ selected' = selected
    BY <1>4 DEF Pass
  <2>3. Pullable' = Pullable /\ Clean' = Clean
    BY <2>2 DEF Pullable, Clean, Safe
  <2>4. Cardinality(Pullable) \in Nat /\ Cardinality(Clean) \in Nat
    BY MeasureParts, FS_CardinalityType
  <2>5. /\ ClosureLeft = Cardinality(Pullable) + Cardinality(Clean) + 1
        /\ ClosureLeft' = Cardinality(Pullable) + Cardinality(Clean) + 0
    BY <2>2, <2>3 DEF ClosureLeft, Pullable, Clean
  <2>6. ClosureLeft' < ClosureLeft
    <3>1. \A a, b \in Nat : a + b + 0 < a + b + 1
      OBVIOUS
    <3> QED BY <2>4, <2>5, <3>1
  <2>7. 2 \in 1..4 /\ \A j \in 1..(2 - 1) : j = 1
    OBVIOUS
  <2> QED BY <1>2, <2>1, <2>6, <2>7
<1>5. CASE Resolve
  <2>1. PhasesLeft' = PhasesLeft
    BY <1>5 DEF Resolve, PhasesLeft
  <2> DEFINE c == IF changed THEN 1 ELSE 0
  <2>2. /\ Cardinality(Pullable) \in Nat /\ Cardinality(Pullable') \in Nat
        /\ Cardinality(Pullable') <= Cardinality(Pullable)
        /\ Pullable' # Pullable => Cardinality(Pullable') < Cardinality(Pullable)
    BY <1>5, MeasureParts, TurnShrinks, Fewer
  <2>3. /\ Cardinality(Clean) \in Nat /\ Cardinality(Clean') \in Nat
        /\ Cardinality(Clean') <= Cardinality(Clean)
        /\ Clean' # Clean => Cardinality(Clean') < Cardinality(Clean)
    BY <1>5, MeasureParts, TurnShrinks, Fewer
  <2>4. /\ c \in {0, 1} /\ c' \in {0, 1}
        /\ c' = c \/ Pullable' # Pullable \/ Clean' # Clean
    BY <1>5, TurnShrinks
  <2>5. /\ ClosureLeft = Cardinality(Pullable) + Cardinality(Clean) + c
        /\ ClosureLeft' = Cardinality(Pullable') + Cardinality(Clean') + c'
    BY DEF ClosureLeft, Pullable, Clean
  <2> HIDE DEF c
  <2>6. ClosureLeft' <= ClosureLeft
    <3>1. \A a, b, x, y \in Nat, d, z \in {0, 1} :
            x <= a /\ y <= b /\ (z = d \/ x < a \/ y < b) => x + y + z <= a + b + d
      OBVIOUS
    <3> QED BY <2>2, <2>3, <2>4, <2>5, <3>1
  <2>7. Cardinality(todo') < Cardinality(todo)
    BY <1>5, TurnShrinks
  <2>8. ClosureLeft' = ClosureLeft \/ ClosureLeft' < ClosureLeft
    <3>1. ClosureLeft \in Nat /\ ClosureLeft' \in Nat
      <4>1. \A a, b \in Nat, d \in {0, 1} : a + b + d \in Nat
        OBVIOUS
      <4> QED BY <2>2, <2>3, <2>4, <2>5, <4>1
    <3> QED BY <2>6, <3>1
  <2>9. 2 \in 1..4 /\ 3 \in 1..4 /\ (\A j \in 1..(2 - 1) : j = 1)
        /\ (\A j \in 1..(3 - 1) : j = 1 \/ j = 2)
    OBVIOUS
  <2>10. CASE ClosureLeft' < ClosureLeft
    BY <1>2, <2>1, <2>9, <2>10
  <2>11. CASE ClosureLeft' = ClosureLeft
    BY <1>2, <2>1, <2>7, <2>9, <2>11
  <2> QED BY <2>8, <2>10, <2>11
<1>6. CASE Check
  <2>1. SearchStep /\ UNCHANGED closing /\ phase' = phase
    BY <1>6 DEF Check
  <2>2. /\ PhasesLeft' = PhasesLeft /\ ClosureLeft' = ClosureLeft
        /\ Cardinality(todo') = Cardinality(todo)
    BY <2>1 DEF closing, PhasesLeft, ClosureLeft, Safe
  <2>3. SearchLeft' < SearchLeft
    BY <2>1, SearchShrinks DEF IInv, Bounded
  <2>4. 4 \in 1..4 /\ \A j \in 1..(4 - 1) : j = 1 \/ j = 2 \/ j = 3
    OBVIOUS
  <2> QED BY <1>2, <2>2, <2>3, <2>4
<1> QED BY <1>3, <1>4, <1>5, <1>6 DEF Next

-----------------------------------------------------------------------------
(* Theorems *)

\* Type correctness of a build.
THEOREM ArtifactTypeCorrect == Spec => []TypeOK
<1>1. IInv => TypeOK
  BY DEF IInv
<1> QED BY <1>1, Invariance, PTL

\* A search of _cycle_findings that has ended has reported an object of every
\* cycle, in the candidate and in the artifact.
THEOREM CyclesAreFlagged == Spec => []EveryCycleIsFlagged
<1>1. IInv => EveryCycleIsFlagged
  BY CycleIsFlagged DEF IInv
<1> QED BY <1>1, Invariance, PTL

\* _cycle_findings reports only cycles and chains that are there.
THEOREM FindingsHold == Spec => []FindingsAreReal
<1>1. IInv => FindingsAreReal
  BY DEF IInv
<1> QED BY <1>1, Invariance, PTL

\* _cycle_findings is exact about cycles, and sound about chains.
THEOREM FindingsExact == Spec => []CycleFindingsAreExact
<1>1. EveryCycleIsFlagged /\ FindingsAreReal => CycleFindingsAreExact
  BY DEF CycleFindingsAreExact
<1> QED BY <1>1, CyclesAreFlagged, FindingsHold, PTL

\* Nothing _close_dependencies or the selection excluded is in the artifact.
THEOREM ExcludedNeverDelivered == Spec => []ExcludedStaysOut
<1>1. IInv => ExcludedStaysOut
  BY DEF IInv
<1> QED BY <1>1, Invariance, PTL

\* _close_dependencies leaves no reference out of the selection.
THEOREM ClosureIsClosed == Spec => []SelectionIsClosed
<1>1. IInv => SelectionIsClosed
  BY DEF IInv
<1> QED BY <1>1, Invariance, PTL

\* _close_dependencies excludes nothing that could be delivered together with
\* all it refers to.
THEOREM ClosureIsLargest == Spec => []SelectionIsLargest
<1>1. IInv => SelectionIsLargest
  <2> SUFFICES ASSUME IInv, Closed
               PROVE  Approved = Largest \ control /\ selected \subseteq Largest
    BY DEF SelectionIsLargest
  <2>1. selected \in SUBSET Unrefused /\ \A o \in selected : refs[o] \subseteq selected
    BY DEF IInv, TypeOK, ExcludedStaysOut, Unrefused, SelectionIsClosed
  <2>2. selected \subseteq Largest
    BY <2>1, LargestProps
  <2>3. Largest \ control \subseteq selected
    BY DEF IInv, KeepsLargest, Closed
  <2> QED BY <2>2, <2>3 DEF Approved
<1> QED BY <1>1, Invariance, PTL

\* _close_dependencies computes the largest closed selection.
THEOREM ClosureIsLargestClosed == Spec => []SelectionIsLargestClosed
<1>1. SelectionIsClosed /\ SelectionIsLargest => SelectionIsLargestClosed
  BY DEF SelectionIsLargestClosed
<1> QED BY <1>1, ClosureIsClosed, ClosureIsLargest, PTL

\* The second search of build finds no cycle and no dangling reference.
THEOREM ArtifactHasNoCycle == Spec => []RecheckFindsOnlyDepth
<1>1. IInv => RecheckFindsOnlyDepth
  <2> SUFFICES ASSUME IInv, Closed
               PROVE  Dangling = {} /\ \A f \in found : f[1] = "depth"
    BY DEF RecheckFindsOnlyDepth
  <2>1. ASSUME NEW o \in DOMAIN graph PROVE graph[o] \subseteq selected
    <3>1. o # Report => o \in selected
      BY DEF IInv, SearchedGraph
    <3> QED BY <3>1 DEF IInv, SearchedGraph, SelectionIsClosed
  <2> QED BY <2>1 DEF IInv, SearchedGraph, Dangling
<1> QED BY <1>1, Invariance, PTL

\* build cannot go on for ever: every step of it leaves less of a measure that
\* is four natural numbers, the first that differs deciding.  Above all `while
\* changed` ends, since what was dropped is never pulled in again.
THEOREM BuildIsBounded == Spec => BuildProgresses
<1>1. IInv /\ Bounded /\ [Next]_vars => [Descent]_vars
  BY MeasureStep
<1> QED BY <1>1, Invariance, Boundedness, PTL DEF Spec, BuildProgresses

\* The measure is made of natural numbers, so that there are no endless descents.
THEOREM BuildMeasureIsNatural == Spec => [](\A i \in 1..4 : Measure[i] \in Nat)
<1>1. IInv /\ Bounded => \A i \in 1..4 : Measure[i] \in Nat
  BY MeasureParts
<1> QED BY <1>1, Invariance, Boundedness, PTL
=============================================================================
