------------------------- MODULE ReferenceCheckProofs -------------------------
(***************************************************************************)
(* Lemmas about the search of ReferenceCheck, for any graph, any order of  *)
(* the identifiers and any depth limit.  The argument: when the visit of   *)
(* an object ends, every object it refers to has been reported or its      *)
(* visit has ended before.  So references that lead to no reported object  *)
(* go from later to earlier visits, and cannot form a cycle.               *)
(***************************************************************************)
EXTENDS ReferenceCheck, TLAPS, WellFoundedInduction, FiniteSetTheorems

\* Each object being visited was reached from the one below it.
FramesOK ==
  /\ \A i \in 1..Len(stack) : /\ stack[i].node \in DOMAIN graph
                              /\ stack[i].rest \subseteq graph[stack[i].node] \cap DOMAIN graph
  /\ \A i \in 1..Len(stack) : i # 1 => stack[i - 1].node \in graph[stack[i].node]

\* The references a visit has followed are dealt with, but for the one it is
\* following.
Followed ==
  \A i \in 1..Len(stack) :
    \A w \in (graph[stack[i].node] \cap DOMAIN graph) \ stack[i].rest :
      w \in Flagged \cup Visited \/ (i # 1 /\ w = stack[i - 1].node)

\* Visits end after those of what they refer to.
Ordered ==
  \A p \in 1..Len(visited) :
    /\ visited[p] \in DOMAIN graph
    /\ \A w \in graph[visited[p]] \cap DOMAIN graph :
         w \in Flagged \/ \E q \in 1..(p - 1) : visited[q] = w

\* The outer loop has visited what it has reached, or does so now.
Reached ==
  \A w \in DOMAIN graph \ roots :
    w \in Visited \/ (stack # <<>> /\ w = stack[Len(stack)].node)

SearchInv == SearchTypeOK /\ FramesOK /\ Followed /\ Ordered /\ Reached

-----------------------------------------------------------------------------
(* Numbers and stacks *)

\* A set of numbers that is not empty has a least one.
LEMMA LeastExists ==
  ASSUME NEW S \in SUBSET Nat, S # {}
  PROVE  \E x \in S : \A y \in S : x <= y
<1>1. PICK x \in S : \A y \in S : <<y, x>> \notin OpToRel(<, Nat)
  BY NatLessThanWellFounded, WFMin, Zenon
<1>2. \A y \in S : ~(y < x)
  BY <1>1, Zenon DEF OpToRel
<1>3. x \in Nat /\ S \subseteq Nat
  OBVIOUS
<1> QED BY <1>2, <1>3

\* The next object a loop over a set of identifiers takes is one of the set.
LEMMA LeastIn ==
  ASSUME NEW S \in SUBSET Id, S # {}
  PROVE  Least(S) \in S
BY LeastExists, IdAssumption DEF Least

\* Pushing a frame moves the others down by one.
LEMMA Push ==
  ASSUME NEW s \in Seq(Frame), NEW e \in Frame
  PROVE  /\ <<e>> \o s \in Seq(Frame)
         /\ Len(<<e>> \o s) = Len(s) + 1
         /\ (<<e>> \o s)[1] = e
         /\ \A i \in 2..(Len(s) + 1) : (<<e>> \o s)[i] = s[i - 1]
OBVIOUS

\* What a step of the outer loop or of a visit passes to visit.
LEMMA Replace ==
  ASSUME NEW s \in Seq(Frame), NEW e \in Frame, s # <<>>
  PROVE  /\ <<e>> \o Tail(s) \in Seq(Frame)
         /\ Len(<<e>> \o Tail(s)) = Len(s)
         /\ (<<e>> \o Tail(s))[1] = e
         /\ \A i \in 2..Len(s) : (<<e>> \o Tail(s))[i] = s[i]
<1>1. Tail(s) \in Seq(Frame) /\ Len(Tail(s)) = Len(s) - 1 /\ Len(s) \in Nat \ {0}
  OBVIOUS
<1>2. \A i \in 2..Len(s) : Tail(s)[i - 1] = s[i]
  OBVIOUS
<1> QED BY <1>1, <1>2, Push

-----------------------------------------------------------------------------
(* The steps *)

\* What visit does to the stack and to the findings.
LEMMA VisitCases ==
  ASSUME NEW n, NEW path, Visit(n, path)
  PROVE  \/ stack' = path /\ found' = found /\ n \in Visited
         \/ stack' = path /\ \E kind \in {"depth", "cycle"} : found' = found \cup {<<kind, n>>}
         \/ /\ stack' = <<[node |-> n, rest |-> graph[n] \cap DOMAIN graph]>> \o path
            /\ found' = found
BY DEF Visit

\* The search begins in the invariant.
LEMMA BeginInv ==
  ASSUME NEW g, Begin(g), DOMAIN g \subseteq Id, \A o \in DOMAIN g : g[o] \subseteq Id
  PROVE  SearchInv
BY DEF Begin, SearchInv, SearchTypeOK, FramesOK, Followed, Ordered, Reached

\* Leaving an object keeps the invariant.
LEMMA LeaveInv == SearchInv /\ Leave => SearchInv'
<1> SUFFICES ASSUME SearchInv, Leave PROVE SearchInv'
  OBVIOUS
<1> USE DEF SearchInv
<1> DEFINE v == Head(stack).node
<1>1. /\ stack \in Seq(Frame) /\ stack # <<>> /\ Len(stack) \in Nat \ {0}
      /\ Head(stack) = stack[1] /\ stack[1].rest = {}
      /\ v \in DOMAIN graph /\ v \in Id /\ v = stack[1].node
  BY DEF Leave, SearchTypeOK, FramesOK
<1>2. /\ Tail(stack) \in Seq(Frame) /\ Len(Tail(stack)) = Len(stack) - 1
      /\ \A i \in 1..(Len(stack) - 1) : Tail(stack)[i] = stack[i + 1]
  BY <1>1
<1>3. /\ stack' = Tail(stack) /\ visited' = Append(visited, v)
      /\ graph' = graph /\ roots' = roots /\ found' = found
  BY DEF Leave
<1>4. /\ visited \in Seq(Id) /\ Len(visited) \in Nat /\ visited' \in Seq(Id)
      /\ Len(visited') = Len(visited) + 1 /\ visited'[Len(visited) + 1] = v
      /\ \A p \in 1..Len(visited) : visited'[p] = visited[p]
  BY <1>1, <1>3 DEF SearchTypeOK
<1>5. Flagged' = Flagged /\ Visited' = Visited \cup {v}
  BY <1>3, <1>4 DEF Flagged, Visited
<1> HIDE DEF v
<1>6. SearchTypeOK'
  BY <1>2, <1>3, <1>4 DEF SearchTypeOK
<1>7. FramesOK'
  <2> SUFFICES ASSUME NEW i \in 1..Len(stack')
               PROVE  /\ stack'[i].node \in DOMAIN graph
                      /\ stack'[i].rest \subseteq graph[stack'[i].node] \cap DOMAIN graph
                      /\ i # 1 => stack'[i - 1].node \in graph[stack'[i].node]
    BY <1>3 DEF FramesOK
  <2>1. /\ i + 1 \in 1..Len(stack) /\ i + 1 # 1 /\ (i + 1) - 1 = i
        /\ stack'[i] = stack[i + 1]
    BY <1>1, <1>2, <1>3
  <2>2. i # 1 => stack'[i - 1] = stack[i]
    BY <1>1, <1>2, <1>3, <2>1
  <2> QED BY <2>1, <2>2 DEF FramesOK
<1>8. Followed'
  <2> SUFFICES ASSUME NEW i \in 1..(Len(stack) - 1),
                      NEW w \in (graph[stack[i + 1].node] \cap DOMAIN graph) \ stack[i + 1].rest
               PROVE  w \in Flagged \cup Visited \cup {v} \/ (i # 1 /\ w = stack[i].node)
    BY <1>1, <1>2, <1>3, <1>5 DEF Followed
  <2>1. w \in Flagged \cup Visited \/ w = stack[i].node
    BY <1>1 DEF Followed
  <2> QED BY <1>1, <2>1
<1>9. Ordered'
  <2> SUFFICES ASSUME NEW p \in 1..(Len(visited) + 1)
               PROVE  /\ visited'[p] \in DOMAIN graph
                      /\ \A w \in graph[visited'[p]] \cap DOMAIN graph :
                           w \in Flagged \/ \E q \in 1..(p - 1) : visited'[q] = w
    BY <1>3, <1>4, <1>5 DEF Ordered
  <2>1. CASE p = Len(visited) + 1
    <3>1. ASSUME NEW w \in graph[v] \cap DOMAIN graph PROVE w \in Flagged \cup Visited
      BY <1>1 DEF Followed
    <3>2. \A w \in Visited : \E q \in 1..(p - 1) : visited'[q] = w
      BY <1>4, <2>1 DEF Visited
    <3> QED BY <1>1, <1>4, <2>1, <3>1, <3>2
  <2>2. CASE p \in 1..Len(visited)
    <3>1. \A q \in 1..(p - 1) : visited'[q] = visited[q]
      BY <1>4, <2>2
    <3> QED BY <1>4, <2>2, <3>1 DEF Ordered
  <2> QED BY <1>4, <2>1, <2>2
<1>10. Reached'
  <2> SUFFICES ASSUME NEW w \in DOMAIN graph \ roots
               PROVE  w \in Visited \cup {v}
                      \/ (Len(stack) # 1 /\ w = stack[Len(stack)].node)
    <3>1. Len(stack) # 1 => stack' # <<>> /\ stack'[Len(stack')] = stack[Len(stack)]
      BY <1>1, <1>2, <1>3
    <3> QED BY <1>3, <1>5, <3>1 DEF Reached
  <2>1. w \in Visited \/ w = stack[Len(stack)].node
    BY DEF Reached
  <2> QED BY <1>1, <2>1
<1> QED BY <1>6, <1>7, <1>8, <1>9, <1>10

\* Visiting n keeps the invariant.  path is the stack, the reference to n being
\* the one its innermost visit is at.
LEMMA VisitInv ==
  ASSUME SearchInv, NEW path \in Seq(Frame), NEW n \in DOMAIN graph, Visit(n, path),
         graph' = graph, visited' = visited, roots' \subseteq roots,
         \A w \in roots : w \in roots' \/ (w = n /\ path = <<>>),
         Len(path) = Len(stack),
         \A i \in 1..Len(path) : path[i].node = stack[i].node /\ path[i].rest \subseteq stack[i].rest,
         \A i \in 1..Len(path) : \A w \in stack[i].rest \ path[i].rest : i = 1 /\ w = n,
         path # <<>> => n \in graph[path[1].node]
  PROVE  SearchInv'
<1> USE DEF SearchInv
<1> DEFINE new == [node |-> n, rest |-> graph[n] \cap DOMAIN graph]
<1>1. new \in Frame /\ n \in Id /\ Len(path) \in Nat /\ stack \in Seq(Frame)
      /\ new.node = n /\ new.rest = graph[n] \cap DOMAIN graph
  BY DEF SearchTypeOK, Frame
<1> HIDE DEF new
<1>2. /\ <<new>> \o path \in Seq(Frame) /\ Len(<<new>> \o path) = Len(path) + 1
      /\ (<<new>> \o path)[1] = new
      /\ \A i \in 2..(Len(path) + 1) : (<<new>> \o path)[i] = path[i - 1]
  BY <1>1, Push
<1>3. \/ stack' = path /\ found' = found /\ n \in Visited
      \/ stack' = path /\ \E kind \in {"depth", "cycle"} : found' = found \cup {<<kind, n>>}
      \/ stack' = <<new>> \o path /\ found' = found
  BY VisitCases DEF new
<1>4. Visited' = Visited /\ Flagged \subseteq Flagged' /\ found' \subseteq Finding
  BY <1>1, <1>3 DEF Visited, Flagged, Finding, SearchTypeOK
<1>5. stack' = path => n \in Visited \cup Flagged'
  <2>1. ASSUME NEW kind, found' = found \cup {<<kind, n>>} PROVE n \in Flagged'
    <3>1. <<kind, n>> \in found' /\ <<kind, n>>[2] = n
      BY <2>1
    <3> QED BY <3>1 DEF Flagged
  <2>2. CASE stack' = <<new>> \o path /\ stack' = path
    BY <1>1, <1>2, <2>2
  <2> QED BY <1>3, <2>1, <2>2
<1>6. stack' = path \/ stack' = <<new>> \o path
  BY <1>3
<1>7. SearchTypeOK'
  BY <1>2, <1>4, <1>6 DEF SearchTypeOK
<1>8. Ordered'
  BY <1>4 DEF Ordered
<1>9. /\ \A i \in 1..Len(path) : path[i].node \in DOMAIN graph
      /\ \A i \in 1..Len(path) : path[i].rest \subseteq graph[path[i].node] \cap DOMAIN graph
      /\ \A i \in 1..Len(path) : i # 1 => path[i - 1].node \in graph[path[i].node]
  <2> SUFFICES ASSUME NEW i \in 1..Len(path)
               PROVE  /\ path[i].node \in DOMAIN graph
                      /\ path[i].rest \subseteq graph[path[i].node] \cap DOMAIN graph
                      /\ i # 1 => path[i - 1].node \in graph[path[i].node]
    OBVIOUS
  <2>1. /\ path[i].node = stack[i].node /\ path[i].rest \subseteq stack[i].rest
        /\ i # 1 => path[i - 1].node = stack[i - 1].node
    BY <1>1
  <2> QED BY <2>1 DEF FramesOK
<1>10. \A i \in 1..Len(path) :
         \A w \in (graph[path[i].node] \cap DOMAIN graph) \ path[i].rest :
           w \in Flagged \cup Visited \/ (i # 1 /\ w = path[i - 1].node) \/ (i = 1 /\ w = n)
  <2> SUFFICES ASSUME NEW i \in 1..Len(path),
                      NEW w \in (graph[path[i].node] \cap DOMAIN graph) \ path[i].rest
               PROVE  w \in Flagged \cup Visited \/ (i # 1 /\ w = path[i - 1].node)
                      \/ (i = 1 /\ w = n)
    OBVIOUS
  <2>1. path[i].node = stack[i].node /\ (i # 1 => path[i - 1].node = stack[i - 1].node)
    BY <1>1
  <2>2. CASE w \in stack[i].rest
    BY <2>2
  <2>3. CASE w \notin stack[i].rest
    BY <2>1, <2>3 DEF Followed
  <2> QED BY <2>2, <2>3
<1>11. CASE stack' = path
  <2>1. FramesOK'
    BY <1>9, <1>11 DEF FramesOK
  <2>2. Followed'
    BY <1>4, <1>5, <1>10, <1>11 DEF Followed
  <2>3. Reached'
    <3> SUFFICES ASSUME NEW w \in DOMAIN graph \ roots'
                 PROVE  w \in Visited \/ (path # <<>> /\ w = path[Len(path)].node)
      BY <1>4, <1>11 DEF Reached
    <3>0. path = <<>> => n \in Visited
      <4> SUFFICES ASSUME path = <<>> PROVE n \in Visited
        OBVIOUS
      <4>1. Len(path) = 0 /\ Visiting(path) = {}
        BY DEF Visiting
      <4>2. stack' # <<new>> \o path
        BY <1>1, <1>2, <1>11
      <4> QED BY <4>1, <4>2, DepthAssumption DEF Visit, new
    <3>1. CASE w \in roots
      BY <3>0, <3>1
    <3>2. CASE w \notin roots
      BY <1>1, <3>2 DEF Reached
    <3> QED BY <3>1, <3>2
  <2> QED BY <1>7, <1>8, <2>1, <2>2, <2>3
<1>12. CASE stack' = <<new>> \o path
  <2>0. /\ Len(stack') = Len(path) + 1 /\ stack'[1] = new
        /\ \A i \in 2..Len(stack') : stack'[i] = path[i - 1] /\ i - 1 \in 1..Len(path)
    BY <1>1, <1>2, <1>12
  <2>1. FramesOK'
    <3> SUFFICES ASSUME NEW i \in 1..Len(stack')
                 PROVE  /\ stack'[i].node \in DOMAIN graph
                        /\ stack'[i].rest \subseteq graph[stack'[i].node] \cap DOMAIN graph
                        /\ i # 1 => stack'[i - 1].node \in graph[stack'[i].node]
      BY DEF FramesOK
    <3>1. CASE i = 1
      BY <1>1, <2>0, <3>1
    <3>2. CASE i = 2
      BY <1>1, <1>9, <2>0, <3>2
    <3>3. CASE i > 2
      <4>1. stack'[i] = path[i - 1] /\ stack'[i - 1] = path[(i - 1) - 1]
            /\ i - 1 \in 1..Len(path) /\ i - 1 # 1
        BY <1>1, <2>0, <3>3
      <4> QED BY <1>9, <4>1
    <3> QED BY <1>1, <2>0, <3>1, <3>2, <3>3
  <2>2. Followed'
    <3> SUFFICES ASSUME NEW i \in 1..Len(stack'),
                        NEW w \in (graph[stack'[i].node] \cap DOMAIN graph) \ stack'[i].rest
                 PROVE  w \in Flagged' \cup Visited \/ (i # 1 /\ w = stack'[i - 1].node)
      BY <1>4 DEF Followed
    <3>1. CASE i = 1
      BY <1>1, <2>0, <3>1
    <3>2. CASE i = 2
      <4>1. stack'[i] = path[1] /\ stack'[i - 1] = new /\ 1 \in 1..Len(path)
        BY <1>1, <2>0, <3>2
      <4>2. w \in Flagged \cup Visited \/ w = n
        BY <1>10, <4>1
      <4> QED BY <1>1, <1>4, <3>2, <4>1, <4>2
    <3>3. CASE i > 2
      <4>1. stack'[i] = path[i - 1] /\ stack'[i - 1] = path[(i - 1) - 1]
            /\ i - 1 \in 1..Len(path) /\ i - 1 # 1 /\ i # 1
        BY <1>1, <2>0, <3>3
      <4>2. w \in Flagged \cup Visited \/ w = path[(i - 1) - 1].node
        BY <1>10, <4>1
      <4> QED BY <1>4, <4>1, <4>2
    <3> QED BY <1>1, <2>0, <3>1, <3>2, <3>3
  <2>3. Reached'
    <3> SUFFICES ASSUME NEW w \in DOMAIN graph \ roots'
                 PROVE  w \in Visited \/ w = stack'[Len(stack')].node
      BY <1>1, <1>4, <2>0 DEF Reached
    <3>1. CASE path = <<>>
      <4>1. stack = <<>> /\ Len(stack') = 1
        BY <1>1, <2>0, <3>1
      <4> QED BY <1>1, <2>0, <3>1, <4>1 DEF Reached
    <3>2. CASE path # <<>>
      <4>1. /\ Len(path) \in 1..Len(path) /\ stack # <<>>
            /\ stack'[Len(stack')] = path[Len(path)]
        BY <1>1, <2>0, <3>2
      <4>2. stack'[Len(stack')].node = stack[Len(stack)].node
        BY <4>1
      <4> QED BY <3>2, <4>1, <4>2 DEF Reached
    <3> QED BY <3>1, <3>2
  <2> QED BY <1>7, <1>8, <2>1, <2>2, <2>3
<1> QED BY <1>6, <1>11, <1>12

\* The outer loop keeps the invariant.
LEMMA RootInv == SearchInv /\ Root => SearchInv'
<1> SUFFICES ASSUME SearchInv, Root PROVE SearchInv'
  OBVIOUS
<1> DEFINE n == Least(roots)
<1>1. roots \in SUBSET Id /\ roots # {} /\ roots \subseteq DOMAIN graph
  BY DEF SearchInv, SearchTypeOK, Root
<1>2. n \in roots
  BY <1>1, LeastIn
<1>3. /\ stack = <<>> /\ roots' = roots \ {n} /\ Visit(n, <<>>)
      /\ graph' = graph /\ visited' = visited
  BY DEF Root
<1>4. <<>> \in Seq(Frame) /\ Len(<<>>) = 0
  OBVIOUS
<1> HIDE DEF n
<1> DEFINE path == <<>>
<1>5. /\ path \in Seq(Frame) /\ Len(path) = Len(stack) /\ n \in DOMAIN graph
      /\ roots' \subseteq roots
      /\ \A w \in roots : w \in roots' \/ (w = n /\ path = <<>>)
      /\ \A i \in 1..Len(path) : FALSE
  BY <1>1, <1>2, <1>3, <1>4
<1>6. path = <<>> /\ Visit(n, path)
  BY <1>3
<1> HIDE DEF path
<1> QED BY <1>3, <1>5, <1>6, VisitInv

\* What the innermost visit passes on when it follows a reference.
LEMMA FollowPath ==
  ASSUME SearchInv, Follow
  PROVE  \E n \in DOMAIN graph, path \in Seq(Frame) :
           /\ Visit(n, path)
           /\ path # <<>> /\ n \in graph[path[1].node]
           /\ Len(path) = Len(stack)
           /\ \A i \in 1..Len(path) : /\ path[i].node = stack[i].node
                                     /\ path[i].rest \subseteq stack[i].rest
           /\ \A i \in 1..Len(path) : \A w \in stack[i].rest \ path[i].rest : i = 1 /\ w = n
           /\ n \in stack[1].rest /\ n \notin path[1].rest
<1> DEFINE n == Least(Head(stack).rest)
           top == [Head(stack) EXCEPT !.rest = @ \ {n}]
           path == <<top>> \o Tail(stack)
<1>1. /\ stack \in Seq(Frame) /\ stack # <<>> /\ Len(stack) \in Nat \ {0}
      /\ Head(stack) = stack[1] /\ stack[1] \in Frame /\ stack[1].rest # {}
  BY DEF SearchInv, SearchTypeOK, Follow
<1>2. /\ stack[1].rest \in SUBSET Id
      /\ stack[1].rest \subseteq graph[stack[1].node] \cap DOMAIN graph
  BY <1>1 DEF Frame, SearchInv, FramesOK
<1>3. n \in stack[1].rest
  BY <1>1, <1>2, LeastIn
<1>4. Visit(n, path)
  BY DEF Follow
<1> HIDE DEF n
<1>5. /\ top \in Frame /\ top.node = stack[1].node /\ top.rest = stack[1].rest \ {n}
  BY <1>1 DEF Frame
<1> HIDE DEF top
<1>6. /\ path \in Seq(Frame) /\ Len(path) = Len(stack) /\ path[1] = top
      /\ \A i \in 2..Len(stack) : path[i] = stack[i]
  BY <1>1, <1>5, Replace
<1> HIDE DEF path
<1>7. path # <<>>
  BY <1>1, <1>6
<1>8. ASSUME NEW i \in 1..Len(path)
      PROVE  /\ path[i].node = stack[i].node /\ path[i].rest \subseteq stack[i].rest
             /\ \A w \in stack[i].rest \ path[i].rest : i = 1 /\ w = n
  <2>1. CASE i = 1
    BY <1>5, <1>6, <2>1
  <2>2. CASE i # 1
    <3>1. path[i] = stack[i]
      BY <1>1, <1>6, <2>2
    <3> QED BY <3>1
  <2> QED BY <2>1, <2>2
<1>9. n \in DOMAIN graph /\ n \in graph[path[1].node]
  BY <1>2, <1>3, <1>5, <1>6
<1>10. n \in stack[1].rest /\ n \notin path[1].rest
  BY <1>3, <1>5, <1>6
<1> QED BY <1>4, <1>6, <1>7, <1>8, <1>9, <1>10

\* Following a reference keeps the invariant.
LEMMA FollowInv == SearchInv /\ Follow => SearchInv'
<1> SUFFICES ASSUME SearchInv, Follow PROVE SearchInv'
  OBVIOUS
<1>1. graph' = graph /\ visited' = visited /\ roots' = roots
  BY DEF Follow
<1> QED BY <1>1, FollowPath, VisitInv

LEMMA SearchStepInv == SearchInv /\ SearchStep => SearchInv'
BY RootInv, FollowInv, LeaveInv DEF SearchStep

LEMMA SearchStutter == SearchInv /\ UNCHANGED <<graph, search>> => SearchInv'
BY DEF search, SearchInv, SearchTypeOK, FramesOK, Followed, Ordered, Reached, Flagged, Visited

-----------------------------------------------------------------------------
(* The search ends *)

\* No object is being visited twice, or after its visit has ended.
Distinct ==
  /\ \A i, j \in 1..Len(stack) : stack[i].node = stack[j].node => i = j
  /\ \A i \in 1..Len(stack) : stack[i].node \notin Visited

\* What the steps do to the stack: the shapes of VisitCases, place by place.
LEMMA VisitPlaces ==
  ASSUME SearchInv, NEW path \in Seq(Frame), NEW n \in DOMAIN graph, Visit(n, path)
  PROVE  \/ stack' = path
         \/ /\ n \notin Visited \cup Visiting(path)
            /\ Len(stack') = Len(path) + 1
            /\ stack'[1].node = n /\ stack'[1].rest = graph[n] \cap DOMAIN graph
            /\ \A i \in 2..Len(stack') : i - 1 \in 1..Len(path) /\ stack'[i] = path[i - 1]
<1> DEFINE new == [node |-> n, rest |-> graph[n] \cap DOMAIN graph]
<1>1. new \in Frame /\ new.node = n /\ new.rest = graph[n] \cap DOMAIN graph
      /\ Len(path) \in Nat
  BY DEF SearchInv, SearchTypeOK, Frame
<1>2. \/ stack' = path
      \/ n \notin Visited \cup Visiting(path) /\ stack' = <<new>> \o path
  BY DEF Visit
<1> HIDE DEF new
<1>3. /\ Len(<<new>> \o path) = Len(path) + 1 /\ (<<new>> \o path)[1] = new
      /\ \A i \in 2..(Len(path) + 1) : (<<new>> \o path)[i] = path[i - 1]
  BY <1>1, Push
<1> QED BY <1>1, <1>2, <1>3

LEMMA VisitDistinct ==
  ASSUME SearchInv, Distinct, NEW path \in Seq(Frame), NEW n \in DOMAIN graph, Visit(n, path),
         visited' = visited, Len(path) = Len(stack),
         \A i \in 1..Len(path) : path[i].node = stack[i].node
  PROVE  Distinct'
<1>1. Visited' = Visited /\ Len(path) \in Nat
  BY DEF Visited
<1>2. /\ \A i, j \in 1..Len(path) : path[i].node = path[j].node => i = j
      /\ \A i \in 1..Len(path) : path[i].node \notin Visited
  BY DEF Distinct
<1>3. CASE stack' = path
  BY <1>1, <1>2, <1>3 DEF Distinct
<1>4. CASE /\ n \notin Visited \cup Visiting(path)
           /\ Len(stack') = Len(path) + 1
           /\ stack'[1].node = n
           /\ \A i \in 2..Len(stack') : i - 1 \in 1..Len(path) /\ stack'[i] = path[i - 1]
  <2>1. \A i \in 1..Len(stack') :
          \/ i = 1 /\ stack'[i].node = n
          \/ i # 1 /\ i - 1 \in 1..Len(path) /\ stack'[i].node = path[i - 1].node
    BY <1>1, <1>4
  <2>2. \A i \in 1..Len(path) : path[i].node # n
    BY <1>4 DEF Visiting
  <2>3. ASSUME NEW i \in 1..Len(stack'), NEW j \in 1..Len(stack'),
               stack'[i].node = stack'[j].node
        PROVE  i = j
    <3>1. CASE i = 1 \/ j = 1
      BY <2>1, <2>2, <2>3, <3>1
    <3>2. CASE i # 1 /\ j # 1
      <4>1. i - 1 = j - 1
        BY <1>2, <2>1, <2>3, <3>2
      <4> QED BY <1>1, <1>4, <4>1
    <3> QED BY <3>1, <3>2
  <2>4. \A i \in 1..Len(stack') : stack'[i].node \notin Visited
    BY <1>2, <1>4, <2>1
  <2> QED BY <1>1, <2>3, <2>4 DEF Distinct
<1> QED BY <1>3, <1>4, VisitPlaces

\* What the end of a visit does to the stack.
LEMMA LeavePlaces ==
  ASSUME SearchInv, Leave
  PROVE  /\ Len(stack) \in Nat \ {0} /\ stack[1].rest = {} /\ stack[1].node \in DOMAIN graph
         /\ Len(stack') = Len(stack) - 1
         /\ \A i \in 1..Len(stack') : i + 1 \in 2..Len(stack) /\ stack'[i] = stack[i + 1]
         /\ Visited' = Visited \cup {stack[1].node}
<1>1. /\ stack \in Seq(Frame) /\ stack # <<>> /\ Len(stack) \in Nat \ {0}
      /\ Head(stack) = stack[1] /\ stack[1].rest = {} /\ stack[1].node \in Id
      /\ stack[1].node \in DOMAIN graph
  BY DEF Leave, SearchInv, SearchTypeOK, FramesOK
<1>2. /\ stack' = Tail(stack) /\ visited' = Append(visited, stack[1].node)
      /\ visited \in Seq(Id)
  BY <1>1 DEF Leave, SearchInv, SearchTypeOK
<1>3. Visited' = Visited \cup {stack[1].node}
  <2>1. /\ Len(visited) \in Nat /\ Len(visited') = Len(visited) + 1
        /\ visited'[Len(visited) + 1] = stack[1].node
        /\ \A p \in 1..Len(visited) : visited'[p] = visited[p]
    BY <1>1, <1>2
  <2> QED BY <2>1 DEF Visited
<1> QED BY <1>1, <1>2, <1>3

LEMMA DistinctStep == SearchInv /\ Distinct /\ SearchStep => Distinct'
<1> SUFFICES ASSUME SearchInv, Distinct, SearchStep PROVE Distinct'
  OBVIOUS
<1>1. CASE Root
  <2>1. /\ Least(roots) \in DOMAIN graph /\ Visit(Least(roots), <<>>) /\ visited' = visited
        /\ stack = <<>>
    BY <1>1, LeastIn DEF Root, SearchInv, SearchTypeOK
  <2>2. <<>> \in Seq(Frame) /\ Len(<<>>) = Len(stack) /\ \A i \in 1..Len(<<>>) : FALSE
    BY <2>1
  <2> QED BY <2>1, <2>2, VisitDistinct
<1>2. CASE Follow
  <2>1. visited' = visited
    BY <1>2 DEF Follow
  <2> QED BY <1>2, <2>1, FollowPath, VisitDistinct
<1>3. CASE Leave
  <2>1. \A i \in 1..Len(stack') : i + 1 \in 2..Len(stack) /\ stack'[i] = stack[i + 1]
    BY <1>3, LeavePlaces
  <2>2. Len(stack) \in Nat \ {0} /\ Visited' = Visited \cup {stack[1].node}
    BY <1>3, LeavePlaces
  <2>3. ASSUME NEW i \in 1..Len(stack'), NEW j \in 1..Len(stack'),
               stack'[i].node = stack'[j].node
        PROVE  i = j
    <3>1. i + 1 = j + 1
      BY <2>1, <2>2, <2>3 DEF Distinct
    <3> QED BY <3>1
  <2>4. \A i \in 1..Len(stack') : stack'[i].node \notin Visited'
    <3> SUFFICES ASSUME NEW i \in 1..Len(stack') PROVE stack[i + 1].node \notin Visited'
      BY <2>1
    <3>1. i + 1 \in 1..Len(stack) /\ 1 \in 1..Len(stack) /\ i + 1 # 1
      BY <2>1, <2>2
    <3> QED BY <2>2, <3>1 DEF Distinct
  <2> QED BY <2>3, <2>4 DEF Distinct
<1> QED BY <1>1, <1>2, <1>3 DEF SearchStep

LEMMA DistinctStutter == Distinct /\ UNCHANGED <<graph, search>> => Distinct'
BY DEF search, Distinct, Visited

\* A part of a finite set counts less, unless it is the whole.
LEMMA Fewer ==
  ASSUME NEW S, IsFiniteSet(S), NEW T \in SUBSET S
  PROVE  /\ Cardinality(S) \in Nat /\ Cardinality(T) \in Nat
         /\ Cardinality(T) <= Cardinality(S)
         /\ T # S => Cardinality(T) < Cardinality(S)
BY FS_Subset, FS_CardinalityType

\* A sum is less when no part is more and one is less.
LEMMA SumLess ==
  \A a, b, c, x, y, z \in Nat :
    /\ x <= a /\ y <= b /\ z <= c
    /\ x < a \/ y < b \/ z < c
    => x + y + z < a + b + c
OBVIOUS

\* The parts SearchLeft counts.
LEMMA Counted ==
  ASSUME SearchInv, IsFiniteSet(DOMAIN graph)
  PROVE  /\ IsFiniteSet(roots) /\ IsFiniteSet(DOMAIN graph \ Visited) /\ IsFiniteSet(Unfollowed)
         /\ SearchLeft \in Nat
<1>1. IsFiniteSet(roots) /\ IsFiniteSet(DOMAIN graph \ Visited)
  BY FS_Subset DEF SearchInv, SearchTypeOK
<1>2. IsFiniteSet((DOMAIN graph) \X (DOMAIN graph))
  BY FS_Product
<1>3. IsFiniteSet(Unfollowed)
  BY <1>2, FS_Subset DEF Unfollowed
<1> QED BY <1>1, <1>3, FS_CardinalityType DEF SearchLeft

\* Every step of the search leaves less of it: it takes an object from the outer
\* loop, follows a reference for the only time, or ends the only visit of an
\* object.
LEMMA SearchShrinks ==
  ASSUME SearchInv, Distinct, SearchStep, IsFiniteSet(DOMAIN graph)
  PROVE  SearchLeft' < SearchLeft
<1>1. SearchInv' /\ graph' = graph
  BY SearchStepInv DEF SearchStep, Root, Follow, Leave
<1> DEFINE left == DOMAIN graph \ Visited
<1>2. SUFFICES /\ roots' \subseteq roots /\ left' \subseteq left /\ Unfollowed' \subseteq Unfollowed
               /\ roots' # roots \/ left' # left \/ Unfollowed' # Unfollowed
  <2>1. /\ IsFiniteSet(roots) /\ IsFiniteSet(left) /\ IsFiniteSet(Unfollowed)
    BY Counted
  <2> DEFINE a == Cardinality(roots)
             b == Cardinality(left)
             c == Cardinality(Unfollowed)
  <2>2. a \in Nat /\ a' \in Nat /\ a' <= a /\ (roots' # roots => a' < a)
    BY <1>2, <2>1, Fewer
  <2>3. b \in Nat /\ b' \in Nat /\ b' <= b /\ (left' # left => b' < b)
    <3> HIDE DEF left
    <3> QED BY <1>2, <2>1, Fewer
  <2>4. c \in Nat /\ c' \in Nat /\ c' <= c /\ (Unfollowed' # Unfollowed => c' < c)
    BY <1>2, <2>1, Fewer
  <2>5. SearchLeft = a + b + c /\ SearchLeft' = a' + b' + c'
    BY DEF SearchLeft
  <2>6. a' < a \/ b' < b \/ c' < c
    BY <1>2, <2>2, <2>3, <2>4
  <2> HIDE DEF a, b, c
  <2>7. a' + b' + c' < a + b + c
    BY <2>2, <2>3, <2>4, <2>6, SumLess
  <2> QED BY <2>5, <2>7
<1>3. CASE Root
  <2>1. /\ roots # {} /\ stack = <<>> /\ roots' = roots \ {Least(roots)}
        /\ Least(roots) \in roots /\ Least(roots) \in DOMAIN graph
        /\ Visit(Least(roots), <<>>) /\ visited' = visited
    BY <1>3, LeastIn DEF Root, SearchInv, SearchTypeOK
  <2>2. roots' # roots /\ roots' \subseteq roots /\ Visited' = Visited
    BY <2>1 DEF Visited
  <2>3. Unfollowed' \subseteq Unfollowed
    BY <1>1, <2>1, <2>2 DEF Unfollowed
  <2> QED BY <1>1, <2>2, <2>3
<1>4. CASE Follow
  <2>1. PICK n \in DOMAIN graph, path \in Seq(Frame) :
          /\ Visit(n, path)
          /\ path # <<>> /\ n \in graph[path[1].node]
          /\ Len(path) = Len(stack)
          /\ \A i \in 1..Len(path) : /\ path[i].node = stack[i].node
                                    /\ path[i].rest \subseteq stack[i].rest
          /\ n \in stack[1].rest /\ n \notin path[1].rest
    BY <1>4, FollowPath
  <2>2. /\ roots' = roots /\ Visited' = Visited
    BY <1>4 DEF Follow, Visited
  <2>3. Len(path) \in Nat /\ 1 \in 1..Len(path) /\ stack[1].node \in DOMAIN graph
    BY <2>1 DEF SearchInv, FramesOK
  <2>4. \A i \in 1..Len(path) : \E j \in 1..Len(stack') : stack'[j] = path[i]
    <3>1. CASE stack' = path
      BY <3>1
    <3>2. CASE /\ Len(stack') = Len(path) + 1
               /\ \A j \in 2..Len(stack') : stack'[j] = path[j - 1]
      <4> SUFFICES ASSUME NEW i \in 1..Len(path) PROVE i + 1 \in 1..Len(stack') /\ stack'[i + 1] = path[i]
        OBVIOUS
      <4>1. i + 1 \in 2..Len(stack') /\ (i + 1) - 1 = i
        BY <2>3, <3>2
      <4> QED BY <3>2, <4>1
    <3> QED BY <2>1, <3>1, <3>2, VisitPlaces
  <2>5. Unfollowed' \subseteq Unfollowed
    <3> SUFFICES ASSUME NEW e \in Unfollowed', NEW i \in 1..Len(stack), stack[i].node = e[1]
                 PROVE  e[2] \in stack[i].rest
      BY <1>1, <2>2 DEF Unfollowed
    <3>1. PICK j \in 1..Len(stack') : stack'[j] = path[i]
      BY <2>1, <2>4
    <3>2. e[2] \in path[i].rest
      BY <2>1, <3>1 DEF Unfollowed
    <3> QED BY <2>1, <3>2
  <2>6. <<stack[1].node, n>> \in Unfollowed
    <3>1. \A i \in 1..Len(stack) : stack[i].node = stack[1].node => n \in stack[i].rest
      BY <2>1, <2>3 DEF Distinct
    <3>2. stack[1].node \notin Visited /\ n \in graph[stack[1].node]
      BY <2>1, <2>3 DEF Distinct
    <3> QED BY <2>1, <2>3, <3>1, <3>2 DEF Unfollowed
  <2>7. <<stack[1].node, n>> \notin Unfollowed'
    <3>1. PICK j \in 1..Len(stack') : stack'[j] = path[1]
      BY <2>3, <2>4
    <3> QED BY <2>1, <2>3, <3>1 DEF Unfollowed
  <2> QED BY <1>1, <2>2, <2>5, <2>6, <2>7
<1>5. CASE Leave
  <2>1. roots' = roots /\ Visited' = Visited \cup {stack[1].node}
        /\ stack[1].node \in DOMAIN graph /\ stack[1].node \notin Visited
    BY <1>5, LeavePlaces DEF Leave, Distinct
  <2>2. \A i \in 2..Len(stack) : \E j \in 1..Len(stack') : stack'[j] = stack[i]
    <3> SUFFICES ASSUME NEW i \in 2..Len(stack)
                 PROVE  i - 1 \in 1..Len(stack') /\ stack'[i - 1] = stack[i]
      OBVIOUS
    <3>1. i - 1 \in 1..Len(stack') /\ (i - 1) + 1 = i
      BY <1>5, LeavePlaces
    <3> QED BY <1>5, <3>1, LeavePlaces
  <2>3. Unfollowed' \subseteq Unfollowed
    <3> SUFFICES ASSUME NEW e \in Unfollowed', NEW i \in 1..Len(stack), stack[i].node = e[1]
                 PROVE  e[2] \in stack[i].rest
      BY <1>1, <2>1 DEF Unfollowed
    <3>1. i # 1
      BY <2>1 DEF Unfollowed
    <3>2. PICK j \in 1..Len(stack') : stack'[j] = stack[i]
      BY <2>2, <3>1
    <3> QED BY <3>2 DEF Unfollowed
  <2> QED BY <1>1, <2>1, <2>3
<1> QED BY <1>3, <1>4, <1>5 DEF SearchStep

-----------------------------------------------------------------------------
(* What the search finds *)

\* A search that has ended has reported an object of every cycle.  Otherwise
\* the first visit to end of those on the cycle would have to refer to an
\* object whose visit ended before.
LEMMA CycleIsFlagged == SearchInv => EveryCycleIsFlagged
<1> SUFFICES ASSUME SearchInv, Ended,
                    NEW C \in SUBSET (DOMAIN graph \ Flagged), C # {}
             PROVE  \E o \in C : graph[o] \cap C = {}
  BY DEF EveryCycleIsFlagged, AcyclicOn
<1> DEFINE places == {p \in 1..Len(visited) : visited[p] \in C}
<1>1. visited \in Seq(Id) /\ Len(visited) \in Nat
  BY DEF SearchInv, SearchTypeOK
<1>2. \A w \in C : \E p \in 1..Len(visited) : visited[p] = w
  BY DEF SearchInv, Reached, Ended, Visited
<1>3. places \in SUBSET Nat /\ places # {}
  BY <1>1, <1>2
<1>4. PICK p \in places : \A q \in places : p <= q
  BY <1>3, LeastExists
<1>5. p \in 1..Len(visited) /\ visited[p] \in C
  BY <1>4
<1>6. ASSUME NEW w \in graph[visited[p]] \cap C PROVE FALSE
  <2>1. PICK q \in 1..(p - 1) : visited[q] = w
    BY <1>5 DEF SearchInv, Ordered
  <2>2. q \in places /\ q < p
    BY <1>1, <1>5, <2>1
  <2> QED BY <1>1, <1>4, <1>5, <2>2
<1> QED BY <1>5, <1>6

\* Where there is no cycle, no step of the search reports one.
LEMMA NoCycleNoFinding ==
  ASSUME SearchInv, SearchStep, AcyclicOn(DOMAIN graph), \A f \in found : f[1] = "depth"
  PROVE  \A f \in found' : f[1] = "depth"
<1>1. ASSUME NEW n, NEW path, Visit(n, path), n \notin Visiting(path)
      PROVE  \A f \in found' : f[1] = "depth"
  BY <1>1 DEF Visit
<1>2. CASE Root
  <2>1. Visit(Least(roots), <<>>) /\ Visiting(<<>>) = {}
    BY <1>2 DEF Root, Visiting
  <2> QED BY <1>1, <2>1
<1>3. CASE Follow
  <2>1. PICK n \in DOMAIN graph, path \in Seq(Frame) :
          /\ Visit(n, path)
          /\ path # <<>> /\ n \in graph[path[1].node]
          /\ Len(path) = Len(stack)
          /\ \A i \in 1..Len(path) : path[i].node = stack[i].node
    BY <1>3, FollowPath
  <2>2. ASSUME NEW j \in 1..Len(path), path[j].node = n PROVE FALSE
    <3> DEFINE C == {path[i].node : i \in 1..j}
    <3>1. Len(path) \in Nat /\ j \in Nat
      OBVIOUS
    <3>2. C \in SUBSET DOMAIN graph /\ C # {}
      <4>1. 1 \in 1..j /\ \A i \in 1..j : i \in 1..Len(stack)
        BY <2>1, <3>1
      <4>2. \A i \in 1..j : path[i].node \in DOMAIN graph
        BY <2>1, <4>1 DEF SearchInv, FramesOK
      <4> QED BY <4>1, <4>2
    <3>3. ASSUME NEW i \in 1..j PROVE graph[path[i].node] \cap C # {}
      <4>1. CASE i = 1
        BY <2>1, <2>2, <4>1
      <4>2. CASE i # 1
        <5>1. i - 1 \in 1..j /\ i \in 1..Len(path) /\ i - 1 \in 1..Len(path)
          BY <3>1, <4>2
        <5>2. path[i - 1].node \in graph[path[i].node]
          BY <2>1, <4>2, <5>1 DEF SearchInv, FramesOK
        <5> QED BY <5>1, <5>2
      <4> QED BY <4>1, <4>2
    <3>4. \A o \in C : graph[o] \cap C # {}
      BY <3>3
    <3> HIDE DEF C
    <3> QED BY <3>2, <3>4 DEF AcyclicOn
  <2> QED BY <1>1, <2>1, <2>2 DEF Visiting
<1>4. CASE Leave
  BY <1>4 DEF Leave
<1> QED BY <1>2, <1>3, <1>4 DEF SearchStep

\* An object that is reached too deep ends a walk along the stack.
LEMMA DeepIsReal ==
  ASSUME NEW path \in Seq(Frame), NEW n \in DOMAIN graph, Len(path) > MaxDepth,
         n \in graph[path[1].node],
         \A i \in 1..Len(path) : path[i].node \in DOMAIN graph,
         \A i \in 1..Len(path) : i # 1 => path[i - 1].node \in graph[path[i].node]
  PROVE  WalkTo(n, MaxDepth + 1)
<1> DEFINE k == MaxDepth + 1
           w == [i \in 0..k |-> IF i = k THEN n ELSE path[k - i].node]
<1>1. k \in Nat \ {0} /\ Len(path) \in Nat /\ k <= Len(path)
  BY DepthAssumption
<1> HIDE DEF k
<1>2. ASSUME NEW i \in 0..k PROVE w[i] = (IF i = k THEN n ELSE path[k - i].node)
  OBVIOUS
<1>3. w \in [0..k -> DOMAIN graph]
  <2> SUFFICES ASSUME NEW i \in 0..k
               PROVE  (IF i = k THEN n ELSE path[k - i].node) \in DOMAIN graph
    OBVIOUS
  <2>1. i # k => k - i \in 1..Len(path)
    BY <1>1
  <2> QED BY <2>1
<1> HIDE DEF w
<1>4. ASSUME NEW i \in 1..k PROVE w[i] \in graph[w[i - 1]]
  <2>1. i - 1 \in 0..k /\ i \in 0..k /\ i - 1 # k /\ k - (i - 1) \in 1..Len(path)
    BY <1>1
  <2>2. w[i - 1] = path[k - (i - 1)].node
    BY <1>2, <2>1
  <2>3. CASE i = k
    <3>1. k - (i - 1) = 1 /\ w[i] = n
      BY <1>1, <1>2, <2>1, <2>3
    <3> QED BY <2>2, <3>1
  <2>4. CASE i # k
    <3>1. (k - (i - 1)) - 1 = k - i /\ k - (i - 1) # 1
      BY <1>1, <2>4
    <3>2. w[i] = path[k - i].node
      BY <1>2, <2>1, <2>4
    <3>3. path[(k - (i - 1)) - 1].node \in graph[path[k - (i - 1)].node]
      BY <2>1, <3>1
    <3> QED BY <2>2, <3>1, <3>2, <3>3
  <2> QED BY <2>3, <2>4
<1>5. k \in 0..k
  BY <1>1
<1>6. w[k] = n
  BY <1>2, <1>5
<1> QED BY <1>3, <1>4, <1>6 DEF WalkTo, k

\* An object that is reached while it is being visited is on a cycle: a set
\* that holds it but not all of the stack above it is left by a reference.
LEMMA CycleIsReal ==
  ASSUME NEW path \in Seq(Frame), NEW n \in Visiting(path), n \in graph[path[1].node],
         \A i \in 1..Len(path) : path[i].node \in DOMAIN graph,
         \A i \in 1..Len(path) : i # 1 => path[i - 1].node \in graph[path[i].node]
  PROVE  OnCycle(n)
<1>1. PICK j \in 1..Len(path) : path[j].node = n
  BY DEF Visiting
<1> DEFINE C == {path[i].node : i \in 1..j}
<1>2. Len(path) \in Nat /\ j \in Nat \ {0} /\ 1 \in 1..j /\ j \in 1..j
  OBVIOUS
<1>3. C \in SUBSET DOMAIN graph /\ n \in C /\ path[1].node \in C
  BY <1>1, <1>2
<1>4. ASSUME NEW D \in SUBSET C, n \in D, D # C
      PROVE  \E o \in D : graph[o] \cap (C \ D) # {}
  <2> DEFINE above == {d \in 1..j : path[j - (d - 1)].node \notin D}
  <2>1. above # {}
    <3>1. PICK i \in 1..j : path[i].node \notin D
      BY <1>4
    <3>2. (j - i) + 1 \in 1..j /\ j - (((j - i) + 1) - 1) = i
      BY <1>2
    <3> QED BY <3>1, <3>2
  <2>2. above \in SUBSET Nat
    OBVIOUS
  <2>3. PICK d \in above : \A e \in above : d <= e
    <3> HIDE DEF above
    <3> QED BY <2>1, <2>2, LeastExists
  <2> DEFINE i == j - (d - 1)
  <2>4. d \in 1..j /\ i \in 1..j /\ path[i].node \notin D
    BY <1>2, <2>3
  <2>5. d # 1
    BY <1>1, <1>2, <1>4, <2>4
  <2>6. d - 1 \in 1..j /\ d - 1 \notin above /\ j - ((d - 1) - 1) = i + 1
    <3>1. d - 1 \in 1..j /\ j - ((d - 1) - 1) = i + 1 /\ ~(d <= d - 1)
      BY <1>2, <2>4, <2>5
    <3> HIDE DEF above
    <3> QED BY <2>3, <3>1
  <2>7. path[i + 1].node \in D
    BY <2>6
  <2>8. i + 1 \in 1..Len(path) /\ i + 1 # 1 /\ (i + 1) - 1 = i
    BY <1>2, <2>4, <2>5
  <2> HIDE DEF i, above
  <2>9. path[i].node \in graph[path[i + 1].node]
    BY <2>8
  <2> QED BY <2>4, <2>7, <2>9
<1> HIDE DEF C
<1> QED BY <1>3, <1>4 DEF OnCycle

\* Each step of the search reports only what is there.
LEMMA FindingsStep ==
  ASSUME SearchInv, SearchStep, FindingsAreReal
  PROVE  FindingsAreReal'
<1>1. graph' = graph
  BY DEF SearchStep, Root, Follow, Leave
<1>2. SUFFICES \A f \in found' : IF f[1] = "cycle" THEN OnCycle(f[2]) ELSE WalkTo(f[2], MaxDepth + 1)
  BY <1>1 DEF FindingsAreReal, OnCycle, WalkTo
<1>3. CASE Root
  <2>1. Visit(Least(roots), <<>>) /\ Visiting(<<>>) = {} /\ Len(<<>>) = 0
    BY <1>3 DEF Root, Visiting
  <2>2. found' = found
    BY <2>1, DepthAssumption DEF Visit
  <2> QED BY <2>2 DEF FindingsAreReal
<1>4. CASE Follow
  <2>1. PICK n \in DOMAIN graph, path \in Seq(Frame) :
          /\ Visit(n, path)
          /\ path # <<>> /\ n \in graph[path[1].node]
          /\ Len(path) = Len(stack)
          /\ \A i \in 1..Len(path) : path[i].node = stack[i].node
    BY <1>4, FollowPath
  <2>2. /\ \A i \in 1..Len(path) : path[i].node \in DOMAIN graph
        /\ \A i \in 1..Len(path) : i # 1 => path[i - 1].node \in graph[path[i].node]
    <3> SUFFICES ASSUME NEW i \in 1..Len(path)
                 PROVE  /\ path[i].node \in DOMAIN graph
                        /\ i # 1 => path[i - 1].node \in graph[path[i].node]
      OBVIOUS
    <3>1. path[i].node = stack[i].node /\ (i # 1 => path[i - 1].node = stack[i - 1].node)
      BY <2>1
    <3> QED BY <2>1, <3>1 DEF SearchInv, FramesOK
  <2>3. CASE Len(path) > MaxDepth /\ found' = found \cup {<<"depth", n>>}
    BY <2>1, <2>2, <2>3, DeepIsReal DEF FindingsAreReal
  <2>4. CASE n \in Visiting(path) /\ found' = found \cup {<<"cycle", n>>}
    BY <2>1, <2>2, <2>4, CycleIsReal DEF FindingsAreReal
  <2>5. CASE found' = found
    BY <2>5 DEF FindingsAreReal
  <2> QED BY <2>1, <2>3, <2>4, <2>5 DEF Visit
<1>5. CASE Leave
  BY <1>5 DEF Leave, FindingsAreReal
<1> QED BY <1>3, <1>4, <1>5 DEF SearchStep

LEMMA FindingsStutter ==
  ASSUME FindingsAreReal, graph' = graph, found' = found
  PROVE  FindingsAreReal'
BY DEF FindingsAreReal, OnCycle, WalkTo
=============================================================================
