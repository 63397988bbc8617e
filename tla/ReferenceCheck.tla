---------------------------- MODULE ReferenceCheck ----------------------------
(***************************************************************************)
(* _cycle_findings of compatibility/checker.py: a depth-first search of    *)
(* the references between objects, which reports an object it reaches too  *)
(* deep and an object it reaches while it is being visited.  The order of  *)
(* the search is that of the identifiers, hence identifiers are numbers;   *)
(* the recursion of visit is a stack, its top first.                       *)
(***************************************************************************)
EXTENDS Naturals, Sequences, FiniteSets

CONSTANTS
  Id,        \* identifiers an object may have or refer to
  MaxDepth   \* max_dependency_depth of the profile

ASSUME IdAssumption == Id \subseteq Nat
ASSUME DepthAssumption == MaxDepth \in Nat \ {0}

VARIABLES
  graph,     \* references of each object
  roots,     \* objects the outer loop has not reached
  stack,     \* the objects being visited, each with the references left to follow
  visited,   \* the objects visited, in the order in which their visits ended
  found      \* the findings

search == <<roots, stack, visited, found>>

-----------------------------------------------------------------------------

Least(S) == CHOOSE x \in S : \A y \in S : x <= y

Frame == [node : Id, rest : SUBSET Id]

Finding == {"depth", "cycle"} \X Id

\* The set visited of the code.
Visited == {visited[i] : i \in 1..Len(visited)}

\* The set visiting, path being the stack.
Visiting(path) == {path[i].node : i \in 1..Len(path)}

Flagged == {f[2] : f \in found}

Ended == stack = <<>> /\ roots = {}

SearchTypeOK ==
  /\ DOMAIN graph \subseteq Id
  /\ \A o \in DOMAIN graph : graph[o] \subseteq Id
  /\ roots \subseteq DOMAIN graph
  /\ stack \in Seq(Frame)
  /\ visited \in Seq(Id)
  /\ found \subseteq Finding

\* The state in which the search of a graph begins.
Begin(g) ==
  /\ graph = g
  /\ roots = DOMAIN g
  /\ stack = <<>> /\ visited = <<>> /\ found = {}

-----------------------------------------------------------------------------

\* An object whose visit has ended counts as one of those being visited.
VisitFault(n, path) ==
  LET again == n \in Visiting(path) \cup Visited
      deep == Len(path) > MaxDepth
  IN  /\ stack' = IF deep \/ again THEN path
                  ELSE <<[node |-> n, rest |-> graph[n] \cap DOMAIN graph]>> \o path
      /\ found' = found \cup (IF deep THEN {<<"depth", n>>}
                              ELSE IF again THEN {<<"cycle", n>>} ELSE {})

\* visit(n, depth), called where the objects of path are being visited: the
\* depth is the length of path.
Visit(n, path) ==
  \/ /\ Len(path) > MaxDepth
     /\ found' = found \cup {<<"depth", n>>}
     /\ stack' = path
  \/ /\ Len(path) <= MaxDepth
     /\ n \in Visiting(path)
     /\ found' = found \cup {<<"cycle", n>>}
     /\ stack' = path
  \/ /\ Len(path) <= MaxDepth
     /\ n \in Visited \ Visiting(path)
     /\ stack' = path
     /\ UNCHANGED found
  \/ /\ Len(path) <= MaxDepth
     /\ n \notin Visited \cup Visiting(path)
     /\ stack' = <<[node |-> n, rest |-> graph[n] \cap DOMAIN graph]>> \o path
     /\ UNCHANGED found

\* The outer loop visits its next object.
Root ==
  /\ stack = <<>> /\ roots # {}
  /\ roots' = roots \ {Least(roots)}
  /\ Visit(Least(roots), <<>>)
  /\ UNCHANGED <<graph, visited>>

\* The innermost visit follows its next reference.
Follow ==
  /\ stack # <<>> /\ Head(stack).rest # {}
  /\ LET n == Least(Head(stack).rest)
         path == <<[Head(stack) EXCEPT !.rest = @ \ {n}]>> \o Tail(stack)
     IN  Visit(n, path)
  /\ UNCHANGED <<graph, roots, visited>>

\* The object is marked before its references have been followed.
LeaveFault ==
  /\ stack # <<>>
  /\ stack' = Tail(stack)
  /\ visited' = Append(visited, Head(stack).node)
  /\ UNCHANGED <<graph, roots, found>>

\* The innermost visit ends.
Leave ==
  /\ stack # <<>> /\ Head(stack).rest = {}
  /\ stack' = Tail(stack)
  /\ visited' = Append(visited, Head(stack).node)
  /\ UNCHANGED <<graph, roots, found>>

SearchStep == Root \/ Follow \/ Leave

-----------------------------------------------------------------------------
(* Properties *)

\* No set of objects of S in which every one refers to another of the set.
AcyclicOn(S) == \A C \in SUBSET S : C # {} => \E o \in C : graph[o] \cap C = {}

\* A search that has ended has reported an object of every cycle, whatever
\* the order of the identifiers and wherever the depth limit cut it short.
EveryCycleIsFlagged == Ended => AcyclicOn(DOMAIN graph \ Flagged)

\* The object n is on a cycle: some set of objects leads from n back to n.
OnCycle(n) ==
  \E C \in SUBSET DOMAIN graph :
    /\ n \in C /\ \E o \in C : n \in graph[o]
    /\ \A D \in SUBSET C : (n \in D /\ D # C) => \E o \in D : graph[o] \cap (C \ D) # {}

\* Some walk of k references ends in n.
WalkTo(n, k) ==
  \E w \in [0..k -> DOMAIN graph] : w[k] = n /\ \A i \in 1..k : w[i] \in graph[w[i - 1]]

\* What the search reports is there.
FindingsAreReal ==
  \A f \in found : IF f[1] = "cycle" THEN OnCycle(f[2]) ELSE WalkTo(f[2], MaxDepth + 1)

\* The search misses no cycle and invents none, nor a chain.
CycleFindingsAreExact == EveryCycleIsFlagged /\ FindingsAreReal

\* The references that may still be followed: those of the objects whose visits
\* have not ended, less those a visit has followed.
Unfollowed ==
  {e \in (DOMAIN graph) \X (DOMAIN graph) :
    /\ e[2] \in graph[e[1]] /\ e[1] \notin Visited
    /\ \A i \in 1..Len(stack) : stack[i].node = e[1] => e[2] \in stack[i].rest}

\* How much of the search is left.
SearchLeft ==
  Cardinality(roots) + Cardinality(DOMAIN graph \ Visited) + Cardinality(Unfollowed)
=============================================================================
