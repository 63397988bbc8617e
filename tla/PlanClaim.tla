------------------------------ MODULE PlanClaim ------------------------------
(***************************************************************************)
(* What the delivery tables promise, with the tables forgotten: an attempt *)
(* claims a plan, and the claim excludes every other one until it is       *)
(* released with no trace left in OpenCTI.  An attempt claims once.  A     *)
(* delivered plan keeps its claim for ever.                                *)
(***************************************************************************)
CONSTANTS
  LogicalKey,   \* plans
  Attempt       \* attempts

VARIABLES
  claims,       \* the attempts that stand for each plan
  spent,        \* attempts that gave their claim back
  delivered     \* plans whose delivery succeeded

vars == <<claims, spent, delivered>>

Init ==
  /\ claims = [k \in LogicalKey |-> {}]
  /\ spent = {}
  /\ delivered = {}

\* An attempt that never claimed anything takes a free plan.
Claim(k, a) ==
  /\ claims[k] = {}
  /\ a \notin spent
  /\ \A j \in LogicalKey : a \notin claims[j]
  /\ claims' = [claims EXCEPT ![k] = {a}]
  /\ UNCHANGED <<spent, delivered>>

\* The holder gives an undelivered plan back.
Release(k, a) ==
  /\ claims[k] = {a}
  /\ k \notin delivered
  /\ claims' = [claims EXCEPT ![k] = {}]
  /\ spent' = spent \cup {a}
  /\ UNCHANGED delivered

\* The delivery of a claimed plan succeeds.
Deliver(k) ==
  /\ claims[k] # {}
  /\ k \notin delivered
  /\ delivered' = delivered \cup {k}
  /\ UNCHANGED <<claims, spent>>

Next ==
  \/ \E k \in LogicalKey, a \in Attempt : Claim(k, a) \/ Release(k, a)
  \/ \E k \in LogicalKey : Deliver(k)

Spec == Init /\ [][Next]_vars
=============================================================================
