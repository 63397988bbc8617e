--------------------------- MODULE MCDeliveryService ---------------------------
(* Instances of DeliveryService for TLC. *)
EXTENDS DeliveryService, TLC

CONSTANTS e1, e2, q1, p1, p2

OneExecutor == {e1}
TwoExecutors == {e1, e2}
NoReconciler == {}
OneReconciler == {q1}
OnePlanner == {p1}
TwoPlanners == {p1, p2}
NoneBlocked == {}
LastBlocked == {MaxReviews}

ExecutorSymmetry == Permutations(TwoExecutors)
=============================================================================
