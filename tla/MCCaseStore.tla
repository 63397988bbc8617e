----------------------------- MODULE MCCaseStore -----------------------------
(* Instances of CaseStore for TLC: two writers of a case that may be reviewed, *)
(* with one object a hard finding protects and one that may be accepted.       *)
EXTENDS CaseStore, TLC

CONSTANTS w1, w2, w3, o1, o2, hard, soft

TwoWriters == {w1, w2}
ThreeWriters == {w1, w2, w3}
MCObject == {o1, o2}
MCFinding == {hard}
MCHardFinding == {hard}
MCAbout == [f \in MCFinding |-> {o2}]

WriterSymmetry == Permutations(Writer)
=============================================================================
