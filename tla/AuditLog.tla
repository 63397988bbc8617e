------------------------------- MODULE AuditLog -------------------------------
(***************************************************************************)
(* What the audit history of a case promises: it starts with the analysis, *)
(* grows by one entry at a time, and never loses, changes or reorders one. *)
(***************************************************************************)
EXTENDS Sequences

CONSTANTS
  First,        \* the entry the analysis writes
  Entry         \* the entries that may follow

VARIABLE log

Init == log = <<>>

Open == log = <<>> /\ log' = <<First>>

Record(entry) == log # <<>> /\ log' = Append(log, entry)

Next == Open \/ \E entry \in Entry : Record(entry)

Spec == Init /\ [][Next]_log
=============================================================================
