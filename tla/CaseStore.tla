------------------------------- MODULE CaseStore -------------------------------
(***************************************************************************)
(* One row of the table cases (storage/repository.py): the whole case is   *)
(* one JSON payload, so that adding a review or an audit event means to    *)
(* read the payload, to extend it and to write it back.  What keeps two    *)
(* writers from overwriting each other is the write lock of SQLite, taken  *)
(* by BEGIN IMMEDIATE before the read; the lock and the three halves of a  *)
(* transaction are explicit here.                                          *)
(*                                                                         *)
(* The hash of an event covers its content and the hash of the event       *)
(* before it.  SHA-256 is taken to be injective: a hash is the sequence of *)
(* the contents it covers.                                                 *)
(*                                                                         *)
(* XFault is a plausible wrong version of X that the model never uses: the *)
(* README says which property notices it.                                  *)
(***************************************************************************)
EXTENDS Naturals, Sequences

CONSTANTS
  Writer,        \* processes that write to the case
  Object,        \* identifiers of the candidate's objects
  Finding,       \* identifiers of the findings of the analysis
  HardFinding,   \* those of severity high or critical
  About,         \* the objects each finding names
  Verdict,       \* verdict of the analysis
  Valid,         \* is_valid, and mandatory validation EXECUTED
  None,
  MaxEvents      \* bound on the length of the audit history

ASSUME FindingAssumption ==
  /\ HardFinding \subseteq Finding
  /\ About \in [Finding -> SUBSET Object]
ASSUME CaseAssumption ==
  /\ Verdict \in {"PASS", "REVIEW", "ABSTAIN", "REJECT", "QUARANTINE"}
  /\ Valid \in BOOLEAN
  /\ None \notin Object \cup Finding \cup Writer

VARIABLES
  reviews, audit,  \* the payload of the row; audit = <<>>: no row yet
  lock,            \* who holds the write lock of the database
  writer,          \* control state of the writers
  acknowledged     \* auxiliary: the audit entries whose calls returned, in order

store == <<reviews, audit>>
vars == <<store, lock, writer, acknowledged>>

-----------------------------------------------------------------------------
(* Reviews and events *)

\* comment: there is a rationale.  current: the finding and the object exist,
\* and the analysis snapshot the review names, if any, is that of the case.
Review == [object : Object \cup {None}, finding : Finding \cup {None},
           action : {"accept", "edit", "reject"}, comment : BOOLEAN, current : BOOLEAN]

\* Content of an event: its type, and the review a review.recorded carries.
Delivery == [type |-> "opencti", review |-> None]
Analyzed == [type |-> "case.analyzed", review |-> None]
Recorded(r) == [type |-> "review.recorded", review |-> r]

Content == {Delivery} \cup {Recorded(r) : r \in Review}

\* The findings that forbid the acceptance of a review's object: they name
\* the object, or nothing at all, or the review names them.
HardFor(r) ==
  {f \in HardFinding : r.object \in About[f] \/ f = r.finding \/ About[f] = {}}

\* What add_review lets through.
Admissible(r) ==
  /\ r.action # "edit"
  /\ r.action = "accept" =>
       /\ r.object # None
       /\ r.comment
       /\ Verdict \notin {"REJECT", "QUARANTINE"}
       /\ Valid
       /\ HardFor(r) = {}
  /\ r.current

\* The contents that can reach the history after the analysis.
Entry == {Delivery} \cup {Recorded(r) : r \in {q \in Review : Admissible(q)}}

\* Takes the hash the chain starts with.
MakeEventFault(history, content) ==
  [content |-> content, previous |-> <<>>, hash |-> <<content>>]

\* make_event: link the content to the last event of the history.
MakeEvent(history, content) ==
  LET previous == IF history = <<>> THEN <<>> ELSE history[Len(history)].hash
  IN  [content |-> content, previous |-> previous, hash |-> Append(previous, content)]

\* verify_audit_chain
Verifies(history) ==
  /\ history # <<>>
  /\ \A i \in 1..Len(history) :
       /\ history[i].previous = IF i = 1 THEN <<>> ELSE history[i - 1].hash
       /\ history[i].hash = Append(history[i].previous, history[i].content)

-----------------------------------------------------------------------------
(* Types *)

Idle == [pc |-> "idle", reviews |-> <<>>, audit |-> <<>>]

Hash == Seq(Content \cup {Analyzed})

Event == [content : Content \cup {Analyzed}, previous : Hash, hash : Hash]

TypeOK ==
  /\ reviews \in Seq(Review)
  /\ audit \in Seq(Event)
  /\ lock \in Writer \cup {None}
  /\ writer \in [Writer -> [pc : {"idle", "waiting", "locked", "loaded"},
                            reviews : Seq(Review), audit : Seq(Event)]]
  /\ acknowledged \in Seq(Content \cup {Analyzed})

Init ==
  /\ reviews = <<>> /\ audit = <<>>
  /\ lock = None
  /\ writer = [w \in Writer |-> Idle]
  /\ acknowledged = <<>>

-----------------------------------------------------------------------------
(* Operations *)

\* analyze saves the new case with the first event of its history, under a
\* fresh identifier and in one INSERT.
Analyze ==
  /\ audit = <<>>
  /\ audit' = <<MakeEvent(<<>>, Analyzed)>>
  /\ acknowledged' = <<Analyzed>>
  /\ UNCHANGED <<reviews, lock, writer>>

\* A call of add_review or append_audit on the case.
Call(w) ==
  /\ writer[w].pc = "idle"
  /\ audit # <<>>
  /\ writer' = [writer EXCEPT ![w].pc = "waiting"]
  /\ UNCHANGED <<store, lock, acknowledged>>

\* A deferred transaction: reads without the write lock.
BeginFault(w) ==
  /\ writer[w].pc = "waiting"
  /\ writer' = [writer EXCEPT ![w].pc = "locked"]
  /\ UNCHANGED <<store, lock, acknowledged>>

\* BEGIN IMMEDIATE
Begin(w) ==
  /\ writer[w].pc = "waiting"
  /\ lock = None
  /\ lock' = w
  /\ writer' = [writer EXCEPT ![w].pc = "locked"]
  /\ UNCHANGED <<store, acknowledged>>

\* session.get
Load(w) ==
  /\ writer[w].pc = "locked"
  /\ writer' = [writer EXCEPT ![w] = [pc |-> "loaded", reviews |-> reviews, audit |-> audit]]
  /\ UNCHANGED <<store, lock, acknowledged>>

\* The transaction ends and the lock is free.
End(w) ==
  /\ writer' = [writer EXCEPT ![w] = Idle]
  /\ lock' = IF lock = w THEN None ELSE lock

\* append_audit: write the payload back with one event more.
AppendAudit(w) ==
  /\ writer[w].pc = "loaded"
  /\ Len(writer[w].audit) < MaxEvents
  /\ audit' = Append(writer[w].audit, MakeEvent(writer[w].audit, Delivery))
  /\ reviews' = writer[w].reviews
  /\ acknowledged' = Append(acknowledged, Delivery)
  /\ End(w)

\* Writes the review and leaves its event to a later transaction.
AddReviewFault(w, r) ==
  /\ writer[w].pc = "loaded"
  /\ Admissible(r)
  /\ Len(writer[w].reviews) < MaxEvents
  /\ reviews' = Append(writer[w].reviews, r)
  /\ audit' = writer[w].audit
  /\ UNCHANGED acknowledged
  /\ End(w)

\* add_review: the review and its event are written together.
AddReview(w, r) ==
  /\ writer[w].pc = "loaded"
  /\ Admissible(r)
  /\ Len(writer[w].audit) < MaxEvents
  /\ reviews' = Append(writer[w].reviews, r)
  /\ audit' = Append(writer[w].audit, MakeEvent(writer[w].audit, Recorded(r)))
  /\ acknowledged' = Append(acknowledged, Recorded(r))
  /\ End(w)

\* The call raises: the lock was not free for 5 s, the review is refused, the
\* process dies or the database fails.  The transaction is rolled back.
Rollback(w) ==
  /\ writer[w].pc # "idle"
  /\ End(w)
  /\ UNCHANGED <<store, acknowledged>>

Next ==
  \/ Analyze
  \/ \E w \in Writer :
       \/ Call(w) \/ Begin(w) \/ Load(w) \/ AppendAudit(w) \/ Rollback(w)
       \/ \E r \in Review : AddReview(w, r)

Spec == Init /\ [][Next]_vars

-----------------------------------------------------------------------------
(* Properties *)

Contents(history) == [i \in 1..Len(history) |-> history[i].content]

\* Every history the artifact builder can read verifies, whatever the writers
\* that were at work when it grew.
ChainVerifies == audit # <<>> => Verifies(audit)

\* The reviews of the payload, whose order decides which decision stands for
\* an object, are those of the history, in its order.
ReviewsFollowHistory ==
  \E place \in [1..Len(reviews) -> 1..Len(audit)] :
    /\ \A i, j \in 1..Len(reviews) : i < j => place[i] < place[j]
    /\ \A i \in 1..Len(reviews) : audit[place[i]].content = Recorded(reviews[i])
    /\ \A n \in 1..Len(audit) :
         audit[n].content.review # None => \E i \in 1..Len(reviews) : place[i] = n

\* A call that returned is in the history for ever, at the place it had when
\* it returned: concurrent writers lose no event.
NothingLost == Contents(audit) = acknowledged

\* The row keeps the promise of AuditLog.
History == Contents(audit)

Log == INSTANCE AuditLog WITH log <- History, First <- Analyzed

ImplementsAuditLog == Log!Spec
=============================================================================
