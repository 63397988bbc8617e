------------------------- MODULE DeliveryServiceProofs -------------------------
(***************************************************************************)
(* Proofs about the processes that deliver, for any number of planners,    *)
(* executors, reconcilers and reviews, any number of polls, any clock.     *)
(***************************************************************************)
EXTENDS DeliveryService, TLAPS

\* The proofs about the tables.
LP == INSTANCE DeliveryLedgerProofs WITH
  Attempt <- Executor, RemoteId <- {GoodId, BadId}, OddId <- {BadId}

-----------------------------------------------------------------------------
(* The inductive invariant. *)

\* A row that was never inserted has no plan and no remote identifier.
RowsWellFormed ==
  \A e \in Executor :
    /\ attempts[e].status = "ABSENT" <=> attempts[e].plan = None
    /\ attempts[e].status = "ABSENT" => attempts[e].ids = Ledger!NoIds

\* Where an executor is in execute tells what its row says, until the import
\* work is on record and reconcilers may change it too.
RowFollows(e) ==
  LET row == attempts[e] IN
  /\ exec[e].pc \in {"start", "gate", "gated"} => row.status = "ABSENT"
  /\ exec[e].pc \in {"reserved", "checked", "probed"} =>
       row.status \in {"PREPARED", "FAILED"} /\ row.ids = Ledger!NoIds
  /\ exec[e].pc \in {"submitted", "drafting", "drafted"} =>
       row.status = "SUBMITTED" /\ row.ids = Ledger!NoIds
  /\ exec[e].pc \in {"staged", "uploading", "uploaded"} =>
       row.status = "PROCESSING" /\ row.ids["draft"] # None /\ row.ids["work"] = None
  /\ exec[e].pc = "polling" => row.ids["draft"] # None

BeforeRequests == {"start", "gate", "gated", "reserved", "checked", "probed", "submitted"}

\* What OpenCTI was asked follows from where its executor is.
RemoteFollows(e) ==
  /\ exec[e].pc \in BeforeRequests => remote[e] = NoRemote
  /\ exec[e].pc \in {"drafting", "drafted", "staged"} => remote[e].upload = "none"
  /\ remote[e].work # "none" => remote[e].upload = "done"

\* What an executor knows.
KnowsIds(e) ==
  /\ exec[e].pc \in BeforeRequests \cup {"drafting"} => exec[e].ids = Ledger!NoIds
  /\ exec[e].pc \in {"drafted", "staged", "uploading"} =>
       exec[e].ids["draft"] # None /\ exec[e].ids["work"] = None
  /\ exec[e].pc = "polling" => exec[e].polls # 0
  /\ exec[e].pc \in {"recording", "auditing"} => exec[e].result \in Ledger!Status
  /\ exec[e].pc = "recording" /\ exec[e].result = "SUCCEEDED" => remote[e].work = "complete"

\* The snapshot only moves forward, so equal before and after means unmoved.
KnowsSnapshot(e) ==
  /\ exec[e].pc = "gated" => exec[e].key <= snapshot
  /\ exec[e].pc \in {"reserved", "checked", "probed", "submitted"} =>
       /\ attempts[e].plan = exec[e].key
       /\ exec[e].seen \in LogicalKey
       /\ exec[e].key <= exec[e].seen /\ exec[e].seen <= snapshot
  /\ exec[e].pc \in {"checked", "probed", "submitted"} => exec[e].seen = exec[e].key

\* A reconciler that asks does so for a work that is on record.
RecFollows(r) ==
  LET a == rec[r].att IN
  /\ rec[r].pc # "start" => a \in Executor
  /\ rec[r].pc \in {"asking", "recording"} =>
       rec[r].ids["work"] # None /\ attempts[a].ids["work"] # None
  /\ rec[r].pc \in {"recording", "auditing"} => rec[r].result \in Ledger!Status
  /\ rec[r].pc = "recording" /\ rec[r].result = "SUCCEEDED" => remote[a].work = "complete"

Follows(e) == RowFollows(e) /\ RemoteFollows(e) /\ KnowsIds(e) /\ KnowsSnapshot(e)

IInv ==
  /\ TypeOK
  /\ RowsWellFormed
  /\ \A e \in Executor : Follows(e)
  /\ \A r \in Reconciler : RecFollows(r)
  /\ SuccessIsReal

\* With usable identifiers: once its create-draft is out, an attempt is never
\* taken for one that left no trace.
Traced(e) ==
  remote[e].draft # "none" =>
    /\ Ledger!Live(e) /\ attempts[e].status # "PREPARED"
    /\ exec[e].pc = "definite" => attempts[e].ids["draft"] # None
    /\ exec[e].pc = "recording" /\ exec[e].result = "FAILED" => Ledger!HasRemoteId(e)

\* Some event of the trail, written or owed, names the plan.
Audited(k, created) ==
  \E event \in planTrail \cup lost \cup UNION {OwedByPlanner(p) : p \in Planner} :
    event \in PlanEvent /\ event.key = k /\ event.created = created

\* So do all rows, and all rows a planner has seen.
PlansAudited ==
  /\ \A k \in LogicalKey : plans[k].status # "ABSENT" => Audited(k, plans[k].created)
  /\ \A p \in Planner : planner[p].pc = "peeked" /\ planner[p].previous # None
       => Audited(planner[p].key, planner[p].previous)

\* Plans are stored with a time that has come.
PlannersAreLate ==
  /\ \A p \in Planner : planner[p].created <= now
  /\ \A k \in LogicalKey : plans[k].created <= now

-----------------------------------------------------------------------------
(* What the operations on the tables do to a row. *)

ExecState == [pc : ExecPC, key : LogicalKey, seen : LogicalKey \cup {None}, ids : Ledger!Ids,
              result : Ledger!Status \cup {Pending}, polls : 0..PollAttempts]

RemoteState == [draft : Request, upload : Request,
                work : {"none", "running", "complete", "errors"}]

RecState == [pc : RecPC, att : Executor \cup {None}, ids : Ledger!Ids,
             result : Ledger!Status \cup {Pending}]

Outcome == {"SUBMITTED", "PROCESSING", "SUCCEEDED", "FAILED", "PARTIAL", "UNKNOWN"}

\* Statuses from which the table leads to others.
Open == {"PREPARED", "SUBMITTED", "PROCESSING", "UNKNOWN", "PARTIAL"}

LEMMA AllowedOnly ==
  ASSUME NEW from, NEW status \in Ledger!Allowed(from)
  PROVE  from \in Open /\ status \in Outcome
BY DEF Ledger!Allowed, Open, Outcome

LEMMA MergeIds ==
  ASSUME NEW old \in Ledger!Ids, NEW new \in Ledger!Ids
  PROVE  /\ Ledger!Merge(old, new) \in Ledger!Ids
         /\ \A f \in Ledger!IdField :
              Ledger!Merge(old, new)[f] # None <=> old[f] # None \/ new[f] # None
         /\ \A f \in Ledger!IdField :
              Ledger!Merge(old, new)[f] = IF new[f] = None THEN old[f] ELSE new[f]
BY DEF Ledger!Merge, Ledger!Ids

\* Other rows, and the identifiers on record, stay.
OnlyRow(e) ==
  /\ Ledger!TypeOK' /\ RowsWellFormed'
  /\ \A f \in Executor \ {e} : attempts'[f] = attempts[f]
  /\ \A f \in Ledger!IdField :
       attempts[e].ids[f] # None => attempts'[e].ids[f] = attempts[e].ids[f]

LEMMA UpdateRow ==
  ASSUME Ledger!TypeOK, RowsWellFormed, NEW e \in Executor, NEW status \in Ledger!Status,
         NEW ids \in Ledger!Ids, NEW expected, Ledger!Update(e, status, ids, expected)
  PROVE  /\ OnlyRow(e)
         /\ attempts[e].status \in Open /\ attempts[e].status \in expected
         /\ status \in Outcome
         /\ attempts'[e].status = status /\ attempts'[e].plan = attempts[e].plan
         /\ \A f \in Ledger!IdField :
              attempts'[e].ids[f] # None <=> attempts[e].ids[f] # None \/ ids[f] # None
         /\ ids = Ledger!NoIds => attempts'[e].ids = attempts[e].ids
         /\ \A f \in Ledger!IdField : ids[f] # None =>
              attempts'[e].ids[f] = ids[f] /\ ids[f] # BadId
         /\ \A f \in Ledger!IdField : ids[f] = None =>
              attempts'[e].ids[f] = attempts[e].ids[f]
<1> DEFINE row == [plan |-> attempts[e].plan, status |-> status,
                   ids |-> Ledger!Merge(attempts[e].ids, ids)]
<1>1. attempts[e] \in Ledger!AttemptRow /\ attempts[e].ids \in Ledger!Ids
  BY DEF Ledger!TypeOK, Ledger!AttemptRow
<1>2. /\ attempts[e].status \in Open /\ attempts[e].status \in expected
      /\ status \in Outcome
  BY AllowedOnly DEF Ledger!Update, Ledger!CanUpdate
<1>3. /\ attempts' = [attempts EXCEPT ![e] = row]
      /\ plans' = [plans EXCEPT ![attempts[e].plan] =
                     [status |-> status, created |-> plans[attempts[e].plan].created]]
      /\ now' = now
  BY DEF Ledger!Update
<1>4. attempts'[e] = row /\ \A f \in Executor \ {e} : attempts'[f] = attempts[f]
  BY <1>3 DEF Ledger!TypeOK
<1>5. /\ row.ids \in Ledger!Ids
      /\ \A f \in Ledger!IdField : row.ids[f] # None <=> attempts[e].ids[f] # None \/ ids[f] # None
      /\ \A f \in Ledger!IdField : row.ids[f] = IF ids[f] = None THEN attempts[e].ids[f] ELSE ids[f]
  BY <1>1, MergeIds
<1>6. attempts[e].plan \in LogicalKey /\ attempts[e].plan # None
  BY <1>1, <1>2 DEF RowsWellFormed, Ledger!AttemptRow, Open
<1>7. Ledger!TypeOK'
  <2>1. row \in Ledger!AttemptRow
    BY <1>1, <1>5 DEF Ledger!AttemptRow
  <2>2. attempts' \in [Executor -> Ledger!AttemptRow]
    BY <1>3, <2>1 DEF Ledger!TypeOK
  <2>3. plans' \in [LogicalKey -> Ledger!Plan]
    BY <1>2, <1>3, <1>6 DEF Ledger!TypeOK, Ledger!Plan, Ledger!PlanStatus, Ledger!Status, Outcome
  <2> QED BY <1>3, <2>2, <2>3 DEF Ledger!TypeOK
<1>8. RowsWellFormed'
  BY <1>2, <1>4, <1>6 DEF RowsWellFormed, Outcome
<1>9. ids = Ledger!NoIds => row.ids = attempts[e].ids
  BY <1>1 DEF Ledger!Merge, Ledger!NoIds, Ledger!Ids
<1>10. \A f \in Ledger!IdField : ids[f] # None =>
         attempts[e].ids[f] \in {None, ids[f]} /\ ids[f] # BadId
  BY DEF Ledger!Update, Ledger!CanUpdate, Ledger!IdsAgree
<1> HIDE DEF row
<1>11. attempts'[e].ids = row.ids
  BY <1>4
<1>12. \A f \in Ledger!IdField :
         attempts[e].ids[f] # None => attempts'[e].ids[f] = attempts[e].ids[f]
  BY <1>5, <1>10, <1>11
<1>13. attempts'[e].status = status /\ attempts'[e].plan = attempts[e].plan
  BY <1>4 DEF row
<1> QED BY <1>2, <1>4, <1>5, <1>7, <1>8, <1>9, <1>10, <1>11, <1>12, <1>13 DEF OnlyRow

LEMMA ReserveRow ==
  ASSUME Ledger!TypeOK, RowsWellFormed, NEW e \in Executor, NEW k \in LogicalKey,
         NEW status \in {"PREPARED", "NOOP"},
         \/ Ledger!ReserveNew(k, e) /\ status = "PREPARED"
         \/ Ledger!ReserveNoop(k, e) /\ status = "NOOP"
  PROVE  /\ OnlyRow(e)
         /\ attempts'[e] = [plan |-> k, status |-> status, ids |-> Ledger!NoIds]
<1> DEFINE row == [plan |-> k, status |-> status, ids |-> Ledger!NoIds]
<1>1. /\ attempts' = [attempts EXCEPT ![e] = row] /\ now' = now
      /\ attempts[e].status = "ABSENT"
      /\ \/ plans' = plans
         \/ plans' = [plans EXCEPT ![k] = [status |-> "PREPARED", created |-> plans[k].created]]
  BY DEF Ledger!ReserveNew, Ledger!ReserveNoop
<1>2. attempts'[e] = row /\ \A f \in Executor \ {e} : attempts'[f] = attempts[f]
  BY <1>1 DEF Ledger!TypeOK
<1>3. Ledger!TypeOK'
  <2>1. row \in Ledger!AttemptRow
    BY DEF Ledger!AttemptRow, Ledger!Status, Ledger!NoIds, Ledger!Ids
  <2>2. attempts' \in [Executor -> Ledger!AttemptRow]
    BY <1>1, <2>1 DEF Ledger!TypeOK
  <2>3. plans' \in [LogicalKey -> Ledger!Plan]
    BY <1>1 DEF Ledger!TypeOK, Ledger!Plan, Ledger!PlanStatus, Ledger!Status
  <2> QED BY <1>1, <2>2, <2>3 DEF Ledger!TypeOK
<1>4. RowsWellFormed'
  BY <1>2, LedgerAssumption, ServiceAssumption DEF RowsWellFormed, LogicalKey
<1>5. \A f \in Ledger!IdField : attempts[e].ids[f] = None
  BY <1>1 DEF RowsWellFormed, Ledger!NoIds
<1> QED BY <1>2, <1>3, <1>4, <1>5 DEF OnlyRow

LEMMA SameTables ==
  ASSUME Ledger!TypeOK, RowsWellFormed, UNCHANGED tables, NEW e \in Executor
  PROVE  OnlyRow(e) /\ attempts'[e] = attempts[e]
BY DEF OnlyRow, tables, Ledger!TypeOK, RowsWellFormed

-----------------------------------------------------------------------------
(* What the control steps of an executor do to its state. *)

Moved(e) ==
  /\ exec' \in [Executor -> ExecState]
  /\ \A f \in Executor \ {e} : exec'[f] = exec[f]

\* The state of e but for the program counter stays.
Keeps(e, pc) ==
  /\ exec'[e].pc = pc /\ exec'[e].key = exec[e].key /\ exec'[e].seen = exec[e].seen
  /\ exec'[e].ids = exec[e].ids /\ exec'[e].polls = exec[e].polls
  /\ exec'[e].result = exec[e].result

LEMMA GotoShape ==
  ASSUME exec \in [Executor -> ExecState], NEW e \in Executor, NEW pc \in ExecPC, Goto(e, pc)
  PROVE  Moved(e) /\ Keeps(e, pc)
<1>1. exec[e] \in ExecState
  OBVIOUS
<1>2. exec' = [exec EXCEPT ![e] = [exec[e] EXCEPT !.pc = pc]]
  BY DEF Goto
<1>3. [exec[e] EXCEPT !.pc = pc] \in ExecState
  BY <1>1 DEF ExecState
<1>4. exec'[e] = [exec[e] EXCEPT !.pc = pc]
  BY <1>2
<1> QED BY <1>1, <1>2, <1>3, <1>4 DEF Moved, Keeps, ExecState

LEMMA NewExecType == NewExec \in ExecState
BY ServiceAssumption DEF NewExec, ExecState, ExecPC, LogicalKey, Ledger!NoIds, Ledger!Ids, Pending

LEMMA FinishShape ==
  ASSUME exec \in [Executor -> ExecState], NEW e \in Executor, Finish(e)
  PROVE  Moved(e) /\ exec'[e].pc = "done" /\ exec'[e].polls = 0
<1>1. [NewExec EXCEPT !.pc = "done"] \in ExecState
  BY NewExecType DEF ExecState, ExecPC
<1>2. exec' = [exec EXCEPT ![e] = [NewExec EXCEPT !.pc = "done"]]
  BY DEF Finish
<1>3. [NewExec EXCEPT !.pc = "done"].pc = "done" /\ [NewExec EXCEPT !.pc = "done"].polls = 0
  BY DEF NewExec
<1> QED BY <1>1, <1>2, <1>3 DEF Moved

LEMMA ConcludeShape ==
  ASSUME exec \in [Executor -> ExecState], NEW e \in Executor,
         NEW result \in Ledger!Status, NEW ids \in Ledger!Ids, Conclude(e, result, ids)
  PROVE  /\ Moved(e) /\ exec'[e].pc = "recording" /\ exec'[e].result = result
         /\ exec'[e].ids = ids /\ exec'[e].polls = 0
<1>1. exec[e] \in ExecState /\ 0 \in 0..PollAttempts
  BY ServiceAssumption
<1> DEFINE one == [exec[e] EXCEPT !.pc = "recording"]
           two == [one EXCEPT !.result = result]
           three == [two EXCEPT !.ids = ids]
           four == [three EXCEPT !.polls = 0]
<1>2. exec' = [exec EXCEPT ![e] = four]
  BY DEF Conclude
<1>3. one \in ExecState /\ one.pc = "recording"
  BY <1>1 DEF ExecState, ExecPC
<1> HIDE DEF one
<1>4. two \in ExecState /\ two.pc = "recording" /\ two.result = result
  BY <1>3 DEF ExecState
<1> HIDE DEF two
<1>5. three \in ExecState /\ three.pc = "recording" /\ three.result = result /\ three.ids = ids
  BY <1>4 DEF ExecState
<1> HIDE DEF three
<1>6. /\ four \in ExecState /\ four.pc = "recording" /\ four.result = result /\ four.ids = ids
      /\ four.polls = 0
  BY <1>1, <1>5 DEF ExecState
<1> HIDE DEF four
<1> QED BY <1>2, <1>6 DEF Moved

LEMMA FailShape ==
  ASSUME exec \in [Executor -> ExecState], NEW e \in Executor, Fail(e)
  PROVE  /\ Moved(e) /\ exec'[e].pc = "recording" /\ exec'[e].result = "FAILED"
         /\ exec'[e].ids = Ledger!NoIds /\ exec'[e].polls = 0
BY ConcludeShape DEF Fail, Ledger!Status, Ledger!NoIds, Ledger!Ids

-----------------------------------------------------------------------------
(* A step that concerns one attempt. *)

RemoteMoved(e) ==
  /\ remote' \in [Executor -> RemoteState]
  /\ \A f \in Executor \ {e} : remote'[f] = remote[f]

\* It keeps the invariant for its attempt and leaves the others alone.
Effect(e) ==
  /\ OnlyRow(e) /\ Moved(e) /\ RemoteMoved(e) /\ Follows(e)' /\ trail' \subseteq Event
  /\ attempts'[e].status = "SUCCEEDED" => remote'[e].work = "complete"
  /\ remote[e].work = "complete" => remote'[e].work = "complete"

LEMMA Typed ==
  ASSUME IInv
  PROVE  /\ Ledger!TypeOK /\ RowsWellFormed
         /\ exec \in [Executor -> ExecState]
         /\ remote \in [Executor -> RemoteState]
         /\ rec \in [Reconciler -> RecState]
         /\ snapshot \in LogicalKey
         /\ trail \subseteq Event
BY DEF IInv, TypeOK, ExecState, RemoteState, RecState

LEMMA Frame ==
  ASSUME IInv, NEW e \in Executor, Effect(e), snapshot' = snapshot
  PROVE  /\ RowsWellFormed' /\ SuccessIsReal'
         /\ \A f \in Executor : Follows(f)'
         /\ \A r \in Reconciler : rec'[r] = rec[r] => RecFollows(r)'
<1>1. ASSUME NEW f \in Executor, f # e
      PROVE  Follows(f)'
  <2>1. exec'[f] = exec[f] /\ attempts'[f] = attempts[f] /\ remote'[f] = remote[f]
    BY <1>1 DEF Effect, Moved, OnlyRow, RemoteMoved
  <2>2. Follows(f)
    BY DEF IInv
  <2> QED BY <2>1, <2>2 DEF Follows, RowFollows, RemoteFollows, KnowsIds, KnowsSnapshot
<1>2. SuccessIsReal'
  BY DEF Effect, OnlyRow, RemoteMoved, IInv, SuccessIsReal
<1>3. ASSUME NEW r \in Reconciler, rec'[r] = rec[r]
      PROVE  RecFollows(r)'
  <2>1. \A f \in Executor : /\ attempts[f].ids["work"] # None => attempts'[f].ids["work"] # None
                            /\ remote[f].work = "complete" => remote'[f].work = "complete"
    BY DEF Effect, OnlyRow, RemoteMoved, Ledger!IdField
  <2> QED BY <1>3, <2>1 DEF RecFollows, IInv
<1> QED BY <1>1, <1>2, <1>3 DEF Effect, OnlyRow

\* The rest of TypeOK when an executor or OpenCTI moved.
LEMMA ExecutorFrame ==
  ASSUME IInv, NEW e \in Executor, Effect(e),
         UNCHANGED <<snapshot, planTrail, planner, rec, lost>>
  PROVE  IInv'
<1>1. TypeOK'
  BY DEF IInv, TypeOK, Effect, OnlyRow, Moved, RemoteMoved, ExecState, RemoteState
<1> QED BY <1>1, Frame DEF IInv

\* Past the mutations little is left to know.
LEMMA Leaving ==
  ASSUME NEW e \in Executor,
         exec'[e].pc \in {"definite", "ambiguous", "recording", "auditing", "done"},
         exec'[e].pc \in {"recording", "auditing"} => exec'[e].result \in Ledger!Status,
         exec'[e].pc = "recording" /\ exec'[e].result = "SUCCEEDED"
           => remote'[e].work = "complete",
         remote'[e].work # "none" => remote'[e].upload = "done"
  PROVE  Follows(e)'
BY DEF Follows, RowFollows, RemoteFollows, KnowsIds, KnowsSnapshot, BeforeRequests

LEMMA Local ==
  ASSUME IInv, NEW e \in Executor
  PROVE  /\ Follows(e)
         /\ attempts[e].status = "SUCCEEDED" => remote[e].work = "complete"
         /\ exec[e] \in ExecState /\ remote[e] \in RemoteState
         /\ attempts[e] \in Ledger!AttemptRow
BY Typed DEF IInv, SuccessIsReal, Ledger!TypeOK

LEMMA Still ==
  ASSUME IInv, NEW e \in Executor, UNCHANGED <<tables, trail, remote>>, Moved(e), Follows(e)'
  PROVE  Effect(e)
BY Typed, Local, SameTables DEF Effect, RemoteMoved

LEMMA Written ==
  ASSUME IInv, NEW e \in Executor, UNCHANGED <<trail, remote>>, Moved(e), Follows(e)',
         NEW status \in Ledger!Status, NEW ids \in Ledger!Ids, NEW expected,
         Ledger!Update(e, status, ids, expected),
         status = "SUCCEEDED" => remote[e].work = "complete"
  PROVE  Effect(e)
BY Typed, Local, UpdateRow DEF Effect, RemoteMoved

\* Steps that only end a delivery early.
LEMMA EndsEarly ==
  ASSUME IInv, NEW e \in Executor, UNCHANGED <<tables, trail, remote>>,
         Finish(e) \/ Fail(e) \/ Goto(e, "definite") \/ Goto(e, "ambiguous")
  PROVE  Effect(e)
<1>1. Moved(e) /\ \/ exec'[e].pc \in {"done", "definite", "ambiguous"}
                  \/ exec'[e].pc = "recording" /\ exec'[e].result = "FAILED"
  BY Typed, FinishShape, FailShape, GotoShape DEF ExecPC, Keeps
<1>2. remote'[e].work # "none" => remote'[e].upload = "done"
  BY Local DEF Follows, RemoteFollows
<1>3. Follows(e)'
  BY <1>1, <1>2, Leaving DEF Ledger!Status
<1> QED BY <1>1, <1>3, Still

LEMMA ReadPlanStep ==
  ASSUME IInv, NEW e \in Executor, NEW k \in LogicalKey, ReadPlan(e, k)
  PROVE  Effect(e)
<1>1. exec[e].pc = "start" /\ UNCHANGED <<tables, trail, remote>>
  BY DEF ReadPlan
<1> DEFINE one == [exec[e] EXCEPT !.pc = "gate"]
           two == [one EXCEPT !.key = k]
<1>2. exec' = [exec EXCEPT ![e] = two]
  BY DEF ReadPlan
<1>3. exec[e] \in ExecState
  BY Local
<1>4. one \in ExecState /\ one.pc = "gate" /\ one.ids = exec[e].ids
  BY <1>3 DEF ExecState, ExecPC
<1> HIDE DEF one
<1>5. two \in ExecState /\ two.pc = "gate" /\ two.ids = exec[e].ids
  BY <1>4 DEF ExecState
<1> HIDE DEF two
<1>6. Moved(e) /\ exec'[e].pc = "gate" /\ exec'[e].ids = exec[e].ids
  BY <1>2, <1>5, Typed DEF Moved
<1>7. Follows(e)'
  BY <1>1, <1>6, Local
  DEF Follows, RowFollows, RemoteFollows, KnowsIds, KnowsSnapshot, BeforeRequests, tables
<1> QED BY <1>1, <1>6, <1>7, Still

\* A step that only moves the program counter.
LEMMA MovesOn ==
  ASSUME IInv, NEW e \in Executor, UNCHANGED <<tables, trail, remote, snapshot>>,
         NEW pc \in ExecPC, Goto(e, pc),
         \/ exec[e].pc = "gate" /\ pc = "gated" /\ exec[e].key = snapshot
         \/ exec[e].pc = "reserved" /\ pc = "checked" /\ exec[e].key = snapshot
         \/ exec[e].pc = "checked" /\ pc = "probed"
  PROVE  Effect(e)
<1>1. Moved(e) /\ Keeps(e, pc)
  BY Typed, GotoShape
<1>2. Follows(e) /\ exec[e] \in ExecState /\ snapshot \in Nat /\ snapshot \in LogicalKey
  BY Local, Typed, ServiceAssumption DEF LogicalKey
<1>3. RowFollows(e)' /\ RemoteFollows(e)' /\ KnowsIds(e)'
  BY <1>1, <1>2 DEF Follows, RowFollows, RemoteFollows, KnowsIds, Keeps, BeforeRequests, tables
<1>4. KnowsSnapshot(e)'
  BY <1>1, <1>2, ServiceAssumption DEF Follows, KnowsSnapshot, Keeps, tables, LogicalKey, ExecState
<1> QED BY <1>1, <1>3, <1>4, Still DEF Follows

LEMMA CheckSteps ==
  ASSUME IInv, NEW e \in Executor, snapshot' = snapshot,
         GateCheck(e) \/ Recheck(e) \/ Probe(e)
  PROVE  Effect(e)
<1>1. UNCHANGED <<tables, trail, remote>>
  BY DEF GateCheck, Recheck, Probe
<1>2. \/ Finish(e) \/ Fail(e) \/ Goto(e, "definite")
      \/ exec[e].pc = "gate" /\ Goto(e, "gated") /\ exec[e].key = snapshot
      \/ exec[e].pc = "reserved" /\ Goto(e, "checked") /\ exec[e].key = snapshot
      \/ exec[e].pc = "checked" /\ Goto(e, "probed")
  BY DEF GateCheck, Recheck, Probe
<1> QED BY <1>1, <1>2, EndsEarly, MovesOn DEF ExecPC

LEMMA ReserveStep ==
  ASSUME IInv, NEW e \in Executor, snapshot' = snapshot, Reserve(e)
  PROVE  Effect(e)
<1> DEFINE k == exec[e].key
<1>1. exec[e].pc = "gated" /\ UNCHANGED <<trail, remote>>
  BY DEF Reserve
<1>2. Follows(e) /\ exec[e] \in ExecState /\ k \in LogicalKey
  BY Local DEF ExecState
<1>3. remote[e] = NoRemote /\ exec[e].ids = Ledger!NoIds /\ k <= snapshot
  BY <1>1, <1>2 DEF Follows, RemoteFollows, KnowsIds, KnowsSnapshot, BeforeRequests
<1>4. CASE Ledger!ReserveNew(k, e) /\
           exec' = [exec EXCEPT ![e].pc = "reserved", ![e].seen = snapshot]
  <2> DEFINE one == [exec[e] EXCEPT !.pc = "reserved"]
             two == [one EXCEPT !.seen = snapshot]
  <2>1. exec' = [exec EXCEPT ![e] = two]
    BY <1>4
  <2>2. one \in ExecState /\ one.pc = "reserved" /\ one.ids = exec[e].ids /\ one.key = k
    BY <1>2 DEF ExecState, ExecPC
  <2> HIDE DEF one
  <2>3. two \in ExecState /\ two.pc = "reserved" /\ two.ids = exec[e].ids /\ two.key = k
        /\ two.seen = snapshot
    BY <2>2, Typed DEF ExecState
  <2> HIDE DEF two
  <2>4. /\ Moved(e) /\ exec'[e].pc = "reserved" /\ exec'[e].ids = exec[e].ids
        /\ exec'[e].key = k /\ exec'[e].seen = snapshot
    BY <2>1, <2>3, Typed DEF Moved
  <2>5. OnlyRow(e) /\ attempts'[e] = [plan |-> k, status |-> "PREPARED", ids |-> Ledger!NoIds]
    BY <1>2, <1>4, Typed, ReserveRow
  <2>6. RowFollows(e)' /\ RemoteFollows(e)' /\ KnowsIds(e)'
    BY <1>1, <1>3, <2>4, <2>5
    DEF RowFollows, RemoteFollows, KnowsIds, BeforeRequests, NoRemote
  <2>7. KnowsSnapshot(e)'
    BY <1>3, <2>4, <2>5, Typed, ServiceAssumption DEF KnowsSnapshot, LogicalKey
  <2> QED BY <1>1, <2>4, <2>5, <2>6, <2>7, Typed DEF Effect, Follows, RemoteMoved
<1>5. CASE Ledger!ReserveNoop(k, e) /\ Finish(e)
  <2>1. OnlyRow(e) /\ attempts'[e] = [plan |-> k, status |-> "NOOP", ids |-> Ledger!NoIds]
    BY <1>2, <1>5, Typed, ReserveRow
  <2>2. Moved(e) /\ exec'[e].pc = "done"
    BY <1>5, Typed, FinishShape
  <2>3. Follows(e)'
    BY <1>1, <1>3, <2>2, Leaving DEF NoRemote
  <2> QED BY <1>1, <2>1, <2>2, <2>3, Typed DEF Effect, RemoteMoved
<1>6. CASE Finish(e) /\ UNCHANGED tables
  BY <1>1, <1>6, EndsEarly
<1> QED BY <1>4, <1>5, <1>6 DEF Reserve

LEMMA EnterBoundaryStep ==
  ASSUME IInv, NEW e \in Executor, snapshot' = snapshot, EnterBoundary(e)
  PROVE  Effect(e)
<1>1. exec[e].pc = "probed" /\ UNCHANGED <<trail, remote>>
  BY DEF EnterBoundary
<1>2. CASE Ledger!Update(e, "SUBMITTED", Ledger!NoIds, {"PREPARED"}) /\ Goto(e, "submitted")
  <2>1. Moved(e) /\ Keeps(e, "submitted")
    BY <1>2, Typed, GotoShape DEF ExecPC
  <2>2. "SUBMITTED" \in Ledger!Status /\ Ledger!NoIds \in Ledger!Ids
    BY DEF Ledger!Status, Ledger!NoIds, Ledger!Ids
  <2>3. /\ attempts'[e].status = "SUBMITTED" /\ attempts'[e].plan = attempts[e].plan
        /\ attempts'[e].ids = attempts[e].ids
    BY <1>2, <2>2, Typed, UpdateRow
  <2>4. Follows(e)'
    BY <1>1, <2>1, <2>3, Local
    DEF Follows, RowFollows, RemoteFollows, KnowsIds, KnowsSnapshot, Keeps, BeforeRequests
  <2> QED BY <1>1, <1>2, <2>1, <2>2, <2>4, Written
<1>3. CASE Finish(e) /\ UNCHANGED tables
  BY <1>1, <1>3, EndsEarly
<1> QED BY <1>2, <1>3 DEF EnterBoundary

LEMMA SendDraftStep ==
  ASSUME IInv, NEW e \in Executor, snapshot' = snapshot, SendDraft(e)
  PROVE  Effect(e)
<1>1. exec[e].pc = "submitted" /\ UNCHANGED <<tables, trail>>
  BY DEF SendDraft
<1>2. CASE remote' = [remote EXCEPT ![e].draft = "sent"] /\ Goto(e, "drafting")
  <2>1. Moved(e) /\ Keeps(e, "drafting")
    BY <1>2, Typed, GotoShape DEF ExecPC
  <2>2. remote[e] = NoRemote
    BY <1>1, Local DEF Follows, RemoteFollows, BeforeRequests
  <2>3. RemoteMoved(e) /\ remote'[e] = [draft |-> "sent", upload |-> "none", work |-> "none"]
    BY <1>2, <2>2, Typed DEF RemoteMoved, RemoteState, Request, NoRemote
  <2>4. Follows(e)'
    BY <1>1, <2>1, <2>3, Local
    DEF Follows, RowFollows, RemoteFollows, KnowsIds, KnowsSnapshot, Keeps, BeforeRequests, tables
  <2>5. OnlyRow(e) /\ attempts'[e].status # "SUCCEEDED"
    BY <1>1, Typed, SameTables, Local DEF Follows, RowFollows
  <2> QED BY <1>1, <2>1, <2>2, <2>3, <2>4, <2>5, Typed DEF Effect, NoRemote
<1>3. CASE (Fail(e) \/ Goto(e, "definite")) /\ UNCHANGED remote
  BY <1>1, <1>3, EndsEarly
<1> QED BY <1>2, <1>3 DEF SendDraft

\* A step of the program that learns, or forgets, identifiers.
LEMMA IdsShape ==
  ASSUME exec \in [Executor -> ExecState], NEW e \in Executor, NEW pc \in ExecPC,
         NEW ids \in Ledger!Ids, exec' = [exec EXCEPT ![e].pc = pc, ![e].ids = ids]
  PROVE  /\ Moved(e) /\ exec'[e].pc = pc /\ exec'[e].ids = ids
         /\ exec'[e].result = exec[e].result /\ exec'[e].polls = exec[e].polls
<1>1. exec[e] \in ExecState
  OBVIOUS
<1> DEFINE one == [exec[e] EXCEPT !.pc = pc]
           two == [one EXCEPT !.ids = ids]
<1>2. exec' = [exec EXCEPT ![e] = two]
  OBVIOUS
<1>3. /\ one \in ExecState /\ one.pc = pc /\ one.result = exec[e].result
      /\ one.polls = exec[e].polls
  BY <1>1 DEF ExecState
<1> HIDE DEF one
<1>4. /\ two \in ExecState /\ two.pc = pc /\ two.ids = ids /\ two.result = exec[e].result
      /\ two.polls = exec[e].polls
  BY <1>3 DEF ExecState
<1> HIDE DEF two
<1> QED BY <1>2, <1>4 DEF Moved

LEMMA MutationFailsStep ==
  ASSUME IInv, NEW e \in Executor, NEW request, MutationFails(e, request),
         UNCHANGED <<tables, trail, remote>>
  PROVE  Effect(e)
BY EndsEarly DEF MutationFails

LEMMA DraftReplyStep ==
  ASSUME IInv, NEW e \in Executor, snapshot' = snapshot, DraftReply(e)
  PROVE  Effect(e)
<1>1. exec[e].pc = "drafting" /\ UNCHANGED <<tables, trail, remote>>
  BY DEF DraftReply
<1>2. ASSUME NEW id \in {GoodId, BadId},
             exec' = [exec EXCEPT ![e].pc = "drafted", ![e].ids["draft"] = id]
      PROVE  Effect(e)
  <2> DEFINE ids == [exec[e].ids EXCEPT !["draft"] = id]
  <2>1. exec[e] \in ExecState /\ exec[e].ids \in Ledger!Ids /\ exec[e].ids["work"] = None
    BY <1>1, Local DEF ExecState, Follows, KnowsIds, BeforeRequests, Ledger!NoIds, Ledger!IdField
  <2>2. ids \in Ledger!Ids /\ ids["draft"] # None /\ ids["work"] = None
    BY <2>1, LedgerAssumption DEF Ledger!Ids, Ledger!IdField
  <2>3. exec' = [exec EXCEPT ![e].pc = "drafted", ![e].ids = ids]
    BY <1>2, <2>1, Typed DEF ExecState
  <2> HIDE DEF ids
  <2>4. Moved(e) /\ exec'[e].pc = "drafted" /\ exec'[e].ids = ids
    BY <2>2, <2>3, Typed, IdsShape DEF ExecPC
  <2>5. Follows(e)'
    BY <1>1, <2>2, <2>4, Local
    DEF Follows, RowFollows, RemoteFollows, KnowsIds, KnowsSnapshot, BeforeRequests, tables
  <2> QED BY <1>1, <2>4, <2>5, Still
<1>3. CASE MutationFails(e, remote[e].draft)
  BY <1>1, <1>3, MutationFailsStep
<1> QED BY <1>2, <1>3 DEF DraftReply

LEMMA UploadReplyStep ==
  ASSUME IInv, NEW e \in Executor, snapshot' = snapshot, UploadReply(e)
  PROVE  Effect(e)
<1>1. exec[e].pc = "uploading" /\ UNCHANGED <<tables, trail, remote>>
  BY DEF UploadReply
<1>2. ASSUME NEW file \in {GoodId, BadId}, NEW work \in {GoodId, None},
             exec' = [exec EXCEPT ![e].pc = "uploaded", ![e].ids["file"] = file,
                                  ![e].ids["work"] = work]
      PROVE  Effect(e)
  <2> DEFINE some == [exec[e].ids EXCEPT !["file"] = file]
             ids == [some EXCEPT !["work"] = work]
  <2>1. exec[e] \in ExecState /\ exec[e].ids \in Ledger!Ids
    BY Local DEF ExecState
  <2>2. ids \in Ledger!Ids
    BY <2>1 DEF Ledger!Ids, Ledger!IdField
  <2>3. exec' = [exec EXCEPT ![e].pc = "uploaded", ![e].ids = ids]
    BY <1>2, <2>1, Typed DEF ExecState
  <2> HIDE DEF ids
  <2>4. Moved(e) /\ exec'[e].pc = "uploaded"
    BY <2>2, <2>3, Typed, IdsShape DEF ExecPC
  <2>5. Follows(e)'
    BY <1>1, <2>4, Local
    DEF Follows, RowFollows, RemoteFollows, KnowsIds, KnowsSnapshot, BeforeRequests, tables
  <2> QED BY <1>1, <2>4, <2>5, Still
<1>3. CASE MutationFails(e, remote[e].upload)
  BY <1>1, <1>3, MutationFailsStep
<1> QED BY <1>2, <1>3 DEF UploadReply

LEMMA RecordDraftStep ==
  ASSUME IInv, NEW e \in Executor, snapshot' = snapshot, RecordDraft(e)
  PROVE  Effect(e)
<1>1. exec[e].pc = "drafted" /\ UNCHANGED <<trail, remote>>
  BY DEF RecordDraft
<1>2. CASE Ledger!Update(e, "PROCESSING", exec[e].ids, Ledger!Status) /\ Goto(e, "staged")
  <2>1. Moved(e) /\ Keeps(e, "staged")
    BY <1>2, Typed, GotoShape DEF ExecPC
  <2>2. "PROCESSING" \in Ledger!Status /\ exec[e].ids \in Ledger!Ids
    BY Local DEF ExecState, Ledger!Status
  <2>3. /\ attempts'[e].status = "PROCESSING"
        /\ \A f \in Ledger!IdField : attempts'[e].ids[f] # None
             <=> attempts[e].ids[f] # None \/ exec[e].ids[f] # None
    BY <1>2, <2>2, Typed, UpdateRow
  <2>4. Follows(e)'
    BY <1>1, <2>1, <2>3, Local
    DEF Follows, RowFollows, RemoteFollows, KnowsIds, KnowsSnapshot, Keeps, BeforeRequests,
        Ledger!IdField, Ledger!NoIds
  <2> QED BY <1>1, <1>2, <2>1, <2>2, <2>4, Written
<1>3. CASE Goto(e, "ambiguous") /\ UNCHANGED tables
  BY <1>1, <1>3, EndsEarly
<1> QED BY <1>2, <1>3 DEF RecordDraft, Progress

LEMMA SendUploadStep ==
  ASSUME IInv, NEW e \in Executor, snapshot' = snapshot, SendUpload(e)
  PROVE  Effect(e)
<1>1. exec[e].pc = "staged" /\ UNCHANGED <<tables, trail>>
  BY DEF SendUpload
<1>2. CASE remote' = [remote EXCEPT ![e].upload = "sent"] /\ Goto(e, "uploading")
  <2>1. Moved(e) /\ Keeps(e, "uploading")
    BY <1>2, Typed, GotoShape DEF ExecPC
  <2>2. remote[e].upload = "none" /\ remote[e].work = "none"
    BY <1>1, Local DEF Follows, RemoteFollows
  <2>3. RemoteMoved(e) /\ remote'[e] = [remote[e] EXCEPT !.upload = "sent"]
    BY <1>2, Typed DEF RemoteMoved, RemoteState, Request
  <2>4. remote'[e].upload = "sent" /\ remote'[e].work = "none"
    BY <2>2, <2>3, Local DEF RemoteState
  <2>5. Follows(e)'
    BY <1>1, <2>1, <2>4, Local
    DEF Follows, RowFollows, RemoteFollows, KnowsIds, KnowsSnapshot, Keeps, BeforeRequests, tables
  <2>6. OnlyRow(e) /\ attempts'[e].status # "SUCCEEDED"
    BY <1>1, Typed, SameTables, Local DEF Follows, RowFollows
  <2> QED BY <1>1, <2>1, <2>2, <2>3, <2>5, <2>6, Typed DEF Effect
<1>3. CASE Goto(e, "definite") /\ UNCHANGED remote
  BY <1>1, <1>3, EndsEarly
<1> QED BY <1>2, <1>3 DEF SendUpload

\* Staying in, or entering, the poll loop.
LEMMA PollShape ==
  ASSUME exec \in [Executor -> ExecState], NEW e \in Executor, NEW polls \in 1..PollAttempts,
         exec' = [exec EXCEPT ![e].pc = "polling", ![e].polls = polls]
  PROVE  /\ Moved(e) /\ exec'[e].pc = "polling" /\ exec'[e].polls = polls
         /\ exec'[e].ids = exec[e].ids
<1>1. exec[e] \in ExecState /\ polls \in 0..PollAttempts
  BY ServiceAssumption
<1> DEFINE one == [exec[e] EXCEPT !.pc = "polling"]
           two == [one EXCEPT !.polls = polls]
<1>2. exec' = [exec EXCEPT ![e] = two]
  OBVIOUS
<1>3. one \in ExecState /\ one.pc = "polling" /\ one.ids = exec[e].ids
  BY <1>1 DEF ExecState, ExecPC
<1> HIDE DEF one
<1>4. /\ two \in ExecState /\ two.pc = "polling" /\ two.polls = polls
      /\ two.ids = exec[e].ids
  BY <1>1, <1>3 DEF ExecState
<1> HIDE DEF two
<1> QED BY <1>2, <1>4 DEF Moved

\* One more round of it.
LEMMA RoundShape ==
  ASSUME exec \in [Executor -> ExecState], NEW e \in Executor, exec[e].pc = "polling",
         exec[e].polls # 0, exec[e].polls # 1, exec' = [exec EXCEPT ![e].polls = @ - 1]
  PROVE  /\ Moved(e) /\ exec'[e].pc = "polling" /\ exec'[e].ids = exec[e].ids
         /\ exec'[e].polls = exec[e].polls - 1 /\ exec'[e].polls # 0
<1>1. exec[e] \in ExecState
  OBVIOUS
<1>2. exec[e].polls - 1 \in 1..PollAttempts
  BY <1>1, ServiceAssumption DEF ExecState
<1>3. exec[e] = [exec[e] EXCEPT !.pc = "polling"]
  BY <1>1 DEF ExecState
<1>4. [exec EXCEPT ![e].pc = "polling", ![e].polls = exec[e].polls - 1]
        = [exec EXCEPT ![e] = [[exec[e] EXCEPT !.pc = "polling"]
                                 EXCEPT !.polls = exec[e].polls - 1]]
  OBVIOUS
<1>5. exec' = [exec EXCEPT ![e].pc = "polling", ![e].polls = exec[e].polls - 1]
  BY <1>3, <1>4
<1> DEFINE polls == exec[e].polls - 1
<1>6. polls # 0 /\ polls \in 1..PollAttempts
  BY <1>2
<1>7. exec' = [exec EXCEPT ![e].pc = "polling", ![e].polls = polls]
  BY <1>5
<1> HIDE DEF polls
<1>8. /\ Moved(e) /\ exec'[e].pc = "polling" /\ exec'[e].polls = polls
      /\ exec'[e].ids = exec[e].ids
  BY <1>6, <1>7, PollShape
<1> QED BY <1>6, <1>8 DEF polls

LEMMA RecordUploadStep ==
  ASSUME IInv, NEW e \in Executor, snapshot' = snapshot, RecordUpload(e)
  PROVE  Effect(e)
<1>1. exec[e].pc = "uploaded" /\ UNCHANGED <<trail, remote>>
  BY DEF RecordUpload
<1>2. "SUBMITTED" \in Ledger!Status /\ "UNKNOWN" \in Ledger!Status /\ exec[e].ids \in Ledger!Ids
  BY Local DEF ExecState, Ledger!Status
<1>3. remote[e].work # "none" => remote[e].upload = "done"
  BY Local DEF Follows, RemoteFollows
<1>4. ASSUME Ledger!Update(e, "SUBMITTED", exec[e].ids, Ledger!Status)
      PROVE  attempts'[e].ids["draft"] # None
  <2>1. attempts[e].ids["draft"] # None
    BY <1>1, Local DEF Follows, RowFollows
  <2> QED BY <1>2, <1>4, <2>1, Typed, UpdateRow DEF Ledger!IdField
<1>5. ASSUME Ledger!Update(e, "SUBMITTED", exec[e].ids, Ledger!Status),
             Conclude(e, "UNKNOWN", exec[e].ids)
      PROVE  Effect(e)
  <2>1. Moved(e) /\ exec'[e].pc = "recording" /\ exec'[e].result = "UNKNOWN"
    BY <1>2, <1>5, Typed, ConcludeShape
  <2>2. Follows(e)'
    BY <1>1, <1>2, <1>3, <2>1, Leaving
  <2> QED BY <1>1, <1>2, <1>5, <2>1, <2>2, Written
<1>6. ASSUME Ledger!Update(e, "SUBMITTED", exec[e].ids, Ledger!Status),
             exec' = [exec EXCEPT ![e].pc = "polling", ![e].polls = PollAttempts]
      PROVE  Effect(e)
  <2>. PollAttempts \in 1..PollAttempts /\ PollAttempts # 0
    BY ServiceAssumption
  <2>1. Moved(e) /\ exec'[e].pc = "polling" /\ exec'[e].polls # 0
    BY <1>6, Typed, PollShape
  <2>2. Follows(e)'
    BY <1>1, <1>3, <1>4, <1>6, <2>1
    DEF Follows, RowFollows, RemoteFollows, KnowsIds, KnowsSnapshot, BeforeRequests
  <2> QED BY <1>1, <1>2, <1>6, <2>1, <2>2, Written
<1>7. CASE Goto(e, "ambiguous") /\ UNCHANGED tables
  BY <1>1, <1>7, EndsEarly
<1> QED BY <1>5, <1>6, <1>7 DEF RecordUpload, Progress

LEMMA WorkAnswer ==
  ASSUME NEW e \in Executor, NEW s \in WorkAnswers(e)
  PROVE  s \in Ledger!Status /\ (s = "SUCCEEDED" => remote[e].work = "complete")
BY DEF WorkAnswers, Ledger!Status

LEMMA PollStep ==
  ASSUME IInv, NEW e \in Executor, snapshot' = snapshot, Poll(e)
  PROVE  Effect(e)
<1>1. exec[e].pc = "polling" /\ UNCHANGED <<tables, trail, remote>>
  BY DEF Poll
<1>2. /\ exec[e] \in ExecState /\ exec[e].polls # 0 /\ exec[e].ids \in Ledger!Ids
      /\ remote[e].work # "none" => remote[e].upload = "done"
      /\ attempts[e].ids["draft"] # None
  BY <1>1, Local DEF Follows, KnowsIds, RemoteFollows, RowFollows, ExecState
<1>3. ASSUME NEW s \in WorkAnswers(e), Conclude(e, s, exec[e].ids)
      PROVE  Effect(e)
  <2>1. s \in Ledger!Status /\ (s = "SUCCEEDED" => remote[e].work = "complete")
    BY WorkAnswer
  <2>2. Moved(e) /\ exec'[e].pc = "recording" /\ exec'[e].result = s
    BY <1>2, <1>3, <2>1, Typed, ConcludeShape
  <2>3. Follows(e)'
    BY <1>1, <1>2, <2>1, <2>2, Leaving
  <2> QED BY <1>1, <2>2, <2>3, Still
<1>4. ASSUME exec[e].polls # 1, exec' = [exec EXCEPT ![e].polls = @ - 1]
      PROVE  Effect(e)
  <2>1. Moved(e) /\ exec'[e].pc = "polling" /\ exec'[e].polls # 0
    BY <1>1, <1>2, <1>4, Typed, RoundShape
  <2>2. Follows(e)'
    BY <1>1, <1>2, <2>1
    DEF Follows, RowFollows, RemoteFollows, KnowsIds, KnowsSnapshot, BeforeRequests, tables
  <2> QED BY <1>1, <2>1, <2>2, Still
<1>5. CASE Goto(e, "definite") \/ Fail(e)
  BY <1>1, <1>5, EndsEarly
<1> QED BY <1>3, <1>4, <1>5 DEF Poll

LEMMA ClassifyStep ==
  ASSUME IInv, NEW e \in Executor, snapshot' = snapshot, Classify(e)
  PROVE  Effect(e)
<1>1. UNCHANGED <<tables, trail, remote>>
  BY DEF Classify
<1>2. PICK s \in {"FAILED", "UNKNOWN", "PARTIAL"} : Conclude(e, s, Ledger!NoIds)
  BY DEF Classify
<1>3. Moved(e) /\ exec'[e].pc = "recording" /\ exec'[e].result = s /\ s \in Ledger!Status
  BY <1>2, Typed, ConcludeShape DEF Ledger!Status, Ledger!NoIds, Ledger!Ids
<1>4. Follows(e)'
  BY <1>1, <1>3, Local, Leaving DEF Follows, RemoteFollows
<1> QED BY <1>1, <1>3, <1>4, Still

LEMMA RecordStep ==
  ASSUME IInv, NEW e \in Executor, snapshot' = snapshot, Record(e)
  PROVE  Effect(e)
<1>1. exec[e].pc = "recording" /\ UNCHANGED <<trail, remote>>
  BY DEF Record
<1>2. /\ exec[e].result \in Ledger!Status /\ exec[e].ids \in Ledger!Ids
      /\ exec[e].result = "SUCCEEDED" => remote[e].work = "complete"
      /\ remote[e].work # "none" => remote[e].upload = "done"
  BY <1>1, Local DEF Follows, KnowsIds, RemoteFollows, ExecState
<1>3. CASE /\ Ledger!Update(e, exec[e].result, exec[e].ids, Ledger!Status)
           /\ exec' = [exec EXCEPT ![e].pc = "auditing", ![e].ids = Ledger!NoIds]
  <2>. Ledger!NoIds \in Ledger!Ids /\ "auditing" \in ExecPC
    BY DEF ExecPC, Ledger!NoIds, Ledger!Ids
  <2>1. Moved(e) /\ exec'[e].pc = "auditing" /\ exec'[e].result = exec[e].result
    BY <1>3, Typed, IdsShape
  <2>2. Follows(e)'
    BY <1>1, <1>2, <2>1, Leaving
  <2> QED BY <1>1, <1>2, <1>3, <2>1, <2>2, Written
<1>4. CASE Finish(e) /\ UNCHANGED tables
  BY <1>1, <1>4, EndsEarly
<1> QED BY <1>3, <1>4 DEF Record

LEMMA AuditStep ==
  ASSUME IInv, NEW e \in Executor, snapshot' = snapshot, Audit(e)
  PROVE  Effect(e)
<1>1. exec[e].pc = "auditing" /\ UNCHANGED <<tables, remote>> /\ Finish(e)
      /\ trail' = trail \cup {[attempt |-> e, status |-> exec[e].result]}
  BY DEF Audit
<1>2. trail' \subseteq Event
  BY <1>1, Local, Typed DEF Follows, KnowsIds, Event
<1>3. Moved(e) /\ exec'[e].pc = "done"
  BY <1>1, Typed, FinishShape
<1>4. Follows(e)'
  BY <1>1, <1>3, Local, Leaving DEF Follows, RemoteFollows
<1> QED BY <1>1, <1>2, <1>3, <1>4, Typed, Local, SameTables DEF Effect, RemoteMoved

LEMMA ExecutorMoves ==
  ASSUME IInv, NEW e \in Executor, ExecutorStep(e)
  PROVE  Effect(e) /\ IInv'
<1>1. snapshot' = snapshot /\ UNCHANGED <<snapshot, planTrail, planner, rec, lost>>
  BY DEF ExecutorStep
<1>2. Effect(e)
  BY <1>1, ReadPlanStep, CheckSteps, ReserveStep, EnterBoundaryStep, SendDraftStep,
     DraftReplyStep, RecordDraftStep, SendUploadStep, UploadReplyStep, RecordUploadStep,
     PollStep, ClassifyStep, RecordStep, AuditStep DEF ExecutorStep
<1> QED BY <1>1, <1>2, ExecutorFrame

-----------------------------------------------------------------------------
(* OpenCTI. *)

LEMMA RemoteMoves ==
  ASSUME IInv, NEW e \in Executor, RemoteStep(e) \/ FinishWork(e)
  PROVE  Effect(e) /\ IInv'
<1>1. /\ UNCHANGED <<tables, snapshot, planTrail, trail, planner, exec, rec, lost>>
      /\ snapshot' = snapshot
  BY DEF RemoteStep, FinishWork
<1>2. \/ /\ remote[e].draft = "sent"
         /\ \E outcome \in {"done", "refused"} : remote' = [remote EXCEPT ![e].draft = outcome]
      \/ /\ remote[e].upload = "sent"
         /\ \/ remote' = [remote EXCEPT ![e].upload = "done", ![e].work = "running"]
            \/ remote' = [remote EXCEPT ![e].upload = "refused"]
      \/ /\ remote[e].work = "running"
         /\ \E outcome \in {"complete", "errors"} : remote' = [remote EXCEPT ![e].work = outcome]
  BY DEF RemoteStep, FinishWork
<1>3. /\ RemoteMoved(e)
      /\ remote[e].work = "complete" => remote'[e].work = "complete"
      /\ remote'[e].work # "none" => remote'[e].upload = "done"
      /\ \/ remote[e].draft = "sent" /\ remote'[e].upload = remote[e].upload
         \/ remote[e].upload = "sent" \/ remote[e].work = "running"
  <2>1. Follows(e) /\ remote[e] \in RemoteState
    BY Local
  <2>2. remote[e].work # "none" => remote[e].upload = "done"
    BY <2>1 DEF Follows, RemoteFollows
  <2>3. RemoteMoved(e)
    BY <1>2, <2>1, Typed DEF RemoteMoved, RemoteState, Request
  <2>4. CASE remote[e].draft = "sent"
             /\ \E outcome \in {"done", "refused"} : remote' = [remote EXCEPT ![e].draft = outcome]
    BY <2>1, <2>2, <2>3, <2>4, Typed DEF RemoteState
  <2>5. CASE remote[e].upload = "sent"
             /\ remote' = [remote EXCEPT ![e].upload = "done", ![e].work = "running"]
    BY <2>1, <2>2, <2>3, <2>5, Typed DEF RemoteState
  <2>6. CASE remote[e].upload = "sent" /\ remote' = [remote EXCEPT ![e].upload = "refused"]
    BY <2>1, <2>2, <2>3, <2>6, Typed DEF RemoteState
  <2>7. CASE /\ remote[e].work = "running"
             /\ \E outcome \in {"complete", "errors"} :
                  remote' = [remote EXCEPT ![e].work = outcome]
    BY <2>1, <2>2, <2>3, <2>7, Typed DEF RemoteState
  <2> QED BY <1>2, <2>4, <2>5, <2>6, <2>7
<1>4. exec[e].pc \notin BeforeRequests
      /\ (exec[e].pc \in {"drafting", "drafted", "staged"} => remote'[e].upload = "none")
  BY <1>3, Local DEF Follows, RemoteFollows, NoRemote
<1>5. Follows(e)'
  BY <1>1, <1>3, <1>4, Local
  DEF Follows, RowFollows, RemoteFollows, KnowsIds, KnowsSnapshot, BeforeRequests, tables
<1>6. Moved(e) /\ trail' \subseteq Event
  BY <1>1, Typed DEF Moved
<1>7. Effect(e)
  BY <1>1, <1>3, <1>5, <1>6, Typed, Local, SameTables DEF Effect
<1> QED BY <1>1, <1>7, ExecutorFrame

-----------------------------------------------------------------------------
(* Reconcilers. *)

RecMoved(r) ==
  /\ rec' \in [Reconciler -> RecState]
  /\ \A q \in Reconciler \ {r} : rec'[q] = rec[q]

LEMMA NewRecType == NewRec \in RecState
BY DEF NewRec, RecState, RecPC, Ledger!NoIds, Ledger!Ids

LEMMA EndRecShape ==
  ASSUME rec \in [Reconciler -> RecState], NEW r \in Reconciler, EndRec(r)
  PROVE  RecMoved(r) /\ rec'[r] = NewRec
BY NewRecType DEF RecMoved, EndRec

\* The rest of the invariant when a reconciler moved.
LEMMA ReconcilerFrame ==
  ASSUME IInv, NEW r \in Reconciler, RecMoved(r), RecFollows(r)',
         NEW e \in Executor, Effect(e),
         UNCHANGED <<snapshot, planTrail, planner, exec, remote, lost>>
  PROVE  IInv'
<1>1. TypeOK'
  BY DEF IInv, TypeOK, Effect, OnlyRow, RecMoved, RecState
<1>2. snapshot' = snapshot /\ \A q \in Reconciler \ {r} : rec'[q] = rec[q]
  BY DEF RecMoved
<1> QED BY <1>1, <1>2, Frame DEF IInv

\* A command that ends knows nothing.
LEMMA NewRecFollows ==
  ASSUME NEW r \in Reconciler, rec'[r] = NewRec
  PROVE  RecFollows(r)'
BY DEF RecFollows, NewRec

LEMMA StillRec ==
  ASSUME IInv, NEW e \in Executor, UNCHANGED <<tables, exec, remote, snapshot>>,
         trail' \subseteq Event
  PROVE  Effect(e)
<1>1. Follows(e)'
  BY Local
  DEF Follows, RowFollows, RemoteFollows, KnowsIds, KnowsSnapshot, BeforeRequests, tables
<1> QED BY <1>1, Typed, Local, SameTables DEF Effect, Moved, RemoteMoved

\* Without executors there is no attempt to read; with one, any will do.
LEMMA ReadAttemptStep ==
  ASSUME IInv, NEW r \in Reconciler, NEW a \in Executor, ReadAttempt(r, a),
         UNCHANGED <<snapshot, planTrail, planner, exec, remote, lost>>
  PROVE  IInv'
<1>1. rec[r] \in RecState /\ rec[r].pc = "start" /\ UNCHANGED <<tables, trail>>
      /\ attempts[a].ids \in Ledger!Ids
  BY Typed, Local DEF ReadAttempt, Ledger!AttemptRow
<1>2. CASE rec' = [rec EXCEPT ![r].pc = "abandoning", ![r].att = a]
  <2> DEFINE one == [rec[r] EXCEPT !.pc = "abandoning"]
             two == [one EXCEPT !.att = a]
  <2>1. rec' = [rec EXCEPT ![r] = two]
    BY <1>2
  <2>2. one \in RecState /\ one.pc = "abandoning"
    BY <1>1 DEF RecState, RecPC
  <2> HIDE DEF one
  <2>3. two \in RecState /\ two.pc = "abandoning" /\ two.att = a
    BY <2>2 DEF RecState
  <2> HIDE DEF two
  <2>4. RecMoved(r) /\ RecFollows(r)'
    BY <2>1, <2>3, Typed DEF RecMoved, RecFollows
  <2> QED BY <1>1, <2>4, StillRec, ReconcilerFrame, Typed
<1>3. CASE /\ attempts[a].ids["work"] # None
           /\ rec' = [rec EXCEPT ![r].pc = "asking", ![r].att = a, ![r].ids = attempts[a].ids]
  <2> DEFINE one == [rec[r] EXCEPT !.pc = "asking"]
             two == [one EXCEPT !.att = a]
             three == [two EXCEPT !.ids = attempts[a].ids]
  <2>1. rec' = [rec EXCEPT ![r] = three]
    BY <1>3
  <2>2. one \in RecState /\ one.pc = "asking"
    BY <1>1 DEF RecState, RecPC
  <2> HIDE DEF one
  <2>3. two \in RecState /\ two.pc = "asking" /\ two.att = a
    BY <2>2 DEF RecState
  <2> HIDE DEF two
  <2>4. three \in RecState /\ three.pc = "asking" /\ three.att = a
        /\ three.ids = attempts[a].ids
    BY <1>1, <2>3 DEF RecState
  <2> HIDE DEF three
  <2>5. RecMoved(r) /\ rec'[r].pc = "asking" /\ rec'[r].att = a
        /\ rec'[r].ids = attempts[a].ids /\ attempts'[a] = attempts[a]
    BY <1>1, <2>1, <2>4, Typed DEF RecMoved, tables
  <2>6. RecFollows(r)'
    BY <1>3, <2>5 DEF RecFollows
  <2> QED BY <1>1, <2>5, <2>6, StillRec, ReconcilerFrame, Typed
<1> QED BY <1>2, <1>3 DEF ReadAttempt

\* A row that a reconciler writes: its executor, wherever it is, finds it as it
\* expects.
LEMMA ReconcilerWrites ==
  ASSUME IInv, NEW a \in Executor, NEW status \in Ledger!Status, NEW ids \in Ledger!Ids,
         NEW expected, Ledger!Update(a, status, ids, expected),
         \/ status = "FAILED" /\ ids = Ledger!NoIds /\ attempts[a].status = "PREPARED"
         \/ attempts[a].ids["work"] # None,
         status = "SUCCEEDED" => remote[a].work = "complete",
         UNCHANGED <<exec, remote, snapshot, trail>>
  PROVE  Effect(a)
<1>1. /\ OnlyRow(a)
      /\ attempts'[a].status = status /\ attempts'[a].plan = attempts[a].plan
      /\ \A f \in Ledger!IdField :
           attempts'[a].ids[f] # None <=> attempts[a].ids[f] # None \/ ids[f] # None
      /\ ids = Ledger!NoIds => attempts'[a].ids = attempts[a].ids
  BY Typed, UpdateRow
<1>2. Follows(a)
  BY Local
<1>3. /\ exec[a].pc \notin {"start", "gate", "gated", "submitted", "drafting", "drafted",
                            "staged", "uploading", "uploaded"}
      /\ exec[a].pc \in {"reserved", "checked", "probed"} =>
           status = "FAILED" /\ ids = Ledger!NoIds
  BY <1>2, Typed DEF Follows, RowFollows, RowsWellFormed, Ledger!NoIds, Ledger!IdField
<1>4. RowFollows(a)'
  BY <1>1, <1>2, <1>3 DEF Follows, RowFollows, Ledger!IdField
<1>5. RemoteFollows(a)' /\ KnowsIds(a)' /\ KnowsSnapshot(a)'
  BY <1>1, <1>2 DEF Follows, RemoteFollows, KnowsIds, KnowsSnapshot, BeforeRequests
<1>6. Moved(a) /\ RemoteMoved(a) /\ trail' \subseteq Event
  BY Typed DEF Moved, RemoteMoved
<1> QED BY <1>1, <1>4, <1>5, <1>6 DEF Effect, Follows

LEMMA AbandonStep ==
  ASSUME IInv, NEW r \in Reconciler, Abandon(r),
         UNCHANGED <<snapshot, planTrail, planner, exec, remote, lost>>
  PROVE  IInv'
<1> DEFINE a == rec[r].att
<1>1. rec[r].pc = "abandoning" /\ UNCHANGED trail /\ EndRec(r)
  BY DEF Abandon
<1>2. a \in Executor
  BY <1>1 DEF IInv, RecFollows
<1>3. RecMoved(r) /\ RecFollows(r)'
  BY <1>1, Typed, EndRecShape, NewRecFollows
<1>4. CASE Ledger!Update(a, "FAILED", Ledger!NoIds, {"PREPARED"})
  <2>1. "FAILED" \in Ledger!Status /\ Ledger!NoIds \in Ledger!Ids
    BY DEF Ledger!Status, Ledger!NoIds, Ledger!Ids
  <2>2. attempts[a].status = "PREPARED"
    BY <1>2, <1>4, <2>1, Typed, UpdateRow
  <2>3. Effect(a)
    BY <1>1, <1>2, <1>4, <2>1, <2>2, ReconcilerWrites
  <2> QED BY <1>2, <1>3, <2>3, ReconcilerFrame
<1>5. CASE UNCHANGED tables
  BY <1>1, <1>2, <1>3, <1>5, Typed, StillRec, ReconcilerFrame
<1> QED BY <1>4, <1>5 DEF Abandon

LEMMA AskWorkStep ==
  ASSUME IInv, NEW r \in Reconciler, AskWork(r),
         UNCHANGED <<snapshot, planTrail, planner, exec, remote, lost>>
  PROVE  IInv'
<1> DEFINE a == rec[r].att
<1>1. rec[r].pc = "asking" /\ UNCHANGED <<tables, trail>>
  BY DEF AskWork
<1>2. /\ a \in Executor /\ rec[r] \in RecState
      /\ rec[r].ids["work"] # None /\ attempts[a].ids["work"] # None
  BY <1>1, Typed DEF IInv, RecFollows
<1>3. ASSUME NEW s \in WorkAnswers(a), rec' = [rec EXCEPT ![r].pc = "recording", ![r].result = s]
      PROVE  RecMoved(r) /\ RecFollows(r)'
  <2> DEFINE one == [rec[r] EXCEPT !.pc = "recording"]
             two == [one EXCEPT !.result = s]
  <2>1. rec' = [rec EXCEPT ![r] = two]
    BY <1>3
  <2>2. s \in Ledger!Status /\ (s = "SUCCEEDED" => remote[a].work = "complete")
    BY <1>2, WorkAnswer
  <2>3. one \in RecState /\ one.pc = "recording" /\ one.att = a /\ one.ids = rec[r].ids
    BY <1>2 DEF RecState, RecPC
  <2> HIDE DEF one
  <2>4. two \in RecState /\ two.pc = "recording" /\ two.att = a /\ two.ids = rec[r].ids
        /\ two.result = s
    BY <2>2, <2>3 DEF RecState
  <2> HIDE DEF two
  <2>5. rec'[r] = two /\ RecMoved(r)
    BY <2>1, <2>4, Typed DEF RecMoved
  <2>6. attempts'[a] = attempts[a] /\ remote'[a] = remote[a]
    BY <1>1 DEF tables
  <2>7. RecFollows(r)'
    BY <1>2, <2>2, <2>4, <2>5, <2>6 DEF RecFollows
  <2> QED BY <2>5, <2>7
<1>4. RecMoved(r) /\ RecFollows(r)'
  BY <1>3, EndRecShape, NewRecFollows, Typed DEF AskWork
<1> QED BY <1>1, <1>2, <1>4, Typed, StillRec, ReconcilerFrame

LEMMA RecordAnswerStep ==
  ASSUME IInv, NEW r \in Reconciler, RecordAnswer(r),
         UNCHANGED <<snapshot, planTrail, planner, exec, remote, lost>>
  PROVE  IInv'
<1> DEFINE a == rec[r].att
<1>1. rec[r].pc = "recording" /\ UNCHANGED trail
  BY DEF RecordAnswer
<1>2. /\ a \in Executor /\ rec[r] \in RecState
      /\ attempts[a].ids["work"] # None
      /\ rec[r].result \in Ledger!Status /\ rec[r].ids \in Ledger!Ids
      /\ rec[r].result = "SUCCEEDED" => remote[a].work = "complete"
  BY <1>1, Typed DEF IInv, RecFollows, RecState
<1>3. CASE /\ Ledger!Update(a, rec[r].result, rec[r].ids, Ledger!Status)
           /\ rec' = [rec EXCEPT ![r].pc = "auditing", ![r].ids = Ledger!NoIds]
  <2> DEFINE one == [rec[r] EXCEPT !.pc = "auditing"]
             two == [one EXCEPT !.ids = Ledger!NoIds]
  <2>1. rec' = [rec EXCEPT ![r] = two]
    BY <1>3
  <2>2. one \in RecState /\ one.pc = "auditing" /\ one.att = a /\ one.result = rec[r].result
    BY <1>2 DEF RecState, RecPC
  <2> HIDE DEF one
  <2>3. Ledger!NoIds \in Ledger!Ids
    BY DEF Ledger!NoIds, Ledger!Ids
  <2>4. two \in RecState /\ two.pc = "auditing" /\ two.att = a /\ two.result = rec[r].result
    BY <2>2, <2>3 DEF RecState
  <2> HIDE DEF two
  <2>5. rec'[r] = two /\ RecMoved(r)
    BY <2>1, <2>4, Typed DEF RecMoved
  <2>6. RecFollows(r)'
    BY <1>2, <2>4, <2>5 DEF RecFollows
  <2>7. Effect(a)
    BY <1>1, <1>2, <1>3, ReconcilerWrites
  <2> QED BY <1>2, <2>5, <2>6, <2>7, ReconcilerFrame
<1>4. CASE EndRec(r) /\ UNCHANGED tables
  <2>1. RecMoved(r) /\ RecFollows(r)'
    BY <1>4, Typed, EndRecShape, NewRecFollows
  <2> QED BY <1>1, <1>2, <1>4, <2>1, Typed, StillRec, ReconcilerFrame
<1> QED BY <1>3, <1>4 DEF RecordAnswer

LEMMA AuditAnswerStep ==
  ASSUME IInv, NEW r \in Reconciler, AuditAnswer(r),
         UNCHANGED <<snapshot, planTrail, planner, exec, remote, lost>>
  PROVE  IInv'
<1>1. rec[r].pc = "auditing" /\ UNCHANGED tables /\ EndRec(r)
      /\ trail' = trail \cup {[attempt |-> rec[r].att, status |-> rec[r].result]}
  BY DEF AuditAnswer
<1>2. rec[r].att \in Executor /\ rec[r].result \in Ledger!Status
  BY <1>1 DEF IInv, RecFollows
<1>3. trail' \subseteq Event
  BY <1>1, <1>2, Typed DEF Event
<1>4. RecMoved(r) /\ RecFollows(r)'
  BY <1>1, Typed, EndRecShape, NewRecFollows
<1> QED BY <1>1, <1>2, <1>3, <1>4, StillRec, ReconcilerFrame

LEMMA ReconcilerMoves ==
  ASSUME IInv, NEW r \in Reconciler, ReconcilerStep(r)
  PROVE  IInv'
BY ReadAttemptStep, AbandonStep, AskWorkStep, RecordAnswerStep, AuditAnswerStep
DEF ReconcilerStep

-----------------------------------------------------------------------------
(* Planners, time, reviews and crashes. *)

\* Nothing of attempts, executors, reconcilers and OpenCTI moves, and reviews
\* only become more.
LEMMA QuietFrame ==
  ASSUME IInv, TypeOK', UNCHANGED <<attempts, exec, rec, remote>>,
         snapshot' \in Nat, snapshot <= snapshot'
  PROVE  IInv'
<1>1. snapshot \in Nat /\ \A e \in Executor : exec[e].seen \in LogicalKey =>
                                                exec[e].seen \in Nat
  BY Typed, ServiceAssumption DEF LogicalKey
<1>2. \A e \in Executor : exec[e].key \in Nat
  BY Typed, ServiceAssumption DEF ExecState, LogicalKey
<1>3. ASSUME NEW e \in Executor
      PROVE  Follows(e)'
  <2>1. KnowsSnapshot(e)'
    BY <1>1, <1>2, Local DEF Follows, KnowsSnapshot
  <2> QED BY <2>1, Local DEF Follows, RowFollows, RemoteFollows, KnowsIds, BeforeRequests
<1> QED BY <1>3 DEF IInv, RowsWellFormed, RecFollows, SuccessIsReal

LEMMA SavePlanTypes ==
  ASSUME Ledger!TypeOK, NEW k \in LogicalKey, NEW created \in Nat, Ledger!SavePlan(k, created)
  PROVE  Ledger!TypeOK'
BY DEF Ledger!SavePlan, Ledger!TypeOK, Ledger!Plan, Ledger!PlanStatus, Ledger!Status

PlannerState == [pc : PlannerPC, key : LogicalKey, created : Nat,
                 previous : Nat \cup {None}]

LEMMA OwedTypes ==
  ASSUME IInv
  PROVE  /\ \A p \in Planner : OwedByPlanner(p) \subseteq PlanEvent
         /\ \A e \in Executor : Owed(exec[e], e) \subseteq Event
         /\ \A r \in Reconciler : Owed(rec[r], rec[r].att) \subseteq Event
<1>1. \A p \in Planner : planner[p] \in PlannerState
  BY DEF IInv, TypeOK, PlannerState
<1>2. \A p \in Planner : OwedByPlanner(p) \subseteq PlanEvent
  BY <1>1 DEF OwedByPlanner, PlanEvent, PlannerState
<1>3. \A e \in Executor : Owed(exec[e], e) \subseteq Event
  BY DEF IInv, Follows, KnowsIds, Owed, Event
<1>4. \A r \in Reconciler : Owed(rec[r], rec[r].att) \subseteq Event
  BY DEF IInv, RecFollows, Owed, Event
<1> QED BY <1>2, <1>3, <1>4

\* A planner and the events it owes.
PlannerMoved(p) ==
  /\ planner' \in [Planner -> PlannerState]
  /\ \A q \in Planner \ {p} : planner'[q] = planner[q]

LEMMA PlannerTypes ==
  ASSUME IInv
  PROVE  /\ planner \in [Planner -> PlannerState]
         /\ NewPlanner \in PlannerState
         /\ [NewPlanner EXCEPT !.pc = "done"] \in PlannerState
BY ServiceAssumption DEF IInv, TypeOK, PlannerState, NewPlanner, PlannerPC, LogicalKey

LEMMA PlannerDone ==
  ASSUME IInv, NEW p \in Planner,
         planner' = [planner EXCEPT ![p] = [NewPlanner EXCEPT !.pc = "done"]]
  PROVE  PlannerMoved(p) /\ planner'[p].pc = "done" /\ planner'[p].created = 0
<1>1. [NewPlanner EXCEPT !.pc = "done"].pc = "done" /\ [NewPlanner EXCEPT !.pc = "done"].created = 0
  BY DEF NewPlanner
<1> QED BY <1>1, PlannerTypes DEF PlannerMoved

LEMMA BuildPlanShape ==
  ASSUME IInv, NEW p \in Planner, BuildPlan(p)
  PROVE  /\ PlannerMoved(p) /\ planner'[p].pc = "built" /\ planner'[p].key = snapshot
         /\ planner'[p].created = now
<1> DEFINE one == [planner[p] EXCEPT !.pc = "built"]
           two == [one EXCEPT !.key = snapshot]
           three == [two EXCEPT !.created = now]
<1>1. planner[p] \in PlannerState /\ snapshot \in LogicalKey /\ now \in Nat
  BY PlannerTypes, Typed DEF Ledger!TypeOK
<1>2. planner' = [planner EXCEPT ![p] = three]
  BY DEF BuildPlan
<1>3. one \in PlannerState /\ one.pc = "built"
  BY <1>1 DEF PlannerState, PlannerPC
<1> HIDE DEF one
<1>4. two \in PlannerState /\ two.pc = "built" /\ two.key = snapshot
  BY <1>1, <1>3 DEF PlannerState
<1> HIDE DEF two
<1>5. three \in PlannerState /\ three.pc = "built" /\ three.key = snapshot /\ three.created = now
  BY <1>1, <1>4 DEF PlannerState
<1> HIDE DEF three
<1> QED BY <1>2, <1>5, PlannerTypes DEF PlannerMoved

LEMMA PeekPlanShape ==
  ASSUME IInv, NEW p \in Planner, PeekPlan(p)
  PROVE  /\ PlannerMoved(p) /\ planner'[p].pc = "peeked" /\ planner'[p].key = planner[p].key
         /\ planner'[p].created = planner[p].created
         /\ planner'[p].previous = IF plans[planner[p].key].status = "ABSENT"
                                     THEN None ELSE plans[planner[p].key].created
<1> DEFINE row == plans[planner[p].key]
           seen == IF row.status = "ABSENT" THEN None ELSE row.created
           one == [planner[p] EXCEPT !.pc = "peeked"]
           two == [one EXCEPT !.previous = seen]
<1>1. planner[p] \in PlannerState /\ seen \in Nat \cup {None}
  <2>1. planner[p] \in PlannerState /\ planner[p].key \in LogicalKey
    BY PlannerTypes DEF PlannerState
  <2> QED BY <2>1, Typed DEF Ledger!TypeOK, Ledger!Plan
<1> HIDE DEF row
<1>2. planner' = [planner EXCEPT ![p] = two]
  BY DEF PeekPlan, row
<1> HIDE DEF seen
<1>3. /\ one \in PlannerState /\ one.pc = "peeked" /\ one.key = planner[p].key
      /\ one.created = planner[p].created
  BY <1>1 DEF PlannerState, PlannerPC
<1> HIDE DEF one
<1>4. /\ two \in PlannerState /\ two.pc = "peeked" /\ two.key = planner[p].key
      /\ two.created = planner[p].created /\ two.previous = seen
  BY <1>1, <1>3 DEF PlannerState
<1> HIDE DEF two
<1> QED BY <1>2, <1>4, PlannerTypes DEF PlannerMoved, seen, row

LEMMA SavePlanShape ==
  ASSUME IInv, NEW p \in Planner, SavePlan(p)
  PROVE  /\ PlannerMoved(p) /\ Ledger!TypeOK'
         /\ planner[p].key \in LogicalKey
         /\ \/ /\ planner[p].previous = plans'[planner[p].key].created
               /\ planner'[p].pc = "done" /\ planner'[p].created = 0
            \/ /\ planner'[p].pc = "saved" /\ planner'[p].key = planner[p].key
               /\ planner'[p].previous = planner[p].previous
               /\ planner'[p].created = plans'[planner[p].key].created
<1> DEFINE k == planner[p].key
           stored == plans'[k].created
           one == [planner[p] EXCEPT !.pc = "saved"]
           two == [one EXCEPT !.created = stored]
<1>1. planner[p] \in PlannerState /\ k \in LogicalKey /\ planner[p].created \in Nat
  BY PlannerTypes DEF PlannerState
<1>2. Ledger!TypeOK'
  BY <1>1, Typed, SavePlanTypes DEF SavePlan
<1>3. stored \in Nat
  BY <1>1, <1>2 DEF Ledger!TypeOK, Ledger!Plan
<1>4. CASE /\ planner[p].previous = stored
           /\ planner' = [planner EXCEPT ![p] = [NewPlanner EXCEPT !.pc = "done"]]
  BY <1>1, <1>2, <1>4, PlannerDone
<1>5. CASE planner' = [planner EXCEPT ![p] = two]
  <2>1. /\ one \in PlannerState /\ one.pc = "saved" /\ one.key = k
        /\ one.previous = planner[p].previous
    BY <1>1 DEF PlannerState, PlannerPC
  <2> HIDE DEF one
  <2>2. /\ two \in PlannerState /\ two.pc = "saved" /\ two.key = k
        /\ two.previous = planner[p].previous /\ two.created = stored
    BY <1>3, <2>1 DEF PlannerState
  <2> HIDE DEF two
  <2> QED BY <1>1, <1>2, <1>5, <2>2, PlannerTypes DEF PlannerMoved
<1> HIDE DEF k, stored
<1> QED BY <1>4, <1>5 DEF SavePlan, k, stored

\* What a planner, living or dying, does.
PlannerMoves(p) == PlannerStep(p) \/ CrashPlanner(p)

LEMMA PlannerEffect ==
  ASSUME IInv, NEW p \in Planner, PlannerMoves(p)
  PROVE  /\ PlannerMoved(p) /\ Ledger!TypeOK'
         /\ UNCHANGED <<attempts, snapshot, trail, exec, rec, remote>>
         /\ planTrail' \subseteq PlanEvent /\ lost' \subseteq Event \cup PlanEvent
<1>1. UNCHANGED <<attempts, snapshot, trail, exec, rec, remote>>
  BY DEF PlannerMoves, PlannerStep, BuildPlan, PeekPlan, SavePlan, AuditPlan, CrashPlanner,
         Ledger!SavePlan, tables
<1>2. planTrail' \subseteq PlanEvent /\ lost' \subseteq Event \cup PlanEvent
  <2>1. planTrail \subseteq PlanEvent /\ lost \subseteq Event \cup PlanEvent
    BY DEF IInv, TypeOK
  <2>2. planTrail' \subseteq planTrail \cup OwedByPlanner(p)
        /\ lost' \subseteq lost \cup OwedByPlanner(p)
    BY DEF PlannerMoves, PlannerStep, BuildPlan, PeekPlan, SavePlan, AuditPlan, CrashPlanner
  <2> QED BY <2>1, <2>2, OwedTypes
<1>3. CASE SavePlan(p)
  BY <1>1, <1>2, <1>3, SavePlanShape
<1>4. CASE BuildPlan(p) \/ PeekPlan(p) \/ AuditPlan(p) \/ CrashPlanner(p)
  <2>1. Ledger!TypeOK'
    BY <1>4, Typed DEF BuildPlan, PeekPlan, AuditPlan, CrashPlanner, tables, Ledger!TypeOK
  <2>2. PlannerMoved(p)
    BY <1>4, BuildPlanShape, PeekPlanShape, PlannerDone DEF AuditPlan, CrashPlanner
  <2> QED BY <1>1, <1>2, <2>1, <2>2
<1> QED BY <1>3, <1>4 DEF PlannerMoves, PlannerStep

LEMMA PlannerInv ==
  ASSUME IInv, NEW p \in Planner, PlannerMoves(p)
  PROVE  IInv'
<1>1. TypeOK'
  BY PlannerEffect DEF IInv, TypeOK, PlannerMoved, PlannerState
<1> QED BY <1>1, PlannerEffect, Typed, QuietFrame, ServiceAssumption DEF LogicalKey

LEMMA TickInv ==
  ASSUME IInv, Tick
  PROVE  IInv'
<1>1. TypeOK'
  BY DEF Tick, Ledger!Tick, IInv, TypeOK, Ledger!TypeOK
<1> QED BY <1>1, Typed, QuietFrame, ServiceAssumption DEF Tick, Ledger!Tick, LogicalKey

LEMMA ReviewInv ==
  ASSUME IInv, Review
  PROVE  IInv'
<1>1. snapshot' \in LogicalKey /\ snapshot \in Nat /\ snapshot' = snapshot + 1
  BY Typed, ServiceAssumption DEF Review, LogicalKey
<1>2. TypeOK'
  BY <1>1 DEF Review, tables, IInv, TypeOK, Ledger!TypeOK
<1> QED BY <1>1, <1>2, QuietFrame DEF Review, tables

LEMMA CrashInv ==
  ASSUME IInv,
         \/ \E e \in Executor : CrashExecutor(e)
         \/ \E r \in Reconciler : CrashReconciler(r)
  PROVE  IInv'
<1>1. ASSUME NEW e \in Executor, CrashExecutor(e)
      PROVE  IInv'
  <2>1. Moved(e) /\ exec'[e].pc = "done"
    BY <1>1, Typed, FinishShape DEF CrashExecutor
  <2>2. snapshot' = snapshot /\ UNCHANGED <<tables, trail, remote>>
        /\ UNCHANGED <<snapshot, planTrail, planner, rec>> /\ lost' = lost \cup Owed(exec[e], e)
    BY <1>1 DEF CrashExecutor
  <2>3. Follows(e)'
    BY <2>1, <2>2, Local, Leaving DEF Follows, RemoteFollows
  <2>4. Effect(e)
    BY <2>1, <2>2, <2>3, Still
  <2>5. TypeOK'
    BY <2>2, <2>4, OwedTypes
    DEF IInv, TypeOK, Effect, OnlyRow, Moved, RemoteMoved, ExecState, RemoteState
  <2> QED BY <2>2, <2>4, <2>5, Frame DEF IInv
<1>2. ASSUME NEW r \in Reconciler, CrashReconciler(r)
      PROVE  IInv'
  <2>1. RecMoved(r) /\ RecFollows(r)'
    BY <1>2, Typed, EndRecShape, NewRecFollows DEF CrashReconciler
  <2>2. /\ UNCHANGED <<tables, exec, remote, snapshot>> /\ trail' \subseteq Event
        /\ UNCHANGED <<snapshot, planTrail, planner, exec, remote>>
        /\ lost' = lost \cup Owed(rec[r], rec[r].att)
    BY <1>2, Typed DEF CrashReconciler
  <2>3. rec[r].att \in Executor
    BY <1>2 DEF CrashReconciler, IInv, RecFollows
  <2>4. Effect(rec[r].att)
    BY <2>2, <2>3, StillRec
  <2>5. TypeOK'
    BY <2>1, <2>2, <2>4, OwedTypes DEF IInv, TypeOK, Effect, OnlyRow, RecMoved, RecState
  <2>6. snapshot' = snapshot /\ \A q \in Reconciler \ {r} : rec'[q] = rec[q]
    BY <2>1, <2>2 DEF RecMoved
  <2> QED BY <2>1, <2>3, <2>4, <2>5, <2>6, Frame DEF IInv
<1> QED BY <1>1, <1>2

LEMMA InvInit == Init => IInv
<1> SUFFICES ASSUME Init PROVE IInv
  OBVIOUS
<1>1. Ledger!TypeOK
  BY LedgerAssumption
  DEF Init, Ledger!Init, Ledger!TypeOK, Ledger!Plan, Ledger!NoPlan, Ledger!NoAttempt, Ledger!NoIds,
      Ledger!AttemptRow, Ledger!Ids, Ledger!PlanStatus
<1>2. 0 \in LogicalKey /\ NewExec \in ExecState /\ NewRec \in RecState /\ NoRemote \in RemoteState
      /\ NewPlanner \in PlannerState
  BY ServiceAssumption, NewExecType, NewRecType
  DEF LogicalKey, RemoteState, NoRemote, Request, NewPlanner, PlannerState, PlannerPC
<1>3. TypeOK
  BY <1>1, <1>2 DEF Init, TypeOK, ExecState, RecState, RemoteState, PlannerState
<1>4. RowsWellFormed /\ SuccessIsReal
  BY DEF Init, Ledger!Init, Ledger!NoAttempt, RowsWellFormed, SuccessIsReal
<1>5. \A e \in Executor : Follows(e)
  BY DEF Init, Ledger!Init, Ledger!NoAttempt, Follows, RowFollows, RemoteFollows, KnowsIds,
         KnowsSnapshot, NewExec, NoRemote
<1>6. \A r \in Reconciler : RecFollows(r)
  BY DEF Init, RecFollows, NewRec
<1> QED BY <1>3, <1>4, <1>5, <1>6 DEF IInv

LEMMA InvStutter == IInv /\ UNCHANGED vars => IInv'
<1> SUFFICES ASSUME IInv, UNCHANGED vars PROVE IInv'
  OBVIOUS
<1>1. TypeOK'
  BY DEF vars, tables, IInv, TypeOK, Ledger!TypeOK
<1> QED BY <1>1, Typed, QuietFrame, ServiceAssumption DEF vars, tables, LogicalKey

LEMMA InvStep == IInv /\ [Next]_vars => IInv'
BY ExecutorMoves, RemoteMoves, ReconcilerMoves, PlannerInv, TickInv, ReviewInv, CrashInv,
   InvStutter DEF Next, PlannerMoves

LEMMA Invariance == Spec => []IInv
BY InvInit, InvStep, PTL DEF Spec

-----------------------------------------------------------------------------
(* Theorems. *)

\* Processes, trails and what OpenCTI did stay within their types.
THEOREM ServiceTypeCorrect == Spec => []TypeOK
BY Invariance, PTL DEF IInv

\* For any number of executors and reconcilers, polls and crashes, SUCCEEDED is
\* recorded only for an import work that completed.
THEOREM SuccessMeansComplete == Spec => []SuccessIsReal
BY Invariance, PTL DEF IInv

-----------------------------------------------------------------------------
(* The processes use the tables as DeliveryLedger says. *)

\* Which transactions a process asks for.
ExecutorUse(e) ==
  \/ UNCHANGED tables
  \/ \E k \in LogicalKey : Ledger!ReserveNew(k, e) \/ Ledger!ReserveNoop(k, e)
  \/ \E status \in Ledger!Status, ids \in Ledger!Ids, expected \in {{"PREPARED"}, Ledger!Status} :
       Ledger!Update(e, status, ids, expected)

ReconcilerUse(r) ==
  \/ UNCHANGED tables
  \/ /\ rec[r].att \in Executor
     /\ \E status \in Ledger!Status, ids \in Ledger!Ids,
          expected \in {{"PREPARED"}, Ledger!Status} :
          Ledger!Update(rec[r].att, status, ids, expected)

LEMMA ExecutorUses ==
  ASSUME IInv, NEW e \in Executor, ExecutorStep(e)
  PROVE  ExecutorUse(e)
<1>1. /\ exec[e].key \in LogicalKey /\ exec[e].ids \in Ledger!Ids /\ Ledger!NoIds \in Ledger!Ids
      /\ {"PROCESSING", "SUBMITTED"} \subseteq Ledger!Status
  BY Local DEF ExecState, Ledger!NoIds, Ledger!Ids, Ledger!Status
<1>2. CASE Reserve(e)
  BY <1>1, <1>2 DEF Reserve, ExecutorUse
<1>3. CASE EnterBoundary(e) \/ RecordDraft(e) \/ RecordUpload(e)
  BY <1>1, <1>3 DEF EnterBoundary, RecordDraft, RecordUpload, Progress, ExecutorUse
<1>4. CASE Record(e)
  <2>1. exec[e].result \in Ledger!Status
    BY <1>4, Local DEF Record, Follows, KnowsIds
  <2> QED BY <1>1, <1>4, <2>1 DEF Record, ExecutorUse
<1> QED BY <1>2, <1>3, <1>4
        DEF ExecutorStep, ReadPlan, GateCheck, Recheck, Probe, SendDraft, DraftReply,
            SendUpload, UploadReply, Poll, Classify, Audit, ExecutorUse

LEMMA ReconcilerUses ==
  ASSUME IInv, NEW r \in Reconciler, ReconcilerStep(r)
  PROVE  ReconcilerUse(r)
<1>1. Ledger!NoIds \in Ledger!Ids /\ "FAILED" \in Ledger!Status
  BY DEF Ledger!NoIds, Ledger!Ids, Ledger!Status
<1>2. CASE Abandon(r)
  <2>1. rec[r].att \in Executor
    BY <1>2 DEF Abandon, IInv, RecFollows
  <2> QED BY <1>1, <1>2, <2>1 DEF Abandon, ReconcilerUse
<1>3. CASE RecordAnswer(r)
  <2>1. rec[r].att \in Executor /\ rec[r].result \in Ledger!Status /\ rec[r].ids \in Ledger!Ids
    BY <1>3, Typed DEF RecordAnswer, IInv, RecFollows, RecState
  <2> QED BY <1>3, <2>1 DEF RecordAnswer, ReconcilerUse
<1> QED BY <1>2, <1>3 DEF ReconcilerStep, ReadAttempt, AskWork, AuditAnswer, ReconcilerUse

LEMMA UpdateKeepsCreated ==
  ASSUME plans \in [LogicalKey -> Ledger!Plan], NEW e, NEW status, NEW ids, NEW expected,
         Ledger!Update(e, status, ids, expected)
  PROVE  now' = now /\ \A k \in LogicalKey : plans'[k].created = plans[k].created
<1>1. /\ now' = now
      /\ plans' = [plans EXCEPT ![attempts[e].plan] =
                     [status |-> status, created |-> plans[attempts[e].plan].created]]
  BY DEF Ledger!Update
<1> QED BY <1>1

LEMMA LateStep == IInv /\ PlannersAreLate /\ [Next]_vars => PlannersAreLate'
<1> SUFFICES ASSUME IInv, PlannersAreLate, [Next]_vars PROVE PlannersAreLate'
  OBVIOUS
<1>1. /\ now \in Nat /\ plans \in [LogicalKey -> Ledger!Plan]
      /\ planner \in [Planner -> PlannerState]
  BY Typed, PlannerTypes DEF Ledger!TypeOK
<1>2. ASSUME NEW p \in Planner, PlannerMoves(p)
      PROVE  PlannersAreLate'
  <2>1. PlannerMoved(p) /\ now' = now
    BY <1>2, PlannerEffect
    DEF PlannerMoves, PlannerStep, BuildPlan, PeekPlan, SavePlan, AuditPlan, CrashPlanner,
        Ledger!SavePlan, tables
  <2>2. \A k \in LogicalKey : plans'[k].created <= now
    <3>1. CASE SavePlan(p)
      <4>1. /\ planner[p].created <= now /\ planner[p].key \in LogicalKey
            /\ planner[p].created \in Nat
        BY <1>1 DEF PlannersAreLate, PlannerState
      <4> QED BY <1>1, <3>1, <4>1 DEF SavePlan, Ledger!SavePlan, PlannersAreLate, Ledger!Plan
    <3>2. CASE plans' = plans
      BY <3>2 DEF PlannersAreLate
    <3> QED BY <1>2, <3>1, <3>2
            DEF PlannerMoves, PlannerStep, BuildPlan, PeekPlan, AuditPlan, CrashPlanner, tables
  <2>3. planner'[p].created <= now
    <3>1. CASE BuildPlan(p)
      BY <1>1, <3>1, BuildPlanShape
    <3>2. CASE PeekPlan(p)
      BY <3>2, PeekPlanShape DEF PlannersAreLate
    <3>3. CASE SavePlan(p)
      BY <1>1, <2>2, <3>3, SavePlanShape
    <3>4. CASE AuditPlan(p) \/ CrashPlanner(p)
      BY <1>1, <3>4, PlannerDone DEF AuditPlan, CrashPlanner
    <3> QED BY <1>2, <3>1, <3>2, <3>3, <3>4 DEF PlannerMoves, PlannerStep
  <2> QED BY <2>1, <2>2, <2>3 DEF PlannersAreLate, PlannerMoved
<1>3. ASSUME UNCHANGED <<plans, planner>>, now' = now \/ now' = now + 1
      PROVE  PlannersAreLate'
  BY <1>1, <1>3 DEF PlannersAreLate, PlannerState, Ledger!Plan
<1>4. ASSUME now' = now, planner' = planner,
             \A k \in LogicalKey : plans'[k].created = plans[k].created
      PROVE  PlannersAreLate'
  BY <1>4 DEF PlannersAreLate
<1>5. ASSUME NEW e \in Executor, ExecutorStep(e)
      PROVE  PlannersAreLate'
  <2>1. planner' = planner
    BY <1>5 DEF ExecutorStep
  <2>2. ExecutorUse(e)
    BY <1>5, ExecutorUses
  <2>3. now' = now /\ \A k \in LogicalKey : plans'[k].created = plans[k].created
    <3>1. ASSUME NEW status, NEW ids, NEW expected, Ledger!Update(e, status, ids, expected)
          PROVE  now' = now /\ \A k \in LogicalKey : plans'[k].created = plans[k].created
      BY <1>1, <3>1, UpdateKeepsCreated
    <3>2. ASSUME NEW k \in LogicalKey, Ledger!ReserveNew(k, e) \/ Ledger!ReserveNoop(k, e)
          PROVE  now' = now /\ \A j \in LogicalKey : plans'[j].created = plans[j].created
      BY <1>1, <3>2 DEF Ledger!ReserveNew, Ledger!ReserveNoop
    <3> QED BY <2>2, <3>1, <3>2 DEF ExecutorUse, tables
  <2> QED BY <1>4, <2>1, <2>3
<1>6. ASSUME NEW r \in Reconciler, ReconcilerStep(r)
      PROVE  PlannersAreLate'
  <2>1. planner' = planner
    BY <1>6 DEF ReconcilerStep
  <2>2. ReconcilerUse(r)
    BY <1>6, ReconcilerUses
  <2>3. now' = now /\ \A k \in LogicalKey : plans'[k].created = plans[k].created
    BY <1>1, <2>2, UpdateKeepsCreated DEF ReconcilerUse, tables
  <2> QED BY <1>4, <2>1, <2>3
<1> QED BY <1>2, <1>3, <1>5, <1>6
        DEF Next, PlannerMoves, Tick, Ledger!Tick, Review, RemoteStep, FinishWork,
            CrashExecutor, CrashReconciler, vars, tables

\* Every step of a process is a transaction of the ledger, or leaves it alone.
LEMMA LedgerStep == IInv /\ PlannersAreLate /\ [Next]_vars => [Ledger!Next]_(Ledger!vars)
<1> SUFFICES ASSUME IInv, PlannersAreLate, [Next]_vars PROVE [Ledger!Next]_(Ledger!vars)
  OBVIOUS
<1>1. ASSUME NEW e \in Executor, NEW status \in Ledger!Status, NEW ids \in Ledger!Ids,
             NEW expected, Ledger!Update(e, status, ids, expected)
      PROVE  Ledger!Next
  <2>1. attempts[e].status \in Ledger!Status
    BY <1>1, Typed, UpdateRow DEF Open, Ledger!Status
  <2>2. Ledger!Update(e, status, ids, Ledger!Status)
    BY <1>1, <2>1 DEF Ledger!Update, Ledger!CanUpdate
  <2> QED BY <2>2 DEF Ledger!Next
<1>2. ASSUME NEW e \in Executor, ExecutorStep(e)
      PROVE  Ledger!Next \/ UNCHANGED tables
  BY <1>1, <1>2, ExecutorUses DEF ExecutorUse, Ledger!Next
<1>3. ASSUME NEW r \in Reconciler, ReconcilerStep(r)
      PROVE  Ledger!Next \/ UNCHANGED tables
  BY <1>1, <1>3, ReconcilerUses DEF ReconcilerUse
<1>4. ASSUME NEW p \in Planner, PlannerMoves(p)
      PROVE  Ledger!Next \/ UNCHANGED tables
  <2>1. /\ planner[p].key \in LogicalKey /\ planner[p].created \in Nat
        /\ planner[p].created <= now /\ now \in Nat
    BY PlannerTypes, Typed DEF PlannerState, PlannersAreLate, Ledger!TypeOK
  <2>2. planner[p].created \in 0..now
    BY <2>1
  <2> QED BY <1>4, <2>1, <2>2
          DEF PlannerMoves, PlannerStep, BuildPlan, PeekPlan, SavePlan, AuditPlan, CrashPlanner,
              Ledger!Next
<1>5. UNCHANGED tables => UNCHANGED Ledger!vars
  BY DEF tables, Ledger!vars
<1> QED BY <1>2, <1>3, <1>4, <1>5
        DEF Next, PlannerMoves, Tick, Review, RemoteStep, FinishWork, CrashExecutor,
            CrashReconciler, vars, Ledger!Next

LEMMA LateInit == Init => PlannersAreLate
BY DEF Init, Ledger!Init, Ledger!NoPlan, NewPlanner, PlannersAreLate

\* Planners, executors and reconcilers change the tables only by transactions of
\* storage/repository.py, so all that DeliveryLedgerProofs says of them holds here.
THEOREM RefinesLedger == Spec => LedgerSpec
<1>1. Init => Ledger!Init
  BY DEF Init
<1> QED BY <1>1, LateInit, LateStep, LedgerStep, Invariance, PTL DEF Spec, LedgerSpec, Ledger!Spec

\* DeliveryLedgerProofs and the service speak of the same transactions.
LEMMA SameLedger ==
  /\ Ledger!Init => LP!Init
  /\ [Ledger!Next]_(Ledger!vars) => [LP!Next]_(LP!vars)
<1>1. Ledger!Init => LP!Init
  BY DEF Ledger!Init, Ledger!NoPlan, Ledger!NoAttempt, Ledger!NoIds, Ledger!IdField,
         LP!Init, LP!NoPlan, LP!NoAttempt, LP!NoIds, LP!IdField
<1>2. Ledger!Tick => LP!Tick
  BY DEF Ledger!Tick, LP!Tick
<1>3. ASSUME NEW k, NEW created, Ledger!SavePlan(k, created)
      PROVE  LP!SavePlan(k, created)
  BY <1>3 DEF Ledger!SavePlan, Ledger!Refreshable, Ledger!Expires, Ledger!AttemptsOf,
              LP!SavePlan, LP!Refreshable, LP!Expires, LP!AttemptsOf
<1>4. ASSUME NEW k, NEW a, Ledger!ReserveNew(k, a)
      PROVE  LP!ReserveNew(k, a)
  BY <1>4 DEF Ledger!ReserveNew, Ledger!CanReserve, Ledger!Delivered, Ledger!AttemptsOf,
              Ledger!Obstructs, Ledger!Unsettled, Ledger!HasRemoteId, Ledger!NoIds,
              Ledger!IdField,
              LP!ReserveNew, LP!CanReserve, LP!Delivered, LP!AttemptsOf,
              LP!Obstructs, LP!Unsettled, LP!HasRemoteId, LP!NoIds, LP!IdField
<1>5. ASSUME NEW k, NEW a, Ledger!ReserveNoop(k, a)
      PROVE  LP!ReserveNoop(k, a)
  BY <1>5 DEF Ledger!ReserveNoop, Ledger!Delivered, Ledger!AttemptsOf, Ledger!NoopsOf,
              Ledger!NoIds, Ledger!IdField,
              LP!ReserveNoop, LP!Delivered, LP!AttemptsOf, LP!NoopsOf, LP!NoIds, LP!IdField
<1>6. ASSUME NEW a, NEW status, NEW ids, Ledger!Update(a, status, ids, Ledger!Status)
      PROVE  LP!Update(a, status, ids, LP!Status)
  BY <1>6 DEF Ledger!Update, Ledger!CanUpdate, Ledger!Allowed, Ledger!IdsAgree, Ledger!Merge,
              Ledger!IdField, Ledger!Status,
              LP!Update, LP!CanUpdate, LP!Allowed, LP!IdsAgree, LP!Merge, LP!IdField, LP!Status
<1>7. Ledger!Status = LP!Status /\ Ledger!Ids = LP!Ids
  BY DEF Ledger!Status, LP!Status, Ledger!Ids, LP!Ids, Ledger!IdField, LP!IdField
<1>8. [Ledger!Next]_(Ledger!vars) => [LP!Next]_(LP!vars)
  BY <1>2, <1>3, <1>4, <1>5, <1>6, <1>7 DEF Ledger!Next, LP!Next, Ledger!vars, LP!vars
<1> QED BY <1>1, <1>8

\* What DeliveryLedgerProofs assumes of its constants holds here.
LEMMA LedgerConstants ==
  LP!KeyAssumption /\ LP!IdAssumption /\ LP!NoneAssumption /\ LP!TimeAssumption
BY LedgerAssumption, ServiceAssumption
DEF LP!KeyAssumption, LP!IdAssumption, LP!NoneAssumption, LP!TimeAssumption, LogicalKey

\* The invariant of the tables, under the processes.
LEMMA TablesInvariance == Spec => []LP!IInv
<1>1. Ledger!Init => LP!IInv
  BY SameLedger, LedgerConstants, LP!InvInit
<1>2. LP!IInv /\ [Ledger!Next]_(Ledger!vars) => LP!IInv'
  BY SameLedger, LedgerConstants, LP!InvStep
<1>3. Init => Ledger!Init
  BY DEF Init
<1> QED BY <1>1, <1>2, <1>3, LateInit, LateStep, LedgerStep, Invariance, PTL DEF Spec

\* The tables follow the specification DeliveryLedgerProofs is about.
LEMMA TablesFollow == Spec => LP!Spec
<1>1. Init => LP!Init
  BY SameLedger DEF Init
<1>2. [Ledger!Next]_(Ledger!vars) => [LP!Next]_(LP!vars)
  BY SameLedger
<1> QED BY <1>1, <1>2, LateInit, LateStep, LedgerStep, Invariance, PTL DEF Spec, LP!Spec

\* Whatever planners, executors, reconcilers and crashes do to one another, the
\* tables keep the promise of PlanClaim.
THEOREM ClaimUnderProcesses == Spec => Ledger!ImplementsPlanClaim
<1>1. LP!Claimants = Ledger!Claimants /\ LP!Claimants' = Ledger!Claimants'
  BY DEF LP!Claimants, Ledger!Claimants, LP!AttemptsOf, Ledger!AttemptsOf, LP!Live, Ledger!Live,
         LP!Obstructs, Ledger!Obstructs, LP!Unsettled, Ledger!Unsettled, LP!HasRemoteId,
         Ledger!HasRemoteId, LP!IdField, Ledger!IdField
<1>2. LP!Released = Ledger!Released /\ LP!Released' = Ledger!Released'
  BY DEF LP!Released, Ledger!Released, LP!HasRemoteId, Ledger!HasRemoteId, LP!IdField,
         Ledger!IdField
<1>3. LP!DeliveredKeys = Ledger!DeliveredKeys /\ LP!DeliveredKeys' = Ledger!DeliveredKeys'
  BY DEF LP!DeliveredKeys, Ledger!DeliveredKeys, LP!Delivered, Ledger!Delivered, LP!AttemptsOf,
         Ledger!AttemptsOf
<1>4. LP!Claim!Init => Ledger!Claim!Init
  BY <1>1, <1>2, <1>3 DEF LP!Claim!Init, Ledger!Claim!Init
<1>5. [LP!Claim!Next]_(LP!Claim!vars) => [Ledger!Claim!Next]_(Ledger!Claim!vars)
  BY <1>1, <1>2, <1>3
  DEF LP!Claim!Next, LP!Claim!Claim, LP!Claim!Release, LP!Claim!Deliver, LP!Claim!vars,
      Ledger!Claim!Next, Ledger!Claim!Claim, Ledger!Claim!Release, Ledger!Claim!Deliver,
      Ledger!Claim!vars
<1>6. LP!Spec => LP!ImplementsPlanClaim
  BY LedgerConstants, LP!Implementation
<1> QED BY <1>4, <1>5, <1>6, TablesFollow, PTL
        DEF LP!ImplementsPlanClaim, LP!Claim!Spec, Ledger!ImplementsPlanClaim, Ledger!Claim!Spec

\* Nor does any interleaving of them rewrite a recorded outcome, a remote
\* identifier or the digest of a plan in use.
THEOREM RecordsUnderProcesses == Spec => LP!NothingIsRewritten
BY TablesFollow, LedgerConstants, LP!RecordsStand, PTL

-----------------------------------------------------------------------------
(* What leaves the gateway, and on whose behalf. *)

\* A request leaves from one place of execute only.
LEMMA RequestStep ==
  ASSUME IInv, [Next]_vars, NEW e \in Executor
  PROVE  /\ remote[e].draft = "none" /\ remote'[e].draft # "none" => exec[e].pc = "submitted"
         /\ remote[e].upload = "none" /\ remote'[e].upload # "none" => exec[e].pc = "staged"
<1> DEFINE Goal == /\ remote[e].draft = "none" /\ remote'[e].draft # "none"
                        => exec[e].pc = "submitted"
                   /\ remote[e].upload = "none" /\ remote'[e].upload # "none"
                        => exec[e].pc = "staged"
<1>1. ASSUME remote' = remote
      PROVE  Goal
  BY <1>1
<1>2. ASSUME NEW f \in Executor, ExecutorStep(f)
      PROVE  Goal
  <2>1. CASE f = e
    <3>1. CASE SendDraft(e)
      <4>1. exec[e].pc = "submitted"
        BY <3>1 DEF SendDraft
      <4>2. remote'[e].upload = remote[e].upload
        BY <3>1, Typed DEF SendDraft, RemoteState
      <4> QED BY <4>1, <4>2
    <3>2. CASE SendUpload(e)
      <4>1. exec[e].pc = "staged"
        BY <3>2 DEF SendUpload
      <4>2. remote'[e].draft = remote[e].draft
        BY <3>2, Typed DEF SendUpload, RemoteState
      <4> QED BY <4>1, <4>2
    <3>3. CASE remote' = remote
      BY <3>3
    <3> QED BY <1>2, <2>1, <3>1, <3>2, <3>3
            DEF ExecutorStep, ReadPlan, GateCheck, Reserve, Recheck, Probe, EnterBoundary,
                DraftReply, RecordDraft, UploadReply, RecordUpload, Poll, Classify, Record, Audit
  <2>2. CASE f # e
    BY <1>2, <2>2, ExecutorMoves DEF Effect, RemoteMoved
  <2> QED BY <2>1, <2>2
<1>3. ASSUME NEW f \in Executor, RemoteStep(f) \/ FinishWork(f)
      PROVE  Goal
  <2>1. CASE f # e
    BY <1>3, <2>1, RemoteMoves DEF Effect, RemoteMoved
  <2>2. CASE f = e
    <3>1. remote[e] \in RemoteState /\ (remote[e].work # "none" => remote[e].upload = "done")
      BY Local DEF Follows, RemoteFollows
    <3>2. CASE RemoteStep(e)
      BY <3>1, <3>2, Typed DEF RemoteStep, RemoteState
    <3>3. CASE FinishWork(e)
      BY <3>1, <3>3, Typed DEF FinishWork, RemoteState
    <3> QED BY <1>3, <2>2, <3>2, <3>3
  <2> QED BY <2>1, <2>2
<1>4. ASSUME NEW r \in Reconciler, ReconcilerStep(r)
      PROVE  remote' = remote
  BY <1>4 DEF ReconcilerStep
<1>5. ASSUME NEW p \in Planner, PlannerMoves(p)
      PROVE  remote' = remote
  BY <1>5, PlannerEffect
<1> HIDE DEF Goal
<1>6. Goal
  BY <1>1, <1>2, <1>3, <1>4, <1>5
  DEF Next, PlannerMoves, Tick, Review, CrashExecutor, CrashReconciler, vars
<1> QED BY <1>6 DEF Goal

\* However executors, reconciliations and crashes interleave, create-draft leaves
\* only for the SUBMITTED attempt its plan shows, and the upload only for a
\* PROCESSING one whose draft is on record.
THEOREM MutationsAreReserved == Spec => MutationUnderReservation
<1>1. ASSUME IInv, LP!IInv, [Next]_vars, NEW e \in Executor
      PROVE  /\ remote[e].draft = "none" /\ remote'[e].draft # "none"
                  => /\ attempts[e].status = "SUBMITTED"
                     /\ plans[attempts[e].plan].status = "SUBMITTED"
             /\ remote[e].upload = "none" /\ remote'[e].upload # "none"
                  => /\ attempts[e].status = "PROCESSING"
                     /\ attempts[e].ids["draft"] # None
  <2>1. Follows(e)
    BY <1>1, Local
  <2>2. ASSUME attempts[e].status = "SUBMITTED"
        PROVE  plans[attempts[e].plan].status = "SUBMITTED"
    <3>1. attempts[e].plan \in LogicalKey
      BY <1>1, <2>2, Local DEF Ledger!AttemptRow, IInv, RowsWellFormed
    <3>2. e \in LP!AttemptsOf(attempts[e].plan) /\ LP!Live(e)
      BY <2>2 DEF LP!AttemptsOf, LP!Live, LP!Obstructs, LP!Unsettled
    <3> QED BY <1>1, <2>2, <3>1, <3>2 DEF LP!IInv, LP!PlanMirrorsAttempts
  <2> QED BY <1>1, <2>1, <2>2, RequestStep DEF Follows, RowFollows
<1>2. IInv /\ LP!IInv /\ [Next]_vars =>
        [\A e \in Executor :
           /\ remote[e].draft = "none" /\ remote'[e].draft # "none"
                => /\ attempts[e].status = "SUBMITTED"
                   /\ plans[attempts[e].plan].status = "SUBMITTED"
           /\ remote[e].upload = "none" /\ remote'[e].upload # "none"
                => /\ attempts[e].status = "PROCESSING"
                   /\ attempts[e].ids["draft"] # None]_vars
  BY <1>1
<1> QED BY <1>2, Invariance, TablesInvariance, PTL DEF Spec, MutationUnderReservation

\* A review recorded between the gates and the reservation stops the delivery:
\* the snapshot only grows, and the second assessment compares it again.
THEOREM StaleNeverSends == Spec => StaleReservationNeverSends
<1>1. ASSUME IInv, [Next]_vars, NEW e \in Executor,
             remote[e].draft = "none", remote'[e].draft # "none"
      PROVE  exec[e].seen = attempts[e].plan
  BY <1>1, RequestStep, Local DEF Follows, KnowsSnapshot
<1>2. IInv /\ [Next]_vars =>
        [\A e \in Executor : remote[e].draft = "none" /\ remote'[e].draft # "none"
           => exec[e].seen = attempts[e].plan]_vars
  BY <1>1
<1> QED BY <1>2, Invariance, PTL DEF Spec, StaleReservationNeverSends

-----------------------------------------------------------------------------
(* The audit trail. *)

\* The trail has the event, or a process owes it, or owed it when it died.
Told(a, status) ==
  LET event == [attempt |-> a, status |-> status] IN
  \/ event \in trail \cup lost
  \/ event \in Owed(exec[a], a)
  \/ \E r \in Reconciler : event \in Owed(rec[r], rec[r].att)

\* An owed event is written or, at worst, lost.
LEMMA ToldStays ==
  ASSUME IInv, [Next]_vars, NEW a \in Executor, NEW status, Told(a, status)
  PROVE  Told(a, status)'
<1> DEFINE event == [attempt |-> a, status |-> status]
<1>1. ASSUME NEW e \in Executor, ExecutorStep(e)
      PROVE  Told(a, status)'
  <2>1. lost' = lost /\ rec' = rec
    BY <1>1 DEF ExecutorStep
  <2>2. trail \subseteq trail' /\ (e # a => exec'[a] = exec[a])
    <3>1. e # a => exec'[a] = exec[a]
      BY <1>1, ExecutorMoves DEF Effect, Moved
    <3>2. trail \subseteq trail'
      BY <1>1
      DEF ExecutorStep, ReadPlan, GateCheck, Reserve, Recheck, Probe, EnterBoundary, SendDraft,
          DraftReply, RecordDraft, SendUpload, UploadReply, RecordUpload, Poll, Classify, Record,
          Audit
    <3> QED BY <3>1, <3>2
  <2>3. CASE e = a /\ exec[a].pc = "auditing"
    <3>1. Audit(a)
      BY <1>1, <2>3
      DEF ExecutorStep, ReadPlan, GateCheck, Reserve, Recheck, Probe, EnterBoundary, SendDraft,
          DraftReply, RecordDraft, SendUpload, UploadReply, RecordUpload, Poll, Classify, Record
    <3> QED BY <2>1, <2>2, <3>1 DEF Told, Owed, Audit
  <2>4. CASE e # a
    BY <2>1, <2>2, <2>4 DEF Told
  <2>5. CASE exec[a].pc # "auditing"
    BY <2>1, <2>2, <2>5 DEF Told, Owed
  <2> QED BY <2>3, <2>4, <2>5
<1>2. ASSUME NEW e \in Executor, CrashExecutor(e)
      PROVE  Told(a, status)'
  <2>1. UNCHANGED <<trail, rec>> /\ lost' = lost \cup Owed(exec[e], e)
    BY <1>2 DEF CrashExecutor
  <2>2. e # a => exec'[a] = exec[a]
    BY <1>2, Typed, FinishShape DEF CrashExecutor, Moved
  <2> QED BY <2>1, <2>2 DEF Told
<1>3. ASSUME NEW r \in Reconciler, ReconcilerStep(r) \/ CrashReconciler(r)
      PROVE  Told(a, status)'
  <2>1. exec' = exec
    BY <1>3 DEF ReconcilerStep, CrashReconciler
  <2>2. trail \subseteq trail' /\ lost \subseteq lost'
        /\ \A q \in Reconciler \ {r} : rec'[q] = rec[q]
    BY <1>3, Typed
    DEF ReconcilerStep, CrashReconciler, ReadAttempt, Abandon, AskWork, RecordAnswer,
        AuditAnswer, EndRec
  <2>3. Owed(rec[r], rec[r].att) \subseteq trail' \cup lost'
    BY <1>3
    DEF Owed, ReconcilerStep, CrashReconciler, ReadAttempt, Abandon, AskWork, RecordAnswer,
        AuditAnswer
  <2> QED BY <2>1, <2>2, <2>3 DEF Told
<1>4. ASSUME NEW p \in Planner, PlannerMoves(p)
      PROVE  UNCHANGED <<trail, exec, rec>> /\ lost \subseteq lost'
  BY <1>4, PlannerEffect
  DEF PlannerMoves, PlannerStep, BuildPlan, PeekPlan, SavePlan, AuditPlan, CrashPlanner
<1>5. ASSUME UNCHANGED <<trail, exec, rec>>, lost \subseteq lost'
      PROVE  Told(a, status)'
  BY <1>5 DEF Told
<1> QED BY <1>1, <1>2, <1>3, <1>4, <1>5
        DEF Next, PlannerMoves, Tick, Review, RemoteStep, FinishWork, vars

\* Whoever records an outcome owes the event.
LEMMA OutcomeTold ==
  ASSUME IInv, [Next]_vars, NEW a \in Executor,
         attempts'[a].status \in {"SUCCEEDED", "PARTIAL", "UNKNOWN"},
         attempts'[a].status # attempts[a].status
  PROVE  Told(a, attempts[a].status)'
<1>1. ASSUME NEW e \in Executor, ExecutorStep(e)
      PROVE  Told(a, attempts[a].status)'
  <2>1. e = a
    BY <1>1, ExecutorMoves DEF Effect, OnlyRow
  <2>2. /\ exec[a].key \in LogicalKey /\ exec[a].ids \in Ledger!Ids
        /\ Ledger!NoIds \in Ledger!Ids /\ "auditing" \in ExecPC
        /\ {"SUBMITTED", "PROCESSING"} \subseteq Ledger!Status
    BY Local DEF ExecState, Ledger!NoIds, Ledger!Ids, Ledger!Status, ExecPC
  <2>3. ~ Reserve(a)
    <3>1. ASSUME Ledger!ReserveNew(exec[a].key, a) PROVE FALSE
      <4>1. attempts'[a] = [plan |-> exec[a].key, status |-> "PREPARED", ids |-> Ledger!NoIds]
        BY <2>2, <3>1, Typed, ReserveRow
      <4> QED BY <4>1
    <3>2. ASSUME Ledger!ReserveNoop(exec[a].key, a) PROVE FALSE
      <4>1. attempts'[a] = [plan |-> exec[a].key, status |-> "NOOP", ids |-> Ledger!NoIds]
        BY <2>2, <3>2, Typed, ReserveRow
      <4> QED BY <4>1
    <3> QED BY <3>1, <3>2 DEF Reserve, tables
  <2>4. ~ EnterBoundary(a) /\ ~ RecordDraft(a) /\ ~ RecordUpload(a)
    BY <2>2, Typed, UpdateRow DEF EnterBoundary, RecordDraft, RecordUpload, Progress, tables
  <2>5. Record(a)
    BY <1>1, <2>1, <2>3, <2>4
    DEF ExecutorStep, ReadPlan, GateCheck, Recheck, Probe, SendDraft, DraftReply, SendUpload,
        UploadReply, Poll, Classify, Audit, tables
  <2>6. /\ Ledger!Update(a, exec[a].result, exec[a].ids, Ledger!Status)
        /\ exec' = [exec EXCEPT ![a].pc = "auditing", ![a].ids = Ledger!NoIds]
        /\ exec[a].result \in Ledger!Status
    BY <2>5, Local DEF Record, tables, Follows, KnowsIds
  <2>7. attempts'[a].status = exec[a].result
    BY <2>2, <2>6, Typed, UpdateRow
  <2>8. exec'[a].pc = "auditing" /\ exec'[a].result = exec[a].result
    BY <2>2, <2>6, Typed, IdsShape
  <2> QED BY <2>7, <2>8 DEF Told, Owed
<1>2. ASSUME NEW r \in Reconciler, ReconcilerStep(r)
      PROVE  Told(a, attempts[a].status)'
  <2> DEFINE b == rec[r].att
  <2>1. CASE Abandon(r)
    <3>1. b \in Executor /\ "FAILED" \in Ledger!Status /\ Ledger!NoIds \in Ledger!Ids
      BY <2>1 DEF Abandon, IInv, RecFollows, Ledger!Status, Ledger!NoIds, Ledger!Ids
    <3>2. Ledger!Update(b, "FAILED", Ledger!NoIds, {"PREPARED"})
      BY <2>1 DEF Abandon, tables
    <3>3. attempts'[b].status = "FAILED" /\ \A f \in Executor \ {b} : attempts'[f] = attempts[f]
      BY <3>1, <3>2, Typed, UpdateRow DEF OnlyRow
    <3> QED BY <3>1, <3>3
  <2>2. CASE RecordAnswer(r)
    <3>1. /\ b \in Executor /\ rec[r] \in RecState /\ rec[r].result \in Ledger!Status
          /\ rec[r].ids \in Ledger!Ids
      BY <2>2, Typed DEF RecordAnswer, IInv, RecFollows, RecState
    <3>2. /\ Ledger!Update(b, rec[r].result, rec[r].ids, Ledger!Status)
          /\ rec' = [rec EXCEPT ![r].pc = "auditing", ![r].ids = Ledger!NoIds]
      BY <2>2 DEF RecordAnswer, tables
    <3>3. attempts'[b].status = rec[r].result
          /\ \A f \in Executor \ {b} : attempts'[f] = attempts[f]
      BY <3>1, <3>2, Typed, UpdateRow DEF OnlyRow
    <3>4. a = b
      BY <3>3
    <3> DEFINE one == [rec[r] EXCEPT !.pc = "auditing"]
               two == [one EXCEPT !.ids = Ledger!NoIds]
    <3>5. rec' = [rec EXCEPT ![r] = two]
      BY <3>2
    <3>6. one \in RecState /\ one.pc = "auditing" /\ one.att = b /\ one.result = rec[r].result
      BY <3>1 DEF RecState, RecPC
    <3> HIDE DEF one
    <3>7. two.pc = "auditing" /\ two.att = b /\ two.result = rec[r].result
      BY <3>6 DEF RecState
    <3> HIDE DEF two
    <3>8. rec'[r] = two
      BY <3>5, Typed
    <3> QED BY <3>3, <3>4, <3>7, <3>8 DEF Told, Owed
  <2> QED BY <1>2, <2>1, <2>2 DEF ReconcilerStep, ReadAttempt, AskWork, AuditAnswer, tables
<1>3. ASSUME NEW p \in Planner, PlannerMoves(p)
      PROVE  attempts' = attempts
  BY <1>3, PlannerEffect
<1> QED BY <1>1, <1>2, <1>3
        DEF Next, PlannerMoves, Tick, Ledger!Tick, Review, RemoteStep, FinishWork,
            CrashExecutor, CrashReconciler, vars, tables

\* No outcome is recorded behind the audit trail's back: a crash between
\* update_delivery_attempt and _audit_attempt is the only way to miss it.
THEOREM OutcomesAreTold == Spec => []OutcomeIsAudited
<1>1. OutcomeIsAudited <=>
        \A a \in Executor : attempts[a].status \in {"SUCCEEDED", "PARTIAL", "UNKNOWN"}
          => Told(a, attempts[a].status)
  BY DEF OutcomeIsAudited, Told
<1>2. Init => OutcomeIsAudited
  BY DEF Init, Ledger!Init, Ledger!NoAttempt, OutcomeIsAudited
<1>3. IInv /\ OutcomeIsAudited /\ [Next]_vars => OutcomeIsAudited'
  <2> SUFFICES ASSUME IInv, OutcomeIsAudited, [Next]_vars, NEW a \in Executor,
                      attempts'[a].status \in {"SUCCEEDED", "PARTIAL", "UNKNOWN"}
               PROVE  Told(a, attempts[a].status)'
    BY DEF OutcomeIsAudited, Told
  <2>1. CASE attempts'[a].status = attempts[a].status
    <3>1. Told(a, attempts[a].status)
      BY <1>1, <2>1
    <3>2. \A status : Told(a, status) => Told(a, status)'
      BY ToldStays
    <3> QED BY <2>1, <3>1, <3>2 DEF Told
  <2>2. CASE attempts'[a].status # attempts[a].status
    BY <2>2, OutcomeTold
  <2> QED BY <2>1, <2>2
<1> QED BY <1>2, <1>3, Invariance, PTL DEF Spec

-----------------------------------------------------------------------------
(* What one step, whoever takes it, does to the tables. *)

\* Somebody who may writes the row: its executor before it ends, or a reconciler
\* that found it PREPARED or with a known work.
Writes(a) ==
  /\ \/ exec[a].pc # "done"
     \/ attempts[a].status = "PREPARED"
     \/ attempts[a].ids["work"] # None
  /\ \E status \in Ledger!Status, ids \in Ledger!Ids,
        expected \in {{"PREPARED"}, Ledger!Status} :
        Ledger!Update(a, status, ids, expected)

\* The executor inserts its row.
Inserts(a) ==
  /\ exec[a].pc = "gated"
  /\ \E k \in LogicalKey : Ledger!ReserveNew(k, a) \/ Ledger!ReserveNoop(k, a)

Stores == \E k \in LogicalKey, created \in Nat : Ledger!SavePlan(k, created)

LEMMA TableMoves ==
  ASSUME IInv, [Next]_vars
  PROVE  \/ UNCHANGED <<plans, attempts>>
         \/ Stores
         \/ \E a \in Executor : Inserts(a) \/ Writes(a)
<1> DEFINE Goal == \/ UNCHANGED <<plans, attempts>>
                   \/ Stores
                   \/ \E a \in Executor : Inserts(a) \/ Writes(a)
<1>1. ASSUME NEW e \in Executor, ExecutorStep(e)
      PROVE  Goal
  <2>1. exec[e].pc # "done"
    BY <1>1
    DEF ExecutorStep, ReadPlan, GateCheck, Reserve, Recheck, Probe, EnterBoundary, SendDraft,
        DraftReply, RecordDraft, SendUpload, UploadReply, RecordUpload, Poll, Classify, Record,
        Audit
  <2>2. /\ exec[e].ids \in Ledger!Ids /\ Ledger!NoIds \in Ledger!Ids
        /\ exec[e].key \in LogicalKey
        /\ {"PROCESSING", "SUBMITTED"} \subseteq Ledger!Status
        /\ exec[e].pc = "recording" => exec[e].result \in Ledger!Status
    BY Local DEF ExecState, Ledger!NoIds, Ledger!Ids, Ledger!Status, Follows, KnowsIds
  <2>3. CASE EnterBoundary(e) \/ RecordDraft(e) \/ RecordUpload(e) \/ Record(e)
    BY <2>1, <2>2, <2>3
    DEF EnterBoundary, RecordDraft, RecordUpload, Progress, Record, Writes, tables
  <2>4. CASE Reserve(e)
    BY <2>2, <2>4 DEF Reserve, Inserts, tables
  <2> QED BY <1>1, <2>3, <2>4
          DEF ExecutorStep, ReadPlan, GateCheck, Recheck, Probe, SendDraft, DraftReply,
              SendUpload, UploadReply, Poll, Classify, Audit, tables
<1>2. ASSUME NEW r \in Reconciler, ReconcilerStep(r)
      PROVE  Goal
  <2> DEFINE b == rec[r].att
  <2>1. CASE Abandon(r) /\ Ledger!Update(b, "FAILED", Ledger!NoIds, {"PREPARED"})
    <3>1. b \in Executor /\ "FAILED" \in Ledger!Status /\ Ledger!NoIds \in Ledger!Ids
      BY <2>1 DEF Abandon, IInv, RecFollows, Ledger!Status, Ledger!NoIds, Ledger!Ids
    <3>2. attempts[b].status = "PREPARED"
      BY <2>1, <3>1, Typed, UpdateRow
    <3> QED BY <2>1, <3>1, <3>2 DEF Writes
  <2>2. CASE RecordAnswer(r) /\ Ledger!Update(b, rec[r].result, rec[r].ids, Ledger!Status)
    <3>1. /\ b \in Executor /\ rec[r].result \in Ledger!Status /\ rec[r].ids \in Ledger!Ids
          /\ attempts[b].ids["work"] # None
      BY <2>2, Typed DEF RecordAnswer, IInv, RecFollows, RecState
    <3> QED BY <2>2, <3>1 DEF Writes
  <2> QED BY <1>2, <2>1, <2>2
          DEF ReconcilerStep, ReadAttempt, Abandon, AskWork, RecordAnswer, AuditAnswer, tables
<1>3. ASSUME NEW p \in Planner, PlannerMoves(p)
      PROVE  Goal
  <2>1. planner[p].key \in LogicalKey /\ planner[p].created \in Nat
    BY PlannerTypes DEF PlannerState
  <2> QED BY <1>3, <2>1
          DEF PlannerMoves, PlannerStep, BuildPlan, PeekPlan, SavePlan, AuditPlan, CrashPlanner,
              Stores, tables
<1> HIDE DEF Goal
<1>4. ASSUME UNCHANGED <<plans, attempts>>
      PROVE  Goal
  BY <1>4 DEF Goal
<1>5. Goal
  BY <1>1, <1>2, <1>3, <1>4
  DEF Next, PlannerMoves, Tick, Ledger!Tick, Review, RemoteStep, FinishWork, CrashExecutor,
      CrashReconciler, vars, tables
<1> QED BY <1>5 DEF Goal

\* So the row of an attempt stays, is inserted or is written.
LEMMA RowMoves ==
  ASSUME IInv, [Next]_vars, NEW a \in Executor
  PROVE  \/ attempts'[a] = attempts[a]
         \/ /\ exec[a].pc = "gated" /\ attempts[a].status = "ABSENT"
            /\ attempts'[a].ids = Ledger!NoIds /\ attempts'[a].status \in {"PREPARED", "NOOP"}
         \/ Writes(a)
<1>1. ASSUME NEW b \in Executor, Inserts(b)
      PROVE  /\ attempts[b].status = "ABSENT" /\ attempts'[b].ids = Ledger!NoIds
             /\ attempts'[b].status \in {"PREPARED", "NOOP"}
             /\ \A c \in Executor \ {b} : attempts'[c] = attempts[c]
  <2>1. PICK k \in LogicalKey : Ledger!ReserveNew(k, b) \/ Ledger!ReserveNoop(k, b)
    BY <1>1 DEF Inserts
  <2>2. attempts[b].status = "ABSENT"
    BY <2>1 DEF Ledger!ReserveNew, Ledger!ReserveNoop
  <2>3. PICK status \in {"PREPARED", "NOOP"} :
          OnlyRow(b) /\ attempts'[b] = [plan |-> k, status |-> status, ids |-> Ledger!NoIds]
    BY <2>1, Typed, ReserveRow
  <2> QED BY <2>2, <2>3 DEF OnlyRow
<1>2. ASSUME NEW b \in Executor, Writes(b)
      PROVE  \A c \in Executor \ {b} : attempts'[c] = attempts[c]
  BY <1>2, Typed, UpdateRow DEF Writes, OnlyRow
<1>3. Stores => attempts' = attempts
  BY DEF Stores, Ledger!SavePlan
<1> QED BY <1>1, <1>2, <1>3, TableMoves DEF Inserts

\* The attempt got past its reservation.
Begun(a) == attempts[a].status \in Outcome

\* No identifier on record is one that the ledger refuses.
Plain(a) == \A f \in Ledger!IdField : attempts[a].ids[f] # BadId

\* These identifiers are on record.
OnRecord(ids, a) == \A f \in Ledger!IdField : ids[f] # None => attempts[a].ids[f] = ids[f]

\* What a row says is never taken back.
LEMMA RowStands ==
  ASSUME IInv, [Next]_vars, NEW a \in Executor
  PROVE  /\ \A f \in Ledger!IdField :
              attempts[a].ids[f] # None => attempts'[a].ids[f] = attempts[a].ids[f]
         /\ Begun(a) => Begun(a)'
         /\ Plain(a) => Plain(a)'
         /\ attempts'[a].status = "PREPARED" =>
              attempts[a].status = "PREPARED" \/ exec[a].pc = "gated"
<1>1. CASE attempts'[a] = attempts[a]
  BY <1>1 DEF Begun, Plain
<1>2. CASE /\ exec[a].pc = "gated" /\ attempts[a].status = "ABSENT"
           /\ attempts'[a].ids = Ledger!NoIds /\ attempts'[a].status \in {"PREPARED", "NOOP"}
  <2>1. \A f \in Ledger!IdField : attempts[a].ids[f] = None
    BY <1>2, Typed DEF RowsWellFormed, Ledger!NoIds
  <2> QED BY <1>2, <2>1, LedgerAssumption DEF Begun, Plain, Outcome, Ledger!NoIds
<1>3. ASSUME NEW status \in Ledger!Status, NEW ids \in Ledger!Ids, NEW expected,
             Ledger!Update(a, status, ids, expected)
      PROVE  /\ \A f \in Ledger!IdField :
                  attempts[a].ids[f] # None => attempts'[a].ids[f] = attempts[a].ids[f]
             /\ Begun(a)' /\ attempts'[a].status # "PREPARED"
             /\ Plain(a) => Plain(a)'
  <2>1. /\ \A f \in Ledger!IdField :
             attempts[a].ids[f] # None => attempts'[a].ids[f] = attempts[a].ids[f]
        /\ attempts'[a].status = status /\ status \in Outcome
        /\ \A f \in Ledger!IdField : ids[f] # None =>
             attempts'[a].ids[f] = ids[f] /\ ids[f] # BadId
        /\ \A f \in Ledger!IdField : ids[f] = None =>
             attempts'[a].ids[f] = attempts[a].ids[f]
    BY <1>3, Typed, UpdateRow DEF OnlyRow
  <2> QED BY <2>1 DEF Begun, Plain, Outcome
<1> QED BY <1>1, <1>2, <1>3, RowMoves DEF Writes

\* Only an executor, living or dying, moves itself.
LEMMA OthersStay ==
  ASSUME IInv, [Next]_vars, NEW e \in Executor, ~ ExecutorStep(e), ~ CrashExecutor(e)
  PROVE  exec'[e] = exec[e]
<1>1. ASSUME NEW f \in Executor, f # e, ExecutorStep(f) \/ CrashExecutor(f)
      PROVE  exec'[e] = exec[e]
  BY <1>1, ExecutorMoves, Typed, FinishShape DEF Effect, Moved, CrashExecutor
<1>2. ASSUME NEW p \in Planner, PlannerMoves(p)
      PROVE  exec' = exec
  BY <1>2, PlannerEffect
<1> QED BY <1>1, <1>2
        DEF Next, PlannerMoves, Tick, Review, RemoteStep, FinishWork, ReconcilerStep,
            CrashReconciler, vars

-----------------------------------------------------------------------------
(* One upload for a plan. *)

\* An artifact that went out has left a trace for good: its draft.
Uploaded(e) == remote[e].upload # "none" => Begun(e) /\ attempts[e].ids["draft"] # None

LEMMA UploadedStep ==
  ASSUME IInv, [Next]_vars, NEW e \in Executor, Uploaded(e)
  PROVE  Uploaded(e)'
<1>1. CASE remote[e].upload = "none" /\ remote'[e].upload # "none"
  <2>1. attempts[e].status = "PROCESSING" /\ attempts[e].ids["draft"] # None
    BY <1>1, RequestStep, Local DEF Follows, RowFollows
  <2> QED BY <2>1, RowStands DEF Uploaded, Begun, Outcome, Ledger!IdField
<1>2. CASE remote[e].upload # "none"
  BY <1>2, RowStands DEF Uploaded, Ledger!IdField
<1> QED BY <1>1, <1>2 DEF Uploaded

\* With unusable replies as with usable ones, any number of executors, crashes and
\* reconciliations: the artifact leaves at most once for a plan, since the draft
\* recorded before the upload keeps the claim even of an attempt that failed.
THEOREM OneUpload == Spec => []OneUploadPerPlan
<1> DEFINE AllUploaded == \A e \in Executor : Uploaded(e)
<1>1. Init => AllUploaded
  BY DEF Init, NoRemote, Uploaded
<1>2. IInv /\ AllUploaded /\ [Next]_vars => AllUploaded'
  BY UploadedStep
<1>3. LP!IInv /\ IInv /\ AllUploaded => OneUploadPerPlan
  <2> SUFFICES ASSUME IInv, LP!IInv, AllUploaded, NEW e \in Executor, NEW f \in Executor,
                      remote[e].upload # "none", remote[f].upload # "none",
                      attempts[e].plan = attempts[f].plan
               PROVE  e = f
    BY DEF OneUploadPerPlan
  <2>1. /\ Begun(e) /\ attempts[e].ids["draft"] # None
        /\ Begun(f) /\ attempts[f].ids["draft"] # None
    BY DEF Uploaded
  <2>2. LP!Live(e) /\ LP!Live(f) /\ attempts[e].status # "ABSENT"
    BY <2>1 DEF Begun, Outcome, LP!Live, LP!Obstructs, LP!Unsettled, LP!HasRemoteId, LP!IdField
  <2>3. attempts[e].plan \in LogicalKey
    BY <2>2, Local DEF IInv, RowsWellFormed, Ledger!AttemptRow
  <2>4. e \in LP!AttemptsOf(attempts[e].plan) /\ f \in LP!AttemptsOf(attempts[e].plan)
    BY DEF LP!AttemptsOf
  <2> QED BY <2>2, <2>3, <2>4 DEF LP!IInv, LP!OneLiveAttempt
<1> HIDE DEF AllUploaded
<1> QED BY <1>1, <1>2, <1>3, Invariance, TablesInvariance, PTL DEF Spec

-----------------------------------------------------------------------------
(* No outcome is lost to a stale read. *)

\* What a poll, a reconciliation or an error makes of an attempt.
Answer == {"PROCESSING", "SUCCEEDED", "FAILED", "PARTIAL", "UNKNOWN"}

\* The identifiers an executor works with are on record once it polls, and only a
\* failure is to be recorded for a row that never left PREPARED.
ExecAnswers(e) ==
  /\ exec[e].pc \in {"polling", "recording"} => OnRecord(exec[e].ids, e)
  /\ exec[e].pc = "polling" => attempts[e].status # "PREPARED"
  /\ exec[e].pc = "recording" =>
       /\ exec[e].result \in Answer
       /\ attempts[e].status = "PREPARED" => exec[e].result = "FAILED"

\* So are those a reconciler read, of a row that had left PREPARED.
RecAnswers(r) ==
  /\ rec[r].pc \in {"asking", "recording"} =>
       OnRecord(rec[r].ids, rec[r].att) /\ attempts[rec[r].att].status # "PREPARED"
  /\ rec[r].pc = "recording" => rec[r].result \in Answer

Answers ==
  /\ \A e \in Executor : Plain(e) /\ ExecAnswers(e)
  /\ \A r \in Reconciler : RecAnswers(r)

LEMMA OnRecordStands ==
  ASSUME IInv, [Next]_vars, NEW a \in Executor, NEW ids, OnRecord(ids, a)
  PROVE  OnRecord(ids, a)'
BY RowStands DEF OnRecord

LEMMA NoIdsOnRecord ==
  ASSUME NEW e \in Executor
  PROVE  OnRecord(Ledger!NoIds, e)'
BY DEF OnRecord, Ledger!NoIds

\* An executor that does not move finds what it knows confirmed.
LEMMA ExecAnswersStand ==
  ASSUME IInv, [Next]_vars, NEW e \in Executor, ExecAnswers(e), exec'[e] = exec[e]
  PROVE  ExecAnswers(e)'
<1>1. OnRecord(exec[e].ids, e) => OnRecord(exec[e].ids, e)'
  BY OnRecordStands
<1>2. attempts'[e].status = "PREPARED" => attempts[e].status = "PREPARED" \/ exec[e].pc = "gated"
  BY RowStands
<1> QED BY <1>1, <1>2 DEF ExecAnswers, OnRecord

\* A failure before the answers, or an outcome without identifiers.
LEMMA AnswersNothing ==
  ASSUME NEW e \in Executor,
         \/ exec'[e].pc \notin {"polling", "recording"}
         \/ /\ exec'[e].pc = "recording" /\ exec'[e].ids = Ledger!NoIds
            /\ exec'[e].result \in Answer
            /\ attempts'[e].status = "PREPARED" => exec'[e].result = "FAILED"
  PROVE  ExecAnswers(e)'
BY DEF ExecAnswers, OnRecord, Ledger!NoIds

LEMMA ExecAnswersStep ==
  ASSUME IInv, [Next]_vars, NEW e \in Executor, Answers, ExecutorStep(e)
  PROVE  ExecAnswers(e)'
<1>1. /\ ExecAnswers(e) /\ exec[e].ids \in Ledger!Ids /\ Follows(e)
      /\ Ledger!NoIds \in Ledger!Ids /\ Answer \subseteq Ledger!Status
      /\ "SUBMITTED" \in Ledger!Status
  BY Local DEF Answers, ExecState, Ledger!NoIds, Ledger!Ids, Ledger!Status, Answer
<1>2. ASSUME Finish(e) \/ Goto(e, "definite") \/ Goto(e, "ambiguous") \/ Fail(e)
      PROVE  ExecAnswers(e)'
  <2>1. \/ exec'[e].pc \in {"done", "definite", "ambiguous"}
        \/ exec'[e].pc = "recording" /\ exec'[e].ids = Ledger!NoIds /\ exec'[e].result = "FAILED"
    BY <1>2, Typed, FinishShape, GotoShape, FailShape DEF ExecPC, Keeps
  <2> QED BY <2>1, AnswersNothing DEF Answer
<1>3. ASSUME NEW pc \in {"gated", "checked", "probed", "submitted", "drafting", "staged",
                         "uploading"},
             Goto(e, pc)
      PROVE  ExecAnswers(e)'
  <2>1. exec'[e].pc = pc
    BY <1>3, Typed, GotoShape DEF ExecPC, Keeps
  <2> QED BY <2>1, AnswersNothing
<1>4. CASE \/ \E k \in LogicalKey : ReadPlan(e, k)
           \/ GateCheck(e) \/ Reserve(e) \/ Recheck(e) \/ Probe(e) \/ EnterBoundary(e)
  <2>1. ASSUME NEW k, exec' = [exec EXCEPT ![e].pc = "gate", ![e].key = k]
        PROVE  exec'[e].pc = "gate"
    BY <2>1, Typed DEF ExecState
  <2>2. exec' = [exec EXCEPT ![e].pc = "reserved", ![e].seen = snapshot]
          => exec'[e].pc = "reserved"
    BY Typed DEF ExecState
  <2> QED BY <1>2, <1>3, <1>4, <2>1, <2>2, AnswersNothing
          DEF ReadPlan, GateCheck, Reserve, Recheck, Probe, EnterBoundary
<1>5. CASE DraftReply(e) \/ UploadReply(e)
  <2>1. ASSUME NEW id, exec' = [exec EXCEPT ![e].pc = "drafted", ![e].ids["draft"] = id]
        PROVE  exec'[e].pc = "drafted"
    BY <2>1, Typed DEF ExecState
  <2>2. ASSUME NEW file, NEW work,
               exec' = [exec EXCEPT ![e].pc = "uploaded", ![e].ids["file"] = file,
                                    ![e].ids["work"] = work]
        PROVE  exec'[e].pc = "uploaded"
    BY <2>2, Typed DEF ExecState
  <2> QED BY <1>2, <1>5, <2>1, <2>2, AnswersNothing DEF DraftReply, UploadReply, MutationFails
<1>6. CASE SendDraft(e) \/ SendUpload(e) \/ RecordDraft(e)
  BY <1>2, <1>3, <1>6 DEF SendDraft, SendUpload, RecordDraft, Progress
<1>7. CASE RecordUpload(e)
  <2> DEFINE ids == exec[e].ids
  <2>1. ASSUME NEW pc \in {"polling", "recording"}, exec'[e].pc = pc, exec'[e].ids = ids,
               \A f \in Ledger!IdField : ids[f] # None => attempts'[e].ids[f] = ids[f],
               attempts'[e].status = "SUBMITTED",
               pc = "recording" => exec'[e].result \in Answer
        PROVE  ExecAnswers(e)'
    BY <2>1 DEF ExecAnswers, OnRecord
  <2> HIDE DEF ids
  <2>2. ASSUME Conclude(e, "UNKNOWN", ids)
        PROVE  exec'[e].pc = "recording" /\ exec'[e].ids = ids /\ exec'[e].result \in Answer
    BY <1>1, <2>2, Typed, ConcludeShape DEF Answer, ids
  <2>3. ASSUME exec' = [exec EXCEPT ![e].pc = "polling", ![e].polls = PollAttempts]
        PROVE  exec'[e].pc = "polling" /\ exec'[e].ids = ids
    <3>1. PollAttempts \in 1..PollAttempts
      BY ServiceAssumption
    <3> QED BY <2>3, <3>1, Typed, PollShape DEF ids
  <2>4. \/ Goto(e, "ambiguous")
        \/ /\ Ledger!Update(e, "SUBMITTED", ids, Ledger!Status)
           /\ \/ Conclude(e, "UNKNOWN", ids)
              \/ exec' = [exec EXCEPT ![e].pc = "polling", ![e].polls = PollAttempts]
    BY <1>7 DEF RecordUpload, Progress, ids
  <2>5. ASSUME Ledger!Update(e, "SUBMITTED", ids, Ledger!Status)
        PROVE  attempts'[e].status = "SUBMITTED" /\ \A f \in Ledger!IdField :
                 ids[f] # None => attempts'[e].ids[f] = ids[f]
    <3>1. ids \in Ledger!Ids
      BY <1>1 DEF ids
    <3> QED BY <1>1, <2>5, <3>1, Typed, UpdateRow
  <2> QED BY <1>2, <2>1, <2>2, <2>3, <2>4, <2>5
<1>8. CASE Poll(e)
  <2> DEFINE ids == exec[e].ids
  <2>1. /\ exec[e].pc = "polling" /\ exec[e].polls # 0 /\ attempts' = attempts
        /\ OnRecord(ids, e) /\ attempts[e].status # "PREPARED"
    BY <1>1, <1>8 DEF Poll, tables, Follows, KnowsIds, ExecAnswers
  <2>2. ASSUME exec'[e].pc \in {"polling", "recording"}, exec'[e].ids = ids,
               exec'[e].pc = "recording" => exec'[e].result \in Answer
        PROVE  ExecAnswers(e)'
    BY <2>1, <2>2 DEF ExecAnswers, OnRecord
  <2> HIDE DEF ids
  <2>3. ASSUME NEW s \in WorkAnswers(e), Conclude(e, s, ids)
        PROVE  exec'[e].pc = "recording" /\ exec'[e].ids = ids /\ exec'[e].result \in Answer
    <3>1. s \in Answer
      BY DEF WorkAnswers, Answer
    <3> QED BY <1>1, <2>3, <3>1, Typed, ConcludeShape DEF ids
  <2>4. ASSUME exec[e].polls # 1, exec' = [exec EXCEPT ![e].polls = @ - 1]
        PROVE  exec'[e].pc = "polling" /\ exec'[e].ids = ids
    BY <2>1, <2>4, Typed, RoundShape DEF ids
  <2>5. \/ \E s \in WorkAnswers(e) : Conclude(e, s, ids)
        \/ exec[e].polls # 1 /\ exec' = [exec EXCEPT ![e].polls = @ - 1]
        \/ Goto(e, "definite") \/ Fail(e)
    BY <1>8 DEF Poll, ids
  <2> QED BY <1>2, <2>2, <2>3, <2>4, <2>5
<1>9. CASE Classify(e)
  <2>1. PICK s \in {"FAILED", "UNKNOWN", "PARTIAL"} :
          Conclude(e, s, Ledger!NoIds) /\ (attempts[e].status = "PREPARED" => s = "FAILED")
    BY <1>9 DEF Classify
  <2>2. exec'[e].pc = "recording" /\ exec'[e].result = s /\ exec'[e].ids = Ledger!NoIds
    BY <1>1, <2>1, Typed, ConcludeShape DEF Answer
  <2>3. attempts' = attempts
    BY <1>9 DEF Classify, tables
  <2> QED BY <2>1, <2>2, <2>3, AnswersNothing DEF Answer
<1>10. CASE Record(e) \/ Audit(e)
  <2>1. exec' = [exec EXCEPT ![e].pc = "auditing", ![e].ids = Ledger!NoIds]
          => exec'[e].pc = "auditing"
    BY <1>1, Typed, IdsShape DEF ExecPC
  <2> QED BY <1>2, <1>10, <2>1, AnswersNothing DEF Record, Audit
<1> QED BY <1>4, <1>5, <1>6, <1>7, <1>8, <1>9, <1>10 DEF ExecutorStep

\* A reconciler that does not move finds what it read confirmed.
LEMMA RecAnswersStand ==
  ASSUME IInv, [Next]_vars, NEW r \in Reconciler, RecAnswers(r), rec'[r] = rec[r]
  PROVE  RecAnswers(r)'
<1> SUFFICES ASSUME rec[r].pc \in {"asking", "recording"}
             PROVE  OnRecord(rec[r].ids, rec[r].att)'
                    /\ attempts'[rec[r].att].status # "PREPARED"
  BY DEF RecAnswers
<1> DEFINE a == rec[r].att
           ids == rec[r].ids
<1>1. a \in Executor /\ attempts[a].ids["work"] # None
  BY DEF IInv, RecFollows
<1>2. OnRecord(ids, a) /\ attempts[a].status # "PREPARED"
  BY DEF RecAnswers
<1>3. exec[a].pc # "gated"
  <2>1. Follows(a) /\ RowsWellFormed
    BY <1>1, Local, Typed
  <2> QED BY <1>1, <2>1 DEF Follows, RowFollows, RowsWellFormed, Ledger!NoIds, Ledger!IdField
<1>4. attempts'[a].status # "PREPARED"
  BY <1>1, <1>2, <1>3, RowStands
<1>5. \A f \in Ledger!IdField : ids[f] # None => attempts'[a].ids[f] = ids[f]
  BY <1>1, <1>2, RowStands DEF OnRecord
<1> QED BY <1>4, <1>5 DEF OnRecord

LEMMA RecAnswersStep ==
  ASSUME IInv, [Next]_vars, NEW r \in Reconciler, Answers, ReconcilerStep(r)
  PROVE  RecAnswers(r)'
<1>1. rec[r] \in RecState /\ rec \in [Reconciler -> RecState] /\ RecAnswers(r)
  BY Typed DEF Answers
<1>2. ASSUME EndRec(r)
      PROVE  RecAnswers(r)'
  BY <1>2, Typed, EndRecShape DEF RecAnswers, NewRec
<1>3. ASSUME NEW pc \in {"abandoning", "auditing"}, rec'[r].pc = pc
      PROVE  RecAnswers(r)'
  BY <1>3 DEF RecAnswers
<1>4. ASSUME NEW a \in Executor, ReadAttempt(r, a)
      PROVE  RecAnswers(r)'
  <2>1. UNCHANGED attempts
    BY <1>4 DEF ReadAttempt, tables
  <2>2. CASE rec' = [rec EXCEPT ![r].pc = "abandoning", ![r].att = a]
    BY <1>1, <1>3, <2>2 DEF RecState
  <2>3. CASE /\ attempts[a].status \in Ledger!Unsettled \ {"PREPARED"}
             /\ rec' = [rec EXCEPT ![r].pc = "asking", ![r].att = a, ![r].ids = attempts[a].ids]
    <3>1. rec'[r].pc = "asking" /\ rec'[r].att = a /\ rec'[r].ids = attempts[a].ids
      BY <1>1, <2>3 DEF RecState
    <3> QED BY <2>1, <2>3, <3>1 DEF RecAnswers, OnRecord
  <2> QED BY <1>4, <2>2, <2>3 DEF ReadAttempt
<1>5. CASE AskWork(r)
  <2>1. UNCHANGED attempts /\ rec[r].pc = "asking"
    BY <1>5 DEF AskWork, tables
  <2>2. ASSUME NEW s \in WorkAnswers(rec[r].att),
               rec' = [rec EXCEPT ![r].pc = "recording", ![r].result = s]
        PROVE  RecAnswers(r)'
    <3>1. s \in Answer
      BY DEF WorkAnswers, Answer
    <3>2. /\ rec'[r].pc = "recording" /\ rec'[r].att = rec[r].att
          /\ rec'[r].ids = rec[r].ids /\ rec'[r].result = s
      BY <1>1, <2>2 DEF RecState
    <3> QED BY <1>1, <2>1, <3>1, <3>2 DEF RecAnswers, OnRecord
  <2> QED BY <1>2, <1>5, <2>2 DEF AskWork
<1>6. CASE RecordAnswer(r)
  <2>1. rec' = [rec EXCEPT ![r].pc = "auditing", ![r].ids = Ledger!NoIds]
          => rec'[r].pc = "auditing"
    BY <1>1 DEF RecState
  <2> QED BY <1>2, <1>3, <1>6, <2>1 DEF RecordAnswer
<1>7. CASE Abandon(r) \/ AuditAnswer(r)
  BY <1>2, <1>7 DEF Abandon, AuditAnswer
<1> QED BY <1>4, <1>5, <1>6, <1>7 DEF ReconcilerStep

LEMMA AnswersStep == IInv /\ Answers /\ [Next]_vars => Answers'
<1> SUFFICES ASSUME IInv, Answers, [Next]_vars PROVE Answers'
  OBVIOUS
<1>1. \A e \in Executor : Plain(e)'
  BY RowStands DEF Answers
<1>2. ASSUME NEW e \in Executor
      PROVE  ExecAnswers(e)'
  <2>1. CASE exec'[e] = exec[e]
    BY <2>1, ExecAnswersStand DEF Answers
  <2>2. CASE ExecutorStep(e)
    BY <2>2, ExecAnswersStep
  <2>3. CASE CrashExecutor(e)
    BY <2>3, Typed, FinishShape, AnswersNothing DEF CrashExecutor
  <2> QED BY <2>1, <2>2, <2>3, OthersStay
<1>3. ASSUME NEW r \in Reconciler
      PROVE  RecAnswers(r)'
  <2>1. CASE rec'[r] = rec[r]
    BY <2>1, RecAnswersStand DEF Answers
  <2>2. CASE ReconcilerStep(r)
    BY <2>2, RecAnswersStep
  <2>3. CASE CrashReconciler(r)
    BY <2>3, Typed, EndRecShape DEF CrashReconciler, RecAnswers, NewRec
  <2>4. ASSUME NEW q \in Reconciler, q # r, ReconcilerStep(q) \/ CrashReconciler(q)
        PROVE  rec'[r] = rec[r]
    BY <2>4, Typed
    DEF ReconcilerStep, CrashReconciler, ReadAttempt, Abandon, AskWork, RecordAnswer,
        AuditAnswer, EndRec
  <2>5. ASSUME NEW p \in Planner, PlannerMoves(p)
        PROVE  rec' = rec
    BY <2>5, PlannerEffect
  <2> QED BY <2>1, <2>2, <2>3, <2>4, <2>5
          DEF Next, PlannerMoves, Tick, Review, ExecutorStep, RemoteStep, FinishWork,
              CrashExecutor, vars
<1> QED BY <1>1, <1>2, <1>3 DEF Answers

\* What is on record, with the outcome of an answer, is accepted by an open row.
LEMMA AnswerAccepted ==
  ASSUME NEW a \in Executor, NEW ids, NEW result \in Answer, Plain(a), OnRecord(ids, a),
         attempts[a].status \in Ledger!Unsettled,
         attempts[a].status = "PREPARED" => result = "FAILED"
  PROVE  Ledger!CanUpdate(a, result, ids, Ledger!Status)
<1>1. result \in Ledger!Allowed(attempts[a].status)
  BY DEF Ledger!Allowed, Ledger!Unsettled, Answer
<1>2. Ledger!IdsAgree(attempts[a].ids, ids)
  BY DEF Ledger!IdsAgree, OnRecord, Plain
<1> QED BY <1>1, <1>2 DEF Ledger!CanUpdate, Ledger!Unsettled, Ledger!Status

\* However stale the row an outcome was computed from, the ledger refuses it only
\* for a row that somebody settled since: the identifiers a poll or a reconciliation
\* carries are on record for good, and PREPARED is left before anything is answered.
THEOREM NoLostOutcome == Spec => []OnlySettledRefuses
<1>1. Init => Answers
  BY LedgerAssumption
  DEF Init, Ledger!Init, Ledger!NoAttempt, Ledger!NoIds, NewExec, NewRec, Answers, Plain,
      ExecAnswers, RecAnswers
<1>2. IInv /\ Answers => OnlySettledRefuses
  <2> SUFFICES ASSUME IInv, Answers PROVE OnlySettledRefuses
    OBVIOUS
  <2>1. ASSUME NEW e \in Executor
        PROVE  Accepted(exec[e], e)
    BY AnswerAccepted DEF Answers, ExecAnswers, Accepted
  <2>2. ASSUME NEW r \in Reconciler
        PROVE  Accepted(rec[r], rec[r].att)
    <3>1. rec[r].pc = "recording" => rec[r].att \in Executor
      BY DEF IInv, RecFollows
    <3> QED BY <3>1, AnswerAccepted DEF Answers, RecAnswers, Accepted
  <2> QED BY <2>1, <2>2 DEF OnlySettledRefuses
<1> QED BY <1>1, <1>2, AnswersStep, Invariance, PTL DEF Spec

-----------------------------------------------------------------------------
(* Dead ends. *)

\* A plan whose attempt is open is neither stored again, nor reserved, nor written
\* for another attempt: its row moves with the attempt only.
LEMMA PlanRowMoves ==
  ASSUME IInv, LP!IInv, [Next]_vars, NEW a \in Executor,
         attempts[a].status \in Ledger!Unsettled
  PROVE  plans'[attempts[a].plan] = plans[attempts[a].plan] \/ Writes(a)
<1> DEFINE k == attempts[a].plan
<1>1. k \in LogicalKey /\ plans \in [LogicalKey -> Ledger!Plan]
  BY Typed, Local DEF RowsWellFormed, Ledger!AttemptRow, Ledger!Unsettled, Ledger!TypeOK
<1>2. a \in LP!AttemptsOf(k) /\ LP!Live(a)
  BY DEF LP!AttemptsOf, LP!Live, LP!Obstructs, LP!Unsettled, Ledger!Unsettled
<1>3. plans[k].status = attempts[a].status
  BY <1>1, <1>2 DEF LP!IInv, LP!PlanMirrorsAttempts
<1>4. a \in Ledger!AttemptsOf(k) /\ Ledger!Obstructs(a)
  BY DEF Ledger!AttemptsOf, Ledger!Obstructs
<1> HIDE DEF k
<1>5. ASSUME NEW b \in Executor, Writes(b), b # a
      PROVE  plans'[k] = plans[k]
  <2>1. PICK status \in Ledger!Status, ids \in Ledger!Ids,
             expected \in {{"PREPARED"}, Ledger!Status} :
          Ledger!Update(b, status, ids, expected)
    BY <1>5 DEF Writes
  <2>2. attempts[b].status \in Open
        /\ plans' = [plans EXCEPT ![attempts[b].plan] =
                       [status |-> status, created |-> plans[attempts[b].plan].created]]
    BY <2>1, Typed, UpdateRow DEF Ledger!Update
  <2>3. ASSUME attempts[b].plan = k
        PROVE  FALSE
    <3>1. b \in LP!AttemptsOf(k) /\ LP!Live(b)
      BY <2>2, <2>3 DEF LP!AttemptsOf, LP!Live, LP!Obstructs, LP!Unsettled, Open
    <3> QED BY <1>1, <1>2, <1>5, <3>1 DEF LP!IInv, LP!OneLiveAttempt
  <2> QED BY <1>1, <2>2, <2>3
<1>6. ASSUME NEW b \in Executor, Inserts(b)
      PROVE  plans'[k] = plans[k]
  <2>1. PICK j \in LogicalKey : Ledger!ReserveNew(j, b) \/ Ledger!ReserveNoop(j, b)
    BY <1>6 DEF Inserts
  <2>2. Ledger!ReserveNew(j, b) => j # k
    BY <1>4 DEF Ledger!ReserveNew, Ledger!CanReserve
  <2> QED BY <1>1, <2>1, <2>2 DEF Ledger!ReserveNew, Ledger!ReserveNoop
<1>7. ASSUME Stores
      PROVE  plans'[k] = plans[k]
  <2>1. plans[k].status # "ABSENT" /\ ~ Ledger!Refreshable(k)
    BY <1>3, <1>4 DEF Ledger!Unsettled, Ledger!Refreshable
  <2> QED BY <1>1, <1>7, <2>1 DEF Stores, Ledger!SavePlan
<1>8. plans'[k] = plans[k] \/ Writes(a)
  BY <1>5, <1>6, <1>7, TableMoves
<1> QED BY <1>8 DEF k

LEMMA DeadEndStep ==
  ASSUME IInv, LP!IInv, [Next]_vars, NEW a \in Executor, DeadEnd(a)
  PROVE  /\ attempts'[a] = attempts[a] /\ DeadEnd(a)'
         /\ plans'[attempts[a].plan] = plans[attempts[a].plan]
<1>1. /\ exec[a].pc = "done" /\ attempts[a].status \in Ledger!Unsettled
      /\ attempts[a].status # "PREPARED" /\ attempts[a].ids["work"] = None
  BY DEF DeadEnd
<1>2. ~ Writes(a)
  BY <1>1 DEF Writes
<1>3. attempts'[a] = attempts[a] /\ plans'[attempts[a].plan] = plans[attempts[a].plan]
  BY <1>1, <1>2, RowMoves, PlanRowMoves
<1>4. exec'[a] = exec[a]
  <2>1. ~ ExecutorStep(a) /\ ~ CrashExecutor(a)
    BY <1>1
    DEF ExecutorStep, ReadPlan, GateCheck, Reserve, Recheck, Probe, EnterBoundary, SendDraft,
        DraftReply, RecordDraft, SendUpload, UploadReply, RecordUpload, Poll, Classify, Record,
        Audit, CrashExecutor
  <2> QED BY <2>1, OthersStay
<1> QED BY <1>1, <1>3, <1>4 DEF DeadEnd, Ledger!Unsettled

\* Nobody touches an attempt, or its plan, that was left open without an import
\* work on record: not reconcile, which does not know what to ask, not a later
\* execute or create_plan, since the attempt keeps the plan from them.
THEOREM DeadEndsAreLeft == Spec => DeadEndsStay
<1>1. IInv /\ LP!IInv /\ [Next]_vars =>
        [\A a \in Executor : DeadEnd(a) =>
           /\ attempts'[a] = attempts[a] /\ DeadEnd(a)'
           /\ plans'[attempts[a].plan] = plans[attempts[a].plan]]_vars
  BY DeadEndStep
<1> QED BY <1>1, Invariance, TablesInvariance, PTL DEF Spec, DeadEndsStay

-----------------------------------------------------------------------------
(* execute ends. *)

LEMMA Stages ==
  /\ Stage["start"] = 16 /\ Stage["gate"] = 15 /\ Stage["gated"] = 14
  /\ Stage["reserved"] = 13 /\ Stage["checked"] = 12 /\ Stage["probed"] = 11
  /\ Stage["submitted"] = 10 /\ Stage["drafting"] = 9 /\ Stage["drafted"] = 8
  /\ Stage["staged"] = 7 /\ Stage["uploading"] = 6 /\ Stage["uploaded"] = 5
  /\ Stage["polling"] = 4 /\ Stage["definite"] = 3 /\ Stage["ambiguous"] = 3
  /\ Stage["recording"] = 2 /\ Stage["auditing"] = 1 /\ Stage["done"] = 0
BY DEF Stage

\* From here on only the rounds that are left count.
Late == {"polling", "definite", "ambiguous", "recording", "auditing", "done"}

\* A step forward: to a later stage, or to the next round of polling.
Forward(e) ==
  \/ /\ Stage[exec'[e].pc] < Stage[exec[e].pc]
     /\ {exec[e].pc, exec'[e].pc} \subseteq Late => exec'[e].polls <= exec[e].polls
  \/ /\ exec[e].pc = "polling" /\ exec'[e].pc = "polling"
     /\ exec'[e].polls = exec[e].polls - 1

LEMMA ForwardCounts ==
  ASSUME IInv, IInv', NEW e \in Executor, Forward(e)
  PROVE  StepsLeft(e)' < StepsLeft(e)
<1>1. /\ exec[e].pc \in ExecPC /\ exec[e].polls \in 0..PollAttempts
      /\ exec'[e].pc \in ExecPC /\ exec'[e].polls \in 0..PollAttempts
  BY DEF IInv, TypeOK
<1>2. \A pc \in ExecPC : Stage[pc] \in Nat /\ (pc \in Late <=> Stage[pc] <= 4)
  BY Stages DEF ExecPC, Late
<1>3. /\ StepsLeft(e) = Stage[exec[e].pc] +
                        IF exec[e].pc \in Late THEN exec[e].polls ELSE PollAttempts
      /\ StepsLeft(e)' = Stage[exec'[e].pc] +
                         IF exec'[e].pc \in Late THEN exec'[e].polls ELSE PollAttempts
  BY DEF StepsLeft, Late
<1>4. PollAttempts \in Nat
  BY ServiceAssumption
<1>5. CASE /\ Stage[exec'[e].pc] < Stage[exec[e].pc]
           /\ {exec[e].pc, exec'[e].pc} \subseteq Late => exec'[e].polls <= exec[e].polls
  <2>1. CASE exec[e].pc \in Late
    <3>1. exec'[e].pc \in Late
      BY <1>1, <1>2, <1>5, <2>1
    <3> QED BY <1>1, <1>2, <1>3, <1>5, <2>1, <3>1
  <2>2. CASE exec[e].pc \notin Late
    <3>1. (IF exec'[e].pc \in Late THEN exec'[e].polls ELSE PollAttempts) \in 0..PollAttempts
      BY <1>1, <1>4
    <3> QED BY <1>1, <1>2, <1>3, <1>4, <1>5, <2>2, <3>1
  <2> QED BY <2>1, <2>2
<1>6. CASE /\ exec[e].pc = "polling" /\ exec'[e].pc = "polling"
           /\ exec'[e].polls = exec[e].polls - 1
  BY <1>1, <1>2, <1>3, <1>6, Stages DEF Late
<1> QED BY <1>5, <1>6 DEF Forward

\* What leaves execute early leads forward from everywhere before it.
LEMMA ForwardEnds ==
  ASSUME IInv, NEW e \in Executor,
         \/ Finish(e) /\ exec[e].pc # "done"
         \/ /\ exec[e].pc \notin {"recording", "auditing", "done"}
            /\ \/ Fail(e)
               \/ \E s \in Ledger!Status, ids \in Ledger!Ids : Conclude(e, s, ids)
         \/ /\ exec[e].pc \notin {"definite", "ambiguous", "recording", "auditing", "done"}
            /\ Goto(e, "definite") \/ Goto(e, "ambiguous")
  PROVE  Forward(e)
<1>1. exec[e].pc \in ExecPC /\ exec[e].polls \in 0..PollAttempts /\ PollAttempts \in Nat
  BY Local, ServiceAssumption DEF ExecState
<1>2. CASE Finish(e) /\ exec[e].pc # "done"
  BY <1>1, <1>2, Typed, FinishShape, Stages DEF Forward, ExecPC
<1>3. CASE /\ exec[e].pc \notin {"recording", "auditing", "done"}
           /\ exec'[e].pc = "recording" /\ exec'[e].polls = 0
  BY <1>1, <1>3, Stages DEF Forward, ExecPC
<1>4. CASE /\ exec[e].pc \notin {"definite", "ambiguous", "recording", "auditing", "done"}
           /\ exec'[e].pc \in {"definite", "ambiguous"} /\ exec'[e].polls = exec[e].polls
  BY <1>1, <1>4, Stages DEF Forward, ExecPC
<1>5. ASSUME NEW pc \in {"definite", "ambiguous"}, Goto(e, pc)
      PROVE  exec'[e].pc = pc /\ exec'[e].polls = exec[e].polls
  BY <1>5, Typed, GotoShape DEF ExecPC, Keeps
<1>6. ASSUME Fail(e) \/ \E s \in Ledger!Status, ids \in Ledger!Ids : Conclude(e, s, ids)
      PROVE  exec'[e].pc = "recording" /\ exec'[e].polls = 0
  BY <1>6, Typed, FailShape, ConcludeShape
<1> QED BY <1>2, <1>3, <1>4, <1>5, <1>6

LEMMA ForwardStep ==
  ASSUME IInv, NEW e \in Executor, ExecutorStep(e)
  PROVE  Forward(e)
<1>1. /\ exec[e].pc \in ExecPC /\ exec[e].polls \in 0..PollAttempts /\ PollAttempts \in Nat
      /\ exec[e].ids \in Ledger!Ids /\ Ledger!NoIds \in Ledger!Ids
      /\ {"FAILED", "UNKNOWN", "PARTIAL"} \subseteq Ledger!Status
  BY Local, ServiceAssumption DEF ExecState, Ledger!NoIds, Ledger!Ids, Ledger!Status
<1>2. ASSUME NEW pc \in ExecPC \ Late, Goto(e, pc) \/ exec'[e].pc = pc,
             Stage[pc] < Stage[exec[e].pc]
      PROVE  Forward(e)
  <2>1. exec'[e].pc = pc
    BY <1>2, Typed, GotoShape DEF Keeps
  <2> QED BY <1>2, <2>1 DEF Forward
<1>3. CASE \E k \in LogicalKey : ReadPlan(e, k)
  <2>1. PICK k \in LogicalKey : ReadPlan(e, k)
    BY <1>3
  <2>2. exec[e].pc = "start"
    BY <2>1 DEF ReadPlan
  <2>3. CASE exec' = [exec EXCEPT ![e].pc = "gate", ![e].key = k]
    <3>1. exec'[e].pc = "gate"
      BY <2>3, Typed DEF ExecState
    <3> QED BY <2>2, <3>1, Stages DEF Forward, Late
  <2> QED BY <2>1, <2>3 DEF ReadPlan
<1>4. CASE Reserve(e)
  <2>1. exec' = [exec EXCEPT ![e].pc = "reserved", ![e].seen = snapshot]
          => exec'[e].pc = "reserved"
    BY Typed DEF ExecState
  <2> QED BY <1>2, <1>4, <2>1, ForwardEnds, Stages DEF Reserve, ExecPC, Late
<1>5. CASE GateCheck(e) \/ Recheck(e) \/ Probe(e) \/ EnterBoundary(e) \/ SendDraft(e)
           \/ RecordDraft(e) \/ SendUpload(e)
  BY <1>2, <1>5, ForwardEnds, Stages
  DEF GateCheck, Recheck, Probe, EnterBoundary, SendDraft, RecordDraft, SendUpload, Progress,
      ExecPC, Late
<1>6. CASE DraftReply(e) \/ UploadReply(e)
  <2>1. ASSUME NEW request, MutationFails(e, request)
        PROVE  Forward(e)
    <3>1. exec[e].pc \in {"drafting", "uploading"}
      BY <1>6 DEF DraftReply, UploadReply
    <3> QED BY <2>1, <3>1, ForwardEnds DEF MutationFails
  <2>2. CASE exec[e].pc = "drafting" /\ exec'[e].pc = "drafted"
    BY <2>2, Stages DEF Forward, Late
  <2>3. CASE exec[e].pc = "uploading" /\ exec'[e].pc = "uploaded"
    BY <2>3, Stages DEF Forward, Late
  <2>4. ASSUME NEW id, exec' = [exec EXCEPT ![e].pc = "drafted", ![e].ids["draft"] = id]
        PROVE  exec'[e].pc = "drafted"
    BY <2>4, Typed DEF ExecState
  <2>5. ASSUME NEW file, NEW work,
               exec' = [exec EXCEPT ![e].pc = "uploaded", ![e].ids["file"] = file,
                                    ![e].ids["work"] = work]
        PROVE  exec'[e].pc = "uploaded"
    BY <2>5, Typed DEF ExecState
  <2>6. CASE DraftReply(e)
    BY <2>1, <2>2, <2>4, <2>6 DEF DraftReply
  <2>7. CASE UploadReply(e)
    BY <2>1, <2>3, <2>5, <2>7 DEF UploadReply
  <2> QED BY <1>6, <2>6, <2>7
<1>7. CASE RecordUpload(e)
  <2>1. exec[e].pc = "uploaded"
    BY <1>7 DEF RecordUpload
  <2>2. ASSUME exec' = [exec EXCEPT ![e].pc = "polling", ![e].polls = PollAttempts]
        PROVE  Forward(e)
    <3>1. PollAttempts \in 1..PollAttempts
      BY ServiceAssumption
    <3>2. exec'[e].pc = "polling"
      BY <2>2, <3>1, Typed, PollShape
    <3> QED BY <2>1, <3>2, Stages DEF Forward, Late
  <2> QED BY <1>1, <1>7, <2>1, <2>2, ForwardEnds DEF RecordUpload, Progress
<1>8. CASE Poll(e)
  <2>1. exec[e].pc = "polling" /\ exec[e].polls # 0
    BY <1>8, Local DEF Poll, Follows, KnowsIds
  <2>2. ASSUME exec[e].polls # 1, exec' = [exec EXCEPT ![e].polls = @ - 1]
        PROVE  Forward(e)
    BY <2>1, <2>2, Typed, RoundShape DEF Forward
  <2>3. ASSUME NEW s \in WorkAnswers(e), Conclude(e, s, exec[e].ids)
        PROVE  Forward(e)
    BY <1>1, <2>1, <2>3, WorkAnswer, ForwardEnds
  <2>4. CASE Goto(e, "definite") \/ Fail(e)
    BY <2>1, <2>4, ForwardEnds
  <2> QED BY <1>8, <2>2, <2>3, <2>4 DEF Poll
<1>9. CASE Classify(e)
  <2>1. exec[e].pc \in {"definite", "ambiguous"}
    BY <1>9 DEF Classify
  <2>2. PICK s \in {"FAILED", "UNKNOWN", "PARTIAL"} : Conclude(e, s, Ledger!NoIds)
    BY <1>9 DEF Classify
  <2> QED BY <1>1, <2>1, <2>2, ForwardEnds
<1>10. CASE Record(e)
  <2>1. ASSUME exec' = [exec EXCEPT ![e].pc = "auditing", ![e].ids = Ledger!NoIds]
        PROVE  exec'[e].pc = "auditing" /\ exec'[e].polls = exec[e].polls
    BY <1>1, <2>1, Typed, IdsShape DEF ExecPC
  <2> QED BY <1>1, <1>10, <2>1, ForwardEnds, Stages DEF Record, Forward
<1>11. CASE Audit(e)
  BY <1>11, ForwardEnds DEF Audit
<1> QED BY <1>3, <1>4, <1>5, <1>6, <1>7, <1>8, <1>9, <1>10, <1>11 DEF ExecutorStep

\* Every step of execute, its death included, brings it closer to its end, however
\* the others interleave: 16 stages and as many rounds of polling as configured
\* bound it.
THEOREM ExecuteIsBounded == Spec => ExecuteProgresses
<1>1. ASSUME IInv, [Next]_vars, NEW e \in Executor, ExecutorStep(e) \/ exec'[e] # exec[e]
      PROVE  StepsLeft(e)' < StepsLeft(e)
  <2>1. IInv'
    BY <1>1, InvStep
  <2>2. ExecutorStep(e) \/ CrashExecutor(e)
    BY <1>1, OthersStay
  <2>3. CrashExecutor(e) => Forward(e)
    BY <1>1, ForwardEnds DEF CrashExecutor
  <2> QED BY <1>1, <2>1, <2>2, <2>3, ForwardStep, ForwardCounts
<1>2. IInv /\ [Next]_vars =>
        [\A e \in Executor : ExecutorStep(e) \/ exec'[e] # exec[e]
           => StepsLeft(e)' < StepsLeft(e)]_vars
  BY <1>1
<1> QED BY <1>2, Invariance, PTL DEF Spec, ExecuteProgresses

\* The measure counts down to nought, and execute has ended when it is there.
THEOREM StepsLeftIsNatural == Spec => [](\A e \in Executor : StepsLeft(e) \in Nat)
<1>1. IInv => \A e \in Executor : StepsLeft(e) \in Nat
  <2> SUFFICES ASSUME IInv, NEW e \in Executor PROVE StepsLeft(e) \in Nat
    OBVIOUS
  <2>1. exec[e].pc \in ExecPC /\ exec[e].polls \in Nat /\ PollAttempts \in Nat
    BY Local, ServiceAssumption DEF ExecState
  <2>2. Stage[exec[e].pc] \in Nat
    BY <2>1, Stages DEF ExecPC
  <2> QED BY <2>1, <2>2 DEF StepsLeft
<1> QED BY <1>1, Invariance, PTL

-----------------------------------------------------------------------------
(* No blind retry. *)

\* A row with a remote identifier that is not PREPARED stays so, whatever is
\* recorded.
LEMMA UpdateKeepsTrace ==
  ASSUME IInv, NEW e \in Executor, NEW status \in Ledger!Status, NEW ids \in Ledger!Ids,
         NEW expected, Ledger!Update(e, status, ids, expected),
         status # "FAILED" \/ Ledger!HasRemoteId(e)
  PROVE  Ledger!Live(e)' /\ attempts'[e].status # "PREPARED"
<1>1. /\ attempts'[e].status = status /\ status \in Outcome
      /\ \A f \in Ledger!IdField : attempts[e].ids[f] # None => attempts'[e].ids[f] # None
  BY Typed, UpdateRow
<1> QED BY <1>1 DEF Ledger!Live, Ledger!Obstructs, Ledger!Unsettled, Ledger!HasRemoteId, Outcome

\* What Traced says is stable while nothing it depends on moves.
LEMMA TracedStill ==
  ASSUME NEW e \in Executor, Traced(e), attempts' = attempts,
         remote'[e].draft = remote[e].draft, exec'[e].pc \notin {"definite", "recording"}
  PROVE  Traced(e)'
BY DEF Traced, Ledger!Live, Ledger!Obstructs, Ledger!HasRemoteId

\* Giving up after a lost answer, or altogether, fails nothing.
LEMMA TracedEnds ==
  ASSUME IInv, NEW e \in Executor, Traced(e), UNCHANGED <<tables, remote>>,
         Finish(e) \/ Goto(e, "ambiguous")
  PROVE  Traced(e)'
<1>1. attempts' = attempts /\ remote'[e].draft = remote[e].draft
  BY DEF tables
<1>2. exec'[e].pc \in {"done", "ambiguous"}
  BY Typed, FinishShape, GotoShape DEF ExecPC, Keeps
<1> QED BY <1>1, <1>2, TracedStill

LEMMA TracedFail ==
  ASSUME IInv, NEW e \in Executor, Traced(e), UNCHANGED <<tables, trail, remote>>,
         Finish(e) \/ Fail(e) \/ Goto(e, "definite") \/ Goto(e, "ambiguous"),
         remote[e].draft # "none" /\ (Fail(e) \/ Goto(e, "definite"))
           => attempts[e].ids["draft"] # None
  PROVE  Traced(e)'
<1>1. attempts'[e] = attempts[e] /\ remote'[e] = remote[e]
  BY DEF tables
<1>2. \/ exec'[e].pc \in {"done", "ambiguous"}
      \/ exec'[e].pc = "definite" /\ Goto(e, "definite")
      \/ exec'[e].pc = "recording" /\ exec'[e].result = "FAILED" /\ Fail(e)
  BY Typed, FinishShape, FailShape, GotoShape DEF ExecPC, Keeps
<1> QED BY <1>1, <1>2 DEF Traced, Ledger!Live, Ledger!Obstructs, Ledger!HasRemoteId, Ledger!IdField

LEMMA TracedExecutor ==
  ASSUME IInv, ~ MalformedReplies, NEW e \in Executor, Traced(e), ExecutorStep(e)
  PROVE  Traced(e)'
<1>1. /\ Follows(e) /\ exec[e].ids \in Ledger!Ids /\ exec[e].key \in LogicalKey
      /\ exec[e].polls \in 0..PollAttempts
      /\ Ledger!NoIds \in Ledger!Ids
      /\ {"SUBMITTED", "PROCESSING", "UNKNOWN", "PARTIAL", "FAILED"} \subseteq Ledger!Status
      /\ remote[e] \in RemoteState
  BY Local DEF ExecState, Ledger!NoIds, Ledger!Ids, Ledger!Status
<1>2. CASE exec[e].pc \in {"start", "gate", "gated", "reserved", "checked", "probed"}
  <2>1. remote'[e].draft = "none"
    BY <1>1, <1>2, RequestStep DEF Follows, RemoteFollows, BeforeRequests, NoRemote, Next
  <2> QED BY <2>1 DEF Traced
<1>3. CASE SendDraft(e)
  <2>1. exec[e].pc = "submitted" /\ remote[e] = NoRemote
    BY <1>1, <1>3 DEF SendDraft, Follows, RemoteFollows, BeforeRequests
  <2>2. CASE Goto(e, "drafting") /\ UNCHANGED tables
    <3>1. exec'[e].pc = "drafting"
      BY <2>2, Typed, GotoShape DEF ExecPC, Keeps
    <3>2. attempts'[e].status = "SUBMITTED"
      BY <1>1, <2>1, <2>2 DEF Follows, RowFollows, tables
    <3> QED BY <3>1, <3>2 DEF Traced, Ledger!Live, Ledger!Obstructs, Ledger!Unsettled
  <2>3. CASE remote' = remote
    BY <2>1, <2>3 DEF Traced, NoRemote
  <2> QED BY <1>3, <2>2, <2>3 DEF SendDraft
<1>4. CASE DraftReply(e) \/ UploadReply(e)
  <2>1. UNCHANGED <<tables, trail, remote>>
    BY <1>4 DEF DraftReply, UploadReply
  <2>2. CASE Goto(e, "ambiguous")
    BY <2>1, <2>2, TracedEnds
  <2>3. CASE exec'[e].pc \in {"drafted", "uploaded"}
    <3>1. attempts' = attempts /\ remote'[e].draft = remote[e].draft
      BY <2>1 DEF tables
    <3> QED BY <2>3, <3>1, TracedStill
  <2>4. ASSUME NEW id \in {GoodId, BadId},
               exec' = [exec EXCEPT ![e].pc = "drafted", ![e].ids["draft"] = id]
        PROVE  exec'[e].pc = "drafted"
    BY <2>4, Typed DEF ExecState
  <2>5. ASSUME NEW file, NEW work,
               exec' = [exec EXCEPT ![e].pc = "uploaded", ![e].ids["file"] = file,
                                    ![e].ids["work"] = work]
        PROVE  exec'[e].pc = "uploaded"
    BY <2>5, Typed DEF ExecState
  <2> QED BY <1>4, <2>2, <2>3, <2>4, <2>5 DEF DraftReply, UploadReply, MutationFails
<1>5. ASSUME NEW status \in {"PROCESSING", "SUBMITTED"}, UNCHANGED <<trail, remote>>,
             Ledger!Update(e, status, exec[e].ids, Ledger!Status),
             exec'[e].pc \in {"staged", "recording", "polling"},
             exec'[e].pc = "recording" => exec'[e].result = "UNKNOWN"
      PROVE  Traced(e)'
  BY <1>1, <1>5, UpdateKeepsTrace DEF Traced
<1>6. CASE RecordDraft(e) \/ RecordUpload(e)
  <2>1. Goto(e, "staged") => exec'[e].pc = "staged"
    BY Typed, GotoShape DEF ExecPC, Keeps
  <2>2. Conclude(e, "UNKNOWN", exec[e].ids) =>
          exec'[e].pc = "recording" /\ exec'[e].result = "UNKNOWN"
    BY <1>1, Typed, ConcludeShape
  <2>3. exec' = [exec EXCEPT ![e].pc = "polling", ![e].polls = PollAttempts] =>
          exec'[e].pc = "polling"
    <3>1. PollAttempts \in 1..PollAttempts
      BY ServiceAssumption
    <3> QED BY <3>1, Typed, PollShape
  <2>4. CASE Goto(e, "ambiguous") /\ UNCHANGED <<tables, trail, remote>>
    BY <2>4, TracedEnds
  <2> QED BY <1>5, <1>6, <2>1, <2>2, <2>3, <2>4 DEF RecordDraft, RecordUpload, Progress
<1>7. CASE SendUpload(e)
  <2>1. UNCHANGED <<tables, trail>> /\ attempts[e].ids["draft"] # None
    BY <1>1, <1>7 DEF SendUpload, Follows, RowFollows
  <2>2. CASE Goto(e, "uploading") /\ remote' = [remote EXCEPT ![e].upload = "sent"]
    <3>1. exec'[e].pc = "uploading"
      BY <2>2, Typed, GotoShape DEF ExecPC, Keeps
    <3>2. remote'[e].draft = remote[e].draft
      BY <1>1, <2>2, Typed DEF RemoteState
    <3>3. attempts' = attempts
      BY <2>1 DEF tables
    <3> QED BY <3>1, <3>2, <3>3, TracedStill
  <2>3. CASE Goto(e, "definite") /\ UNCHANGED remote
    BY <2>1, <2>3, TracedFail
  <2> QED BY <1>7, <2>2, <2>3 DEF SendUpload
<1>8. CASE Poll(e)
  <2>1. UNCHANGED <<tables, trail, remote>> /\ attempts[e].ids["draft"] # None
        /\ exec[e].pc = "polling"
    BY <1>1, <1>8 DEF Poll, Follows, RowFollows
  <2>2. ASSUME exec'[e].pc \in {"recording", "polling"}
        PROVE  Traced(e)'
    BY <2>1, <2>2 DEF Traced, Ledger!Live, Ledger!Obstructs, Ledger!HasRemoteId, tables,
                      Ledger!IdField
  <2>3. ASSUME NEW s \in WorkAnswers(e), Conclude(e, s, exec[e].ids)
        PROVE  exec'[e].pc = "recording"
    BY <1>1, <2>3, Typed, WorkAnswer, ConcludeShape
  <2>4. ASSUME exec' = [exec EXCEPT ![e].polls = @ - 1]
        PROVE  exec'[e].pc = "polling"
    BY <2>1, <2>4, Typed DEF ExecState
  <2>5. CASE Goto(e, "definite") \/ Fail(e)
    BY <2>1, <2>5, TracedFail
  <2> QED BY <1>8, <2>2, <2>3, <2>4, <2>5 DEF Poll
<1>9. CASE Classify(e)
  <2>1. attempts'[e] = attempts[e] /\ remote'[e] = remote[e]
    BY <1>9 DEF Classify, tables
  <2>2. PICK s \in {"FAILED", "UNKNOWN", "PARTIAL"} :
          /\ Conclude(e, s, Ledger!NoIds)
          /\ s = "FAILED" => \/ attempts[e].status = "PREPARED"
                             \/ exec[e].pc = "definite" /\ attempts[e].ids["draft"] = None
    BY <1>9 DEF Classify
  <2>3. exec'[e].pc = "recording" /\ exec'[e].result = s
    BY <1>1, <2>2, Typed, ConcludeShape
  <2> QED BY <2>1, <2>2, <2>3 DEF Traced, Ledger!Live, Ledger!Obstructs, Ledger!HasRemoteId
<1>10. CASE Record(e)
  <2>1. CASE /\ Ledger!Update(e, exec[e].result, exec[e].ids, Ledger!Status)
             /\ exec' = [exec EXCEPT ![e].pc = "auditing", ![e].ids = Ledger!NoIds]
    <3>1. /\ exec[e].result \in Ledger!Status /\ UNCHANGED remote
          /\ exec[e].pc = "recording"
      BY <1>1, <1>10 DEF Record, Follows, KnowsIds
    <3>2. exec'[e].pc = "auditing"
      BY <1>1, <2>1, Typed, IdsShape DEF ExecPC
    <3>3. ASSUME remote[e].draft # "none"
          PROVE  Ledger!Live(e)' /\ attempts'[e].status # "PREPARED"
      BY <1>1, <2>1, <3>1, <3>3, UpdateKeepsTrace DEF Traced
    <3> QED BY <3>1, <3>2, <3>3 DEF Traced
  <2>2. CASE Finish(e) /\ UNCHANGED <<tables, trail, remote>>
    BY <2>2, TracedEnds
  <2> QED BY <1>10, <2>1, <2>2 DEF Record
<1>11. CASE Audit(e)
  BY <1>11, TracedEnds DEF Audit
<1> QED BY <1>2, <1>3, <1>4, <1>6, <1>7, <1>8, <1>9, <1>10, <1>11
        DEF ExecutorStep, ReadPlan, GateCheck, Reserve, Recheck, Probe, EnterBoundary

\* Nobody else's step takes the trace away.
LEMMA TracedFrame ==
  ASSUME NEW e \in Executor, Traced(e), exec'[e] = exec[e], attempts'[e] = attempts[e],
         remote'[e].draft # "none" => remote[e].draft # "none"
  PROVE  Traced(e)'
BY DEF Traced, Ledger!Live, Ledger!Obstructs, Ledger!HasRemoteId

LEMMA TracedAnswer ==
  ASSUME IInv, NEW e \in Executor, Traced(e), NEW status \in Ledger!Status,
         NEW ids \in Ledger!Ids, Ledger!Update(e, status, ids, Ledger!Status),
         Ledger!HasRemoteId(e), UNCHANGED <<exec, remote>>
  PROVE  Traced(e)'
<1>1. \A f \in Ledger!IdField : attempts[e].ids[f] # None => attempts'[e].ids[f] # None
  BY Typed, UpdateRow
<1>2. Ledger!Live(e)' /\ attempts'[e].status # "PREPARED"
  BY UpdateKeepsTrace
<1> QED BY <1>1, <1>2 DEF Traced, Ledger!HasRemoteId, Ledger!IdField

LEMMA TracedReconciler ==
  ASSUME IInv, NEW e \in Executor, Traced(e), NEW r \in Reconciler, ReconcilerStep(r)
  PROVE  Traced(e)'
<1> DEFINE b == rec[r].att
<1>1. exec' = exec /\ remote' = remote
  BY DEF ReconcilerStep
<1>2. CASE UNCHANGED tables
  BY <1>1, <1>2, TracedFrame DEF tables
<1>3. CASE Abandon(r) /\ Ledger!Update(b, "FAILED", Ledger!NoIds, {"PREPARED"})
  <2>1. b \in Executor /\ "FAILED" \in Ledger!Status /\ Ledger!NoIds \in Ledger!Ids
    BY <1>3 DEF Abandon, IInv, RecFollows, Ledger!Status, Ledger!NoIds, Ledger!Ids
  <2>2. attempts[b].status = "PREPARED" /\ \A f \in Executor \ {b} : attempts'[f] = attempts[f]
    BY <1>3, <2>1, Typed, UpdateRow DEF OnlyRow
  <2>3. CASE b = e
    BY <1>1, <2>2, <2>3 DEF Traced
  <2>4. CASE b # e
    BY <1>1, <2>2, <2>4, TracedFrame
  <2> QED BY <2>3, <2>4
<1>4. CASE RecordAnswer(r) /\ Ledger!Update(b, rec[r].result, rec[r].ids, Ledger!Status)
  <2>1. /\ b \in Executor /\ rec[r].result \in Ledger!Status /\ rec[r].ids \in Ledger!Ids
        /\ Ledger!HasRemoteId(b)
    BY <1>4, Typed
    DEF RecordAnswer, IInv, RecFollows, RecState, Ledger!HasRemoteId, Ledger!IdField
  <2>2. b # e => attempts'[e] = attempts[e]
    BY <1>4, <2>1, Typed, UpdateRow DEF OnlyRow
  <2>3. CASE b = e
    BY <1>1, <1>4, <2>1, <2>3, TracedAnswer
  <2>4. CASE b # e
    BY <1>1, <2>2, <2>4, TracedFrame
  <2> QED BY <2>3, <2>4
<1> QED BY <1>2, <1>3, <1>4
        DEF ReconcilerStep, ReadAttempt, Abandon, AskWork, RecordAnswer, AuditAnswer

LEMMA TracedStep ==
  ASSUME IInv, ~ MalformedReplies, NEW e \in Executor, Traced(e), [Next]_vars
  PROVE  Traced(e)'
<1>1. ASSUME NEW f \in Executor, ExecutorStep(f)
      PROVE  Traced(e)'
  <2>1. CASE f = e
    BY <1>1, <2>1, TracedExecutor
  <2>2. CASE f # e
    BY <1>1, <2>2, ExecutorMoves, TracedFrame DEF Effect, OnlyRow, Moved, RemoteMoved
  <2> QED BY <2>1, <2>2
<1>2. ASSUME NEW f \in Executor, RemoteStep(f) \/ FinishWork(f)
      PROVE  Traced(e)'
  <2>1. exec' = exec /\ attempts' = attempts
    BY <1>2 DEF RemoteStep, FinishWork, tables
  <2>2. remote'[e].draft # "none" => remote[e].draft # "none"
    <3>1. CASE f # e
      BY <1>2, <3>1, RemoteMoves DEF Effect, RemoteMoved
    <3>2. CASE f = e /\ remote[e].draft # "none"
      BY <3>2
    <3>3. CASE f = e /\ remote[e].draft = "none"
      BY <1>2, <3>3, RequestStep, Typed DEF RemoteStep, FinishWork, RemoteState
    <3> QED BY <3>1, <3>2, <3>3
  <2> QED BY <2>1, <2>2, TracedFrame
<1>3. ASSUME NEW r \in Reconciler, ReconcilerStep(r)
      PROVE  Traced(e)'
  BY <1>3, TracedReconciler
<1>4. ASSUME NEW f \in Executor, CrashExecutor(f)
      PROVE  Traced(e)'
  <2>1. UNCHANGED <<tables, remote>> /\ Finish(f)
    BY <1>4 DEF CrashExecutor
  <2>2. CASE f = e
    BY <2>1, <2>2, TracedEnds
  <2>3. CASE f # e
    BY <2>1, <2>3, Typed, FinishShape, TracedFrame DEF Moved, tables
  <2> QED BY <2>2, <2>3
<1>5. ASSUME NEW p \in Planner, PlannerMoves(p)
      PROVE  UNCHANGED <<attempts, exec, remote>>
  BY <1>5, PlannerEffect
<1>6. ASSUME UNCHANGED <<attempts, exec, remote>>
      PROVE  Traced(e)'
  BY <1>6, TracedFrame
<1> QED BY <1>1, <1>2, <1>3, <1>4, <1>5, <1>6
        DEF Next, PlannerMoves, Tick, Ledger!Tick, Review, CrashReconciler, vars, tables

LEMMA TracedInvariance ==
  ASSUME ~ MalformedReplies
  PROVE  Spec => [](\A e \in Executor : Traced(e))
<1> DEFINE AllTraced == \A e \in Executor : Traced(e)
<1>1. Init => AllTraced
  BY DEF Init, NoRemote, Traced
<1>2. IInv /\ AllTraced /\ [Next]_vars => AllTraced'
  BY TracedStep
<1> HIDE DEF AllTraced
<1>3. Spec => []AllTraced
  BY <1>1, <1>2, Invariance, PTL DEF Spec
<1> QED BY <1>3 DEF AllTraced

\* When every answer to a mutation is usable, an attempt whose create-draft went
\* out keeps its claim: no path of execute or reconcile classifies it as failed
\* without a trace.
THEOREM ClaimKept == ASSUME ~ MalformedReplies PROVE Spec => []RequestKeepsClaim
<1>1. (\A e \in Executor : Traced(e)) => RequestKeepsClaim
  BY DEF Traced, RequestKeepsClaim
<1> QED BY <1>1, TracedInvariance, PTL

\* No blind retry: then at most one create-draft leaves for a plan, over any
\* number of executors, crashes, lost answers and reconciliations.
THEOREM OneDraft == ASSUME ~ MalformedReplies PROVE Spec => []OneDraftPerPlan
<1>1. IInv /\ LP!IInv /\ RequestKeepsClaim => OneDraftPerPlan
  <2> SUFFICES ASSUME IInv, LP!IInv, RequestKeepsClaim, NEW e \in Executor, NEW f \in Executor,
                      remote[e].draft # "none", remote[f].draft # "none",
                      attempts[e].plan = attempts[f].plan
               PROVE  e = f
    BY DEF OneDraftPerPlan
  <2>1. LP!Live(e) /\ LP!Live(f) /\ attempts[e].status # "ABSENT"
    BY DEF RequestKeepsClaim, Ledger!Live, Ledger!Obstructs, Ledger!Unsettled,
           Ledger!HasRemoteId, Ledger!IdField, LP!Live, LP!Obstructs, LP!Unsettled,
           LP!HasRemoteId, LP!IdField
  <2>2. attempts[e].plan \in LogicalKey
    BY <2>1, Local DEF IInv, RowsWellFormed, Ledger!AttemptRow
  <2>3. e \in LP!AttemptsOf(attempts[e].plan) /\ f \in LP!AttemptsOf(attempts[e].plan)
    BY DEF LP!AttemptsOf
  <2> QED BY <2>1, <2>2, <2>3 DEF LP!IInv, LP!OneLiveAttempt
<1> QED BY <1>1, ClaimKept, Invariance, TablesInvariance, PTL

-----------------------------------------------------------------------------
(* The trail of the plans. *)

\* An owed event is written or lost, so a plan stays named.
LEMMA AuditedStays ==
  ASSUME IInv, [Next]_vars, NEW k, NEW created, Audited(k, created)
  PROVE  Audited(k, created)'
<1> DEFINE all == planTrail \cup lost \cup UNION {OwedByPlanner(p) : p \in Planner}
<1>1. all \subseteq all'
  <2>1. ASSUME NEW p \in Planner, PlannerMoves(p)
        PROVE  all \subseteq all'
    <3>1. \A q \in Planner \ {p} : OwedByPlanner(q)' = OwedByPlanner(q)
      BY <2>1, PlannerEffect DEF PlannerMoved, OwedByPlanner
    <3>2. /\ planTrail \subseteq planTrail' /\ lost \subseteq lost'
          /\ OwedByPlanner(p) \subseteq planTrail' \cup lost'
      BY <2>1
      DEF PlannerMoves, PlannerStep, BuildPlan, PeekPlan, SavePlan, AuditPlan, CrashPlanner,
          OwedByPlanner
    <3> QED BY <3>1, <3>2
  <2>2. ASSUME planTrail' = planTrail, planner' = planner, lost \subseteq lost'
        PROVE  all \subseteq all'
    <3>1. \A q \in Planner : OwedByPlanner(q)' = OwedByPlanner(q)
      BY <2>2 DEF OwedByPlanner
    <3> QED BY <2>2, <3>1
  <2> HIDE DEF all
  <2> QED BY <2>1, <2>2
          DEF Next, PlannerMoves, Tick, Review, ExecutorStep, RemoteStep, FinishWork,
              ReconcilerStep, CrashExecutor, CrashReconciler, vars
<1> QED BY <1>1 DEF Audited

\* Only a planner makes a plan appear or gives it another digest.
LEMMA NoPlanAppears ==
  ASSUME IInv, LP!IInv,
         \/ \E e \in Executor : ExecutorUse(e)
         \/ \E r \in Reconciler : ReconcilerUse(r),
         NEW k \in LogicalKey, plans'[k].status # "ABSENT"
  PROVE  plans[k].status # "ABSENT" /\ plans'[k].created = plans[k].created
<1>1. plans \in [LogicalKey -> Ledger!Plan]
  BY Typed DEF Ledger!TypeOK
<1>2. ASSUME NEW e \in Executor, NEW j \in LogicalKey,
             Ledger!ReserveNew(j, e) \/ Ledger!ReserveNoop(j, e)
      PROVE  plans[k].status # "ABSENT" /\ plans'[k].created = plans[k].created
  BY <1>1, <1>2 DEF Ledger!ReserveNew, Ledger!ReserveNoop, Ledger!CanReserve
<1>3. ASSUME NEW e \in Executor, NEW status \in Ledger!Status, NEW ids \in Ledger!Ids,
             NEW expected, Ledger!Update(e, status, ids, expected)
      PROVE  plans[k].status # "ABSENT" /\ plans'[k].created = plans[k].created
  <2>1. plans' = [plans EXCEPT ![attempts[e].plan] =
                    [status |-> status, created |-> plans[attempts[e].plan].created]]
    BY <1>3 DEF Ledger!Update
  <2>2. attempts[e].status \in Open
    BY <1>3, Typed, UpdateRow
  <2>3. CASE k = attempts[e].plan
    <3>1. e \in LP!AttemptsOf(k) /\ LP!Live(e)
      BY <2>2, <2>3 DEF LP!AttemptsOf, LP!Live, LP!Obstructs, LP!Unsettled, Open
    <3>2. plans[k].status = attempts[e].status
      BY <3>1 DEF LP!IInv, LP!PlanMirrorsAttempts
    <3> QED BY <1>1, <2>1, <2>2, <2>3, <3>2 DEF Open
  <2>4. CASE k # attempts[e].plan
    BY <1>1, <2>1, <2>4
  <2> QED BY <2>3, <2>4
<1> QED BY <1>2, <1>3 DEF ExecutorUse, ReconcilerUse, tables

LEMMA PlansAuditedPlanner ==
  ASSUME IInv, PlansAudited, NEW p \in Planner, PlannerMoves(p), [Next]_vars
  PROVE  PlansAudited'
<1>1. \A k, created : Audited(k, created) => Audited(k, created)'
  BY AuditedStays
<1>2. PlannerMoved(p) /\ planner[p] \in PlannerState /\ planner[p].key \in LogicalKey
      /\ plans \in [LogicalKey -> Ledger!Plan]
  BY PlannerEffect, PlannerTypes, Typed DEF PlannerState, Ledger!TypeOK
<1>3. ASSUME NEW q \in Planner, q # p, planner'[q].pc = "peeked", planner'[q].previous # None
      PROVE  Audited(planner[q].key, planner[q].previous)'
  <2>1. planner'[q] = planner[q]
    BY <1>2, <1>3 DEF PlannerMoved
  <2>2. Audited(planner[q].key, planner[q].previous)
    BY <1>3, <2>1 DEF PlansAudited
  <2> QED BY <1>1, <2>1, <2>2 DEF Audited
<1>4. CASE plans' = plans /\ ~ PeekPlan(p)
  <2>1. \A k \in LogicalKey : plans'[k].status # "ABSENT" => Audited(k, plans[k].created)'
    BY <1>1, <1>4 DEF PlansAudited, Audited
  <2>2. planner'[p].pc # "peeked"
    BY <1>4, BuildPlanShape, SavePlanShape, PlannerDone
    DEF PlannerMoves, PlannerStep, AuditPlan, CrashPlanner
  <2> QED BY <1>3, <2>1, <2>2 DEF PlansAudited
<1>5. CASE PeekPlan(p)
  <2>1. plans' = plans
    BY <1>5 DEF PeekPlan, tables
  <2>2. \A k \in LogicalKey : plans'[k].status # "ABSENT" => Audited(k, plans[k].created)'
    BY <1>1, <2>1 DEF PlansAudited, Audited
  <2>3. ASSUME planner'[p].previous # None
        PROVE  Audited(planner[p].key, planner[p].previous)'
    <3>1. /\ plans[planner[p].key].status # "ABSENT"
          /\ planner'[p].previous = plans[planner[p].key].created
          /\ planner'[p].key = planner[p].key
      BY <1>5, <2>3, PeekPlanShape
    <3>2. Audited(planner[p].key, plans[planner[p].key].created)
      BY <1>2, <3>1 DEF PlansAudited
    <3> QED BY <1>1, <3>1, <3>2 DEF Audited
  <2> QED BY <1>3, <2>2, <2>3 DEF PlansAudited
<1>6. CASE SavePlan(p)
  <2>. PICK k \in LogicalKey : k = planner[p].key
    BY <1>2
  <2>1. planner'[p].pc # "peeked"
    BY <1>6, SavePlanShape
  <2>2. \A j \in LogicalKey \ {k} : plans'[j] = plans[j]
    BY <1>2, <1>6 DEF SavePlan, Ledger!SavePlan
  <2>3. ASSUME NEW j \in LogicalKey, plans'[j].status # "ABSENT", j # k
        PROVE  Audited(j, plans[j].created)'
    <3>1. Audited(j, plans[j].created) /\ plans'[j] = plans[j]
      BY <2>2, <2>3 DEF PlansAudited
    <3> QED BY <1>1, <3>1 DEF Audited
  <2>4. ASSUME plans'[k].status # "ABSENT"
        PROVE  Audited(k, plans[k].created)' /\ planner'[p].pc # "peeked"
    <3>1. CASE planner[p].previous = plans'[k].created
      <4>1. plans'[k].created \in Nat
        BY <1>2, <1>6, SavePlanShape DEF Ledger!TypeOK, Ledger!Plan
      <4>2. planner[p].pc = "peeked" /\ planner[p].previous # None
        BY <1>6, <3>1, <4>1, LedgerAssumption DEF SavePlan
      <4>3. Audited(k, planner[p].previous)
        BY <4>2 DEF PlansAudited
      <4> QED BY <1>1, <2>1, <3>1, <4>3 DEF Audited
    <3>2. CASE /\ planner'[p].pc = "saved" /\ planner'[p].key = k
               /\ planner'[p].created = plans'[k].created
      <4> DEFINE event == [event |-> IF planner'[p].previous = None THEN "created" ELSE "refreshed",
                           key |-> k, created |-> plans'[k].created]
      <4>1. event \in OwedByPlanner(p)' /\ event.key = k /\ event.created = plans'[k].created
        BY <3>2 DEF OwedByPlanner
      <4>2. event \in PlanEvent
        BY <1>2, <1>6, SavePlanShape DEF Ledger!TypeOK, Ledger!Plan, PlanEvent
      <4> HIDE DEF event
      <4> QED BY <1>2, <2>1, <4>1, <4>2 DEF Audited, PlanEvent
    <3> QED BY <1>6, <3>1, <3>2, SavePlanShape
  <2> QED BY <1>3, <2>1, <2>3, <2>4 DEF PlansAudited
<1> QED BY <1>4, <1>5, <1>6
        DEF PlannerMoves, PlannerStep, BuildPlan, AuditPlan, CrashPlanner, tables

LEMMA PlansAuditedStep == IInv /\ LP!IInv /\ PlansAudited /\ [Next]_vars => PlansAudited'
<1> SUFFICES ASSUME IInv, LP!IInv, PlansAudited, [Next]_vars PROVE PlansAudited'
  OBVIOUS
<1>1. \A k, created : Audited(k, created) => Audited(k, created)'
  BY AuditedStays
<1>2. ASSUME planner' = planner,
             \A k \in LogicalKey : plans'[k].status # "ABSENT" =>
               plans[k].status # "ABSENT" /\ plans'[k].created = plans[k].created
      PROVE  PlansAudited'
  <2>1. ASSUME NEW k \in LogicalKey, plans'[k].status # "ABSENT"
        PROVE  Audited(k, plans[k].created)'
    <3>1. Audited(k, plans[k].created) /\ plans'[k].created = plans[k].created
      BY <1>2, <2>1 DEF PlansAudited
    <3> QED BY <1>1, <3>1 DEF Audited
  <2>2. ASSUME NEW p \in Planner, planner'[p].pc = "peeked", planner'[p].previous # None
        PROVE  Audited(planner[p].key, planner[p].previous)'
    <3>1. Audited(planner[p].key, planner[p].previous) /\ planner'[p] = planner[p]
      BY <1>2, <2>2 DEF PlansAudited
    <3> QED BY <1>1, <3>1 DEF Audited
  <2> QED BY <2>1, <2>2 DEF PlansAudited
<1>3. ASSUME NEW p \in Planner, PlannerMoves(p)
      PROVE  PlansAudited'
  BY <1>3, PlansAuditedPlanner
<1>4. ASSUME NEW e \in Executor, ExecutorStep(e)
      PROVE  PlansAudited'
  BY <1>2, <1>4, ExecutorUses, NoPlanAppears DEF ExecutorStep
<1>5. ASSUME NEW r \in Reconciler, ReconcilerStep(r)
      PROVE  PlansAudited'
  BY <1>2, <1>5, ReconcilerUses, NoPlanAppears DEF ReconcilerStep
<1>6. ASSUME UNCHANGED <<plans, planner>>
      PROVE  PlansAudited'
  BY <1>2, <1>6
<1> QED BY <1>3, <1>4, <1>5, <1>6
        DEF Next, PlannerMoves, Tick, Ledger!Tick, Review, RemoteStep, FinishWork,
            CrashExecutor, CrashReconciler, vars, tables

\* However planners race for one plan, the digest that is stored, which an
\* operator can confirm, is named in the trail unless the planner that owed the
\* event died before it wrote it.
THEOREM PlansAreTold == Spec => []PlanIsAudited
<1>1. Init => PlansAudited
  BY DEF Init, Ledger!Init, Ledger!NoPlan, NewPlanner, PlansAudited
<1>2. PlansAudited => PlanIsAudited
  BY DEF PlansAudited, Audited, PlanIsAudited
<1> QED BY <1>1, <1>2, PlansAuditedStep, Invariance, TablesInvariance, PTL DEF Spec
=============================================================================
