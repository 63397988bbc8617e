---------------------------- MODULE DeliveryService ----------------------------
(***************************************************************************)
(* The processes that use the delivery tables (delivery/service.py with    *)
(* delivery/transport.py): planners run create_plan, executors run         *)
(* execute, reconcilers run reconcile, analysts record reviews, and        *)
(* OpenCTI answers late, badly or not at all.  Every step below is one     *)
(* database transaction, one read, or one half of a network exchange;      *)
(* between any two of them every other process may move, and any process   *)
(* may die.                                                                *)
(*                                                                         *)
(* Planner and executor processes run one command and end, as the CLI      *)
(* does.  A reconciler stands for an operator who may repeat the command.  *)
(* An executor reserves at most one attempt, under a fresh uuid4, so the   *)
(* attempt goes by the name of its executor.                               *)
(*                                                                         *)
(* XFault is a plausible wrong version of X that the model never uses: the *)
(* README says which property notices it.                                  *)
(***************************************************************************)
EXTENDS Naturals, FiniteSets

CONSTANTS
  Executor,          \* processes running execute
  Reconciler,        \* processes running reconcile
  Planner,           \* processes running create_plan
  MaxReviews,        \* bound on the reviews recorded
  BlockedKey,        \* review snapshots whose assessment has blockers
  PollAttempts,      \* config.poll_attempts
  GoodId, BadId,     \* remote identifiers the ledger accepts, refuses
  None, Ttl, MaxTime,
  MalformedReplies   \* may OpenCTI answer a mutation without a usable id?

\* The case, the policy, the profile and the configuration are fixed, so the
\* logical key of a plan is its review snapshot, and every review moves it.
LogicalKey == 0..MaxReviews

ASSUME ServiceAssumption ==
  /\ MaxReviews \in Nat /\ PollAttempts \in Nat \ {0}
  /\ MalformedReplies \in BOOLEAN

ASSUME LedgerAssumption ==
  /\ BlockedKey \subseteq LogicalKey /\ Ttl \in Nat \ {0} /\ MaxTime \in Nat
  /\ None \notin {GoodId, BadId} /\ None \notin Nat

VARIABLES
  now, plans, attempts,   \* the delivery tables
  snapshot,               \* review snapshot of the stored case
  planTrail,              \* audit events opencti.plan.created, .refreshed
  trail,                  \* audit events opencti.delivery.status
  planner, exec, rec,     \* control state of the processes
  remote,                 \* what OpenCTI did for each attempt
  lost                    \* auxiliary: events of both trails a dead process owed

tables == <<now, plans, attempts>>
vars == <<tables, snapshot, planTrail, trail, planner, exec, rec, remote, lost>>

Ledger == INSTANCE DeliveryLedger WITH
  Attempt <- Executor, RemoteId <- {GoodId, BadId}, OddId <- {BadId}

-----------------------------------------------------------------------------
(* State of the processes *)

PlannerPC == {"start", "built", "peeked", "saved", "done"}

ExecPC == {"start", "gate", "gated", "reserved", "checked", "probed",
           "submitted", "drafting", "drafted", "staged", "uploading",
           "uploaded", "polling", "definite", "ambiguous", "recording",
           "auditing", "done"}

RecPC == {"start", "abandoning", "asking", "recording", "auditing"}

\* No outcome computed yet.
Pending == "PENDING"

NewPlanner == [pc |-> "start", key |-> 0, created |-> 0, previous |-> None]

\* key: of the plan the gates returned.  seen: auxiliary, the review snapshot
\* when the reservation was made.
NewExec == [pc |-> "start", key |-> 0, seen |-> None,
            ids |-> Ledger!NoIds, result |-> Pending, polls |-> 0]

NewRec == [pc |-> "start", att |-> None, ids |-> Ledger!NoIds,
           result |-> Pending]

\* What OpenCTI was asked and did: the two mutations and the import work.
NoRemote == [draft |-> "none", upload |-> "none", work |-> "none"]

Request == {"none", "sent", "done", "refused"}

Event == [attempt : Executor, status : Ledger!Status]

\* The payload names the plan by id and digest.
PlanEvent == [event : {"created", "refreshed"}, key : LogicalKey, created : Nat]

TypeOK ==
  /\ Ledger!TypeOK
  /\ snapshot \in LogicalKey
  /\ planTrail \subseteq PlanEvent
  /\ trail \subseteq Event /\ lost \subseteq Event \cup PlanEvent
  /\ planner \in [Planner -> [pc : PlannerPC, key : LogicalKey, created : Nat,
                              previous : Nat \cup {None}]]
  /\ exec \in [Executor -> [pc : ExecPC, key : LogicalKey, seen : LogicalKey \cup {None},
                            ids : Ledger!Ids,
                            result : Ledger!Status \cup {Pending},
                            polls : 0..PollAttempts]]
  /\ rec \in [Reconciler -> [pc : RecPC, att : Executor \cup {None},
                             ids : Ledger!Ids,
                             result : Ledger!Status \cup {Pending}]]
  /\ remote \in [Executor -> [draft : Request, upload : Request,
                              work : {"none", "running", "complete", "errors"}]]

Init ==
  /\ Ledger!Init
  /\ snapshot = 0
  /\ planTrail = {} /\ trail = {} /\ lost = {}
  /\ planner = [p \in Planner |-> NewPlanner]
  /\ exec = [e \in Executor |-> NewExec]
  /\ rec = [r \in Reconciler |-> NewRec]
  /\ remote = [e \in Executor |-> NoRemote]

-----------------------------------------------------------------------------
(* The environment: time and analysts. *)

Tick ==
  /\ Ledger!Tick
  /\ UNCHANGED <<snapshot, planTrail, trail, planner, exec, rec, remote, lost>>

\* add_review: the review becomes part of the review snapshot.
Review ==
  /\ snapshot < MaxReviews
  /\ snapshot' = snapshot + 1
  /\ UNCHANGED <<tables, planTrail, trail, planner, exec, rec, remote, lost>>

-----------------------------------------------------------------------------
(* create_plan *)

\* Read and assess the case, take the time, compute key and digest.
BuildPlan(p) ==
  /\ planner[p].pc = "start"
  /\ planner' = [planner EXCEPT ![p] =
       [@ EXCEPT !.pc = "built", !.key = snapshot, !.created = now]]
  /\ UNCHANGED <<tables, snapshot, planTrail, trail, exec, rec, remote, lost>>

\* previous = get_delivery_plan(...)
PeekPlan(p) ==
  /\ planner[p].pc = "built"
  /\ LET row == plans[planner[p].key] IN
       planner' = [planner EXCEPT ![p].pc = "peeked", ![p].previous =
                     IF row.status = "ABSENT" THEN None ELSE row.created]
  /\ UNCHANGED <<tables, snapshot, planTrail, trail, exec, rec, remote, lost>>

\* Owes an event only for a plan it did not find when it looked.
SavePlanFault(p) ==
  /\ planner[p].pc = "peeked"
  /\ Ledger!SavePlan(planner[p].key, planner[p].created)
  /\ planner' = [planner EXCEPT ![p] =
       IF planner[p].previous # None
         THEN [NewPlanner EXCEPT !.pc = "done"]
         ELSE [@ EXCEPT !.pc = "saved", !.created = plans'[planner[p].key].created]]
  /\ UNCHANGED <<snapshot, planTrail, trail, exec, rec, remote, lost>>

\* save_delivery_plan.  The plan it returns, which may be the one another
\* planner stored, decides whether an event is owed, and is what it names.
SavePlan(p) ==
  /\ planner[p].pc = "peeked"
  /\ Ledger!SavePlan(planner[p].key, planner[p].created)
  /\ planner' = [planner EXCEPT ![p] =
       IF planner[p].previous = plans'[planner[p].key].created
         THEN [NewPlanner EXCEPT !.pc = "done"]
         ELSE [@ EXCEPT !.pc = "saved", !.created = plans'[planner[p].key].created]]
  /\ UNCHANGED <<snapshot, planTrail, trail, exec, rec, remote, lost>>

OwedByPlanner(p) ==
  IF planner[p].pc # "saved" THEN {}
  ELSE {[event   |-> IF planner[p].previous = None THEN "created" ELSE "refreshed",
         key     |-> planner[p].key,
         created |-> planner[p].created]}

AuditPlan(p) ==
  /\ planner[p].pc = "saved"
  /\ planTrail' = planTrail \cup OwedByPlanner(p)
  /\ planner' = [planner EXCEPT ![p] = [NewPlanner EXCEPT !.pc = "done"]]
  /\ UNCHANGED <<tables, snapshot, trail, exec, rec, remote, lost>>

PlannerStep(p) == BuildPlan(p) \/ PeekPlan(p) \/ SavePlan(p) \/ AuditPlan(p)

-----------------------------------------------------------------------------
(* execute.  ExecutorStep adds what no executor touches. *)

Goto(e, pc) == exec' = [exec EXCEPT ![e].pc = pc]

Finish(e) == exec' = [exec EXCEPT ![e] = [NewExec EXCEPT !.pc = "done"]]

\* Leave the delivery with an outcome that update_delivery_attempt is to record.
Conclude(e, result, ids) ==
  exec' = [exec EXCEPT ![e].pc = "recording", ![e].result = result,
                       ![e].ids = ids, ![e].polls = 0]

\* Gate, configuration and destination errors: the first except clause.
Fail(e) == Conclude(e, "FAILED", Ledger!NoIds)

\* _execution_gates, the reading of the plan row: the operator confirms the
\* stored digest, the plan is PREPARED and not expired, or SUCCEEDED.
ReadPlan(e, k) ==
  /\ exec[e].pc = "start"
  /\ \/ plans[k].status = "PREPARED" /\ now <= Ledger!Expires(k)
     \/ plans[k].status = "SUCCEEDED"
  /\ exec' = [exec EXCEPT ![e].pc = "gate", ![e].key = k]
  /\ UNCHANGED <<tables, trail, remote>>

\* _execution_gates, the fresh assessment of the case.
GateCheck(e) ==
  /\ exec[e].pc = "gate"
  /\ IF snapshot = exec[e].key THEN Goto(e, "gated") ELSE Finish(e)
  /\ UNCHANGED <<tables, trail, remote>>

\* reserve_delivery_attempt by plan id only: neither the digest nor the expiry
\* that the gates looked at is looked at again.
Reserve(e) ==
  LET k == exec[e].key IN
  /\ exec[e].pc = "gated"
  /\ \/ /\ Ledger!ReserveNew(k, e)
        /\ exec' = [exec EXCEPT ![e].pc = "reserved", ![e].seen = snapshot]
     \/ Ledger!ReserveNoop(k, e) /\ Finish(e)
     \/ /\ ~ Ledger!CanReserve(k) /\ (Ledger!Delivered(k) => Ledger!NoopsOf(k) # {})
        /\ Finish(e)
        /\ UNCHANGED tables
  /\ UNCHANGED <<trail, remote>>

\* Trusts the assessment made before the reservation.
RecheckFault(e) ==
  /\ exec[e].pc = "reserved"
  /\ Goto(e, "checked")
  /\ UNCHANGED <<tables, trail, remote>>

\* Second assessment, now that the attempt excludes other executors.
Recheck(e) ==
  /\ exec[e].pc = "reserved"
  /\ IF snapshot = exec[e].key THEN Goto(e, "checked") ELSE Fail(e)
  /\ UNCHANGED <<tables, trail, remote>>

\* adapter.probe and the comparison of capabilities: a query, no mutation.
Probe(e) ==
  /\ exec[e].pc = "checked"
  /\ Goto(e, "probed") \/ Fail(e) \/ Goto(e, "definite")
  /\ UNCHANGED <<tables, trail, remote>>

\* Carries on when the compare-and-set is refused.
EnterBoundaryFault(e) ==
  /\ exec[e].pc = "probed"
  /\ Goto(e, "submitted")
  /\ \/ Ledger!Update(e, "SUBMITTED", Ledger!NoIds, {"PREPARED"})
     \/ ~ Ledger!CanUpdate(e, "SUBMITTED", Ledger!NoIds, {"PREPARED"}) /\ UNCHANGED tables
  /\ UNCHANGED <<trail, remote>>

\* The mutation boundary: PREPARED to SUBMITTED, if it still is PREPARED.
EnterBoundary(e) ==
  /\ exec[e].pc = "probed"
  /\ \/ /\ Ledger!Update(e, "SUBMITTED", Ledger!NoIds, {"PREPARED"})
        /\ Goto(e, "submitted")
     \/ /\ ~ Ledger!CanUpdate(e, "SUBMITTED", Ledger!NoIds, {"PREPARED"})
        /\ Finish(e)
        /\ UNCHANGED tables
  /\ UNCHANGED <<trail, remote>>

\* deliver: preconditions and destination, then the create-draft request, or a
\* failure to connect before its first byte.
SendDraft(e) ==
  /\ exec[e].pc = "submitted"
  /\ \/ remote' = [remote EXCEPT ![e].draft = "sent"] /\ Goto(e, "drafting")
     \/ (Fail(e) \/ Goto(e, "definite")) /\ UNCHANGED remote
  /\ UNCHANGED <<tables, trail>>

\* Treats a lost answer as a request that was never made.
MutationFailsFault(e, request) == Goto(e, "definite")

\* How a mutation can come back.  _request makes every failure after the first
\* byte ambiguous, an error answer included; an answer without a usable
\* identifier is judged by deliver, outside _request, and stays definite.
MutationFails(e, request) ==
  \/ Goto(e, "ambiguous")
  \/ MalformedReplies /\ request \in {"done", "refused"} /\ Goto(e, "definite")

DraftReply(e) ==
  /\ exec[e].pc = "drafting"
  /\ \/ /\ remote[e].draft = "done"
        /\ \E id \in {GoodId, BadId} :
             exec' = [exec EXCEPT ![e].pc = "drafted", ![e].ids["draft"] = id]
     \/ MutationFails(e, remote[e].draft)
  /\ UNCHANGED <<tables, trail, remote>>

\* progress(): record what is known, or turn the refusal of the ledger into
\* the ambiguous DELIVERY_PERSISTENCE_UNKNOWN.
Progress(e, status, next) ==
  \/ Ledger!Update(e, status, exec[e].ids, Ledger!Status) /\ next
  \/ /\ ~ Ledger!CanUpdate(e, status, exec[e].ids, Ledger!Status)
     /\ Goto(e, "ambiguous")
     /\ UNCHANGED tables

RecordDraft(e) ==
  /\ exec[e].pc = "drafted"
  /\ Progress(e, "PROCESSING", Goto(e, "staged"))
  /\ UNCHANGED <<trail, remote>>

SendUpload(e) ==
  /\ exec[e].pc = "staged"
  /\ \/ remote' = [remote EXCEPT ![e].upload = "sent"] /\ Goto(e, "uploading")
     \/ Goto(e, "definite") /\ UNCHANGED remote
  /\ UNCHANGED <<tables, trail>>

\* The answer names the file and may or may not name an import work.
UploadReply(e) ==
  /\ exec[e].pc = "uploading"
  /\ \/ /\ remote[e].upload = "done"
        /\ \E file \in {GoodId, BadId}, work \in {GoodId, None} :
             exec' = [exec EXCEPT ![e].pc = "uploaded", ![e].ids["file"] = file,
                                  ![e].ids["work"] = work]
     \/ MutationFails(e, remote[e].upload)
  /\ UNCHANGED <<tables, trail, remote>>

RecordUpload(e) ==
  /\ exec[e].pc = "uploaded"
  /\ Progress(e, "SUBMITTED",
       IF exec[e].ids["work"] = None
         THEN Conclude(e, "UNKNOWN", exec[e].ids)
         ELSE exec' = [exec EXCEPT ![e].pc = "polling", ![e].polls = PollAttempts])
  /\ UNCHANGED <<trail, remote>>

\* Takes a work that is still running for a complete one.
WorkAnswersFault(e) ==
  {"UNKNOWN", IF remote[e].work = "errors" THEN "FAILED" ELSE "SUCCEEDED"}

\* StrictOpenCTIAdapter.reconcile: what one work query can say.
WorkAnswers(e) ==
  {"UNKNOWN"} \cup
  CASE remote[e].work = "complete" -> {"SUCCEEDED"}
    [] remote[e].work = "errors"   -> {"FAILED"}
    [] OTHER                       -> {"PROCESSING"}

\* Polls for as long as the work is running.
PollFault(e) ==
  /\ exec[e].pc = "polling"
  /\ \E s \in WorkAnswers(e) :
       IF s \in {"SUCCEEDED", "FAILED"}
         THEN Conclude(e, s, exec[e].ids)
         ELSE exec' = [exec EXCEPT ![e].polls = IF @ = 1 THEN PollAttempts ELSE @ - 1]
  /\ UNCHANGED <<tables, trail, remote>>

\* One round of the bounded poll loop.  The query is no mutation, so a
\* transport error is definite; the destination is resolved anew each time and
\* may be refused.
Poll(e) ==
  /\ exec[e].pc = "polling"
  /\ \/ \E s \in WorkAnswers(e) :
          IF s \in {"SUCCEEDED", "FAILED"} \/ exec[e].polls = 1
            THEN Conclude(e, s, exec[e].ids)
            ELSE exec' = [exec EXCEPT ![e].polls = @ - 1]
     \/ Goto(e, "definite")
     \/ Fail(e)
  /\ UNCHANGED <<tables, trail, remote>>

\* except OpenCTITransportError: re-read the attempt and choose its status.
Classify(e) ==
  /\ exec[e].pc \in {"definite", "ambiguous"}
  /\ Conclude(e,
       IF attempts[e].status = "PREPARED" THEN "FAILED"
       ELSE IF exec[e].pc = "ambiguous" THEN "UNKNOWN"
       ELSE IF attempts[e].ids["draft"] # None THEN "PARTIAL"
       ELSE "FAILED", Ledger!NoIds)
  /\ UNCHANGED <<tables, trail, remote>>

\* Returns the outcome without an audit event.
RecordFault(e) ==
  /\ exec[e].pc = "recording"
  /\ Ledger!Update(e, exec[e].result, exec[e].ids, Ledger!Status)
  /\ Finish(e)
  /\ UNCHANGED <<trail, remote>>

\* Writes the outcome over whatever the row says by now.
RecordBlindFault(e) ==
  /\ exec[e].pc = "recording"
  /\ attempts' = [attempts EXCEPT ![e].status = exec[e].result]
  /\ exec' = [exec EXCEPT ![e].pc = "auditing", ![e].ids = Ledger!NoIds]
  /\ UNCHANGED <<now, plans, trail, remote>>

\* The final update_delivery_attempt of execute, on any of its three paths.  A
\* refusal is not caught: the process ends without an audit event.
Record(e) ==
  /\ exec[e].pc = "recording"
  /\ \/ /\ Ledger!Update(e, exec[e].result, exec[e].ids, Ledger!Status)
        /\ exec' = [exec EXCEPT ![e].pc = "auditing", ![e].ids = Ledger!NoIds]
     \/ /\ ~ Ledger!CanUpdate(e, exec[e].result, exec[e].ids, Ledger!Status)
        /\ Finish(e)
        /\ UNCHANGED tables
  /\ UNCHANGED <<trail, remote>>

\* _audit_attempt
Audit(e) ==
  /\ exec[e].pc = "auditing"
  /\ trail' = trail \cup {[attempt |-> e, status |-> exec[e].result]}
  /\ Finish(e)
  /\ UNCHANGED <<tables, remote>>

\* The steps of one execute in the order the code takes them.
ExecutorStep(e) ==
  /\ \/ \E k \in LogicalKey : ReadPlan(e, k)
     \/ GateCheck(e) \/ Reserve(e) \/ Recheck(e) \/ Probe(e) \/ EnterBoundary(e)
     \/ SendDraft(e) \/ DraftReply(e) \/ RecordDraft(e)
     \/ SendUpload(e) \/ UploadReply(e) \/ RecordUpload(e)
     \/ Poll(e) \/ Classify(e) \/ Record(e) \/ Audit(e)
  /\ UNCHANGED <<snapshot, planTrail, planner, rec, lost>>

-----------------------------------------------------------------------------
(* OpenCTI (external): a request is carried out or refused, perhaps long after *)
(* its sender gave up; the import work it started ends one way or the other.   *)

RemoteStep(e) ==
  /\ \/ /\ remote[e].draft = "sent"
        /\ \E outcome \in {"done", "refused"} :
             remote' = [remote EXCEPT ![e].draft = outcome]
     \/ /\ remote[e].upload = "sent"
        /\ \/ remote' = [remote EXCEPT ![e].upload = "done", ![e].work = "running"]
           \/ remote' = [remote EXCEPT ![e].upload = "refused"]
  /\ UNCHANGED <<tables, snapshot, planTrail, trail, planner, exec, rec, lost>>

FinishWork(e) ==
  /\ remote[e].work = "running"
  /\ \E outcome \in {"complete", "errors"} :
       remote' = [remote EXCEPT ![e].work = outcome]
  /\ UNCHANGED <<tables, snapshot, planTrail, trail, planner, exec, rec, lost>>

-----------------------------------------------------------------------------
(* reconcile *)

EndRec(r) == rec' = [rec EXCEPT ![r] = NewRec]

\* Refuses to reconcile an unknown outcome.
ReadAttemptFault(r, a) ==
  /\ rec[r].pc = "start"
  /\ attempts[a].status \in Ledger!Unsettled \ {"PREPARED", "UNKNOWN"}
  /\ attempts[a].ids["work"] # None
  /\ rec' = [rec EXCEPT ![r].pc = "asking", ![r].att = a, ![r].ids = attempts[a].ids]
  /\ UNCHANGED <<tables, trail>>

\* Asks for the outcome of any open attempt.
ReadAttemptBlindFault(r, a) ==
  /\ rec[r].pc = "start"
  /\ attempts[a].status \in Ledger!Unsettled
  /\ rec' = [rec EXCEPT ![r].pc = IF attempts[a].status = "PREPARED" THEN "abandoning" ELSE "asking",
                        ![r].att = a, ![r].ids = attempts[a].ids]
  /\ UNCHANGED <<tables, trail>>

\* Read the attempt.  A settled one, or an open one without a work identifier,
\* ends the command with an error and no change.
ReadAttempt(r, a) ==
  /\ rec[r].pc = "start"
  /\ \/ /\ attempts[a].status = "PREPARED"
        /\ rec' = [rec EXCEPT ![r].pc = "abandoning", ![r].att = a]
     \/ /\ attempts[a].status \in Ledger!Unsettled \ {"PREPARED"}
        /\ attempts[a].ids["work"] # None
        /\ rec' = [rec EXCEPT ![r].pc = "asking", ![r].att = a,
                              ![r].ids = attempts[a].ids]
  /\ UNCHANGED <<tables, trail>>

\* Gives up an attempt that was PREPARED when it was read.
AbandonFault(r) ==
  /\ rec[r].pc = "abandoning"
  /\ Ledger!Update(rec[r].att, "FAILED", Ledger!NoIds, Ledger!Status)
  /\ EndRec(r)
  /\ UNCHANGED trail

\* Give up a reservation that never reached the mutation boundary.
Abandon(r) ==
  LET a == rec[r].att IN
  /\ rec[r].pc = "abandoning"
  /\ \/ Ledger!Update(a, "FAILED", Ledger!NoIds, {"PREPARED"})
     \/ /\ ~ Ledger!CanUpdate(a, "FAILED", Ledger!NoIds, {"PREPARED"})
        /\ UNCHANGED tables
  /\ EndRec(r)
  /\ UNCHANGED trail

\* Probe and ask for the work; a network failure ends the command.
AskWork(r) ==
  /\ rec[r].pc = "asking"
  /\ \/ \E s \in WorkAnswers(rec[r].att) :
          rec' = [rec EXCEPT ![r].pc = "recording", ![r].result = s]
     \/ EndRec(r)
  /\ UNCHANGED <<tables, trail>>

\* Record the answer for the identifiers read at the start; a refusal of the
\* ledger, the attempt having moved meanwhile, ends the command.
RecordAnswer(r) ==
  LET me == rec[r] IN
  /\ me.pc = "recording"
  /\ \/ /\ Ledger!Update(me.att, me.result, me.ids, Ledger!Status)
        /\ rec' = [rec EXCEPT ![r].pc = "auditing", ![r].ids = Ledger!NoIds]
     \/ /\ ~ Ledger!CanUpdate(me.att, me.result, me.ids, Ledger!Status)
        /\ EndRec(r)
        /\ UNCHANGED tables
  /\ UNCHANGED trail

AuditAnswer(r) ==
  /\ rec[r].pc = "auditing"
  /\ trail' = trail \cup {[attempt |-> rec[r].att, status |-> rec[r].result]}
  /\ EndRec(r)
  /\ UNCHANGED tables

ReconcilerStep(r) ==
  /\ \/ \E a \in Executor : ReadAttempt(r, a)
     \/ Abandon(r) \/ AskWork(r) \/ RecordAnswer(r) \/ AuditAnswer(r)
  /\ UNCHANGED <<snapshot, planTrail, planner, exec, remote, lost>>

-----------------------------------------------------------------------------
(* A process dies, or a database error no clause catches ends it. *)

Owed(process, a) ==
  IF process.pc = "auditing" THEN {[attempt |-> a, status |-> process.result]} ELSE {}

CrashExecutor(e) ==
  /\ exec[e].pc \notin {"start", "done"}
  /\ lost' = lost \cup Owed(exec[e], e)
  /\ Finish(e)
  /\ UNCHANGED <<tables, snapshot, planTrail, trail, planner, rec, remote>>

CrashReconciler(r) ==
  /\ rec[r].pc # "start"
  /\ lost' = lost \cup Owed(rec[r], rec[r].att)
  /\ EndRec(r)
  /\ UNCHANGED <<tables, snapshot, planTrail, trail, planner, exec, remote>>

CrashPlanner(p) ==
  /\ planner[p].pc \notin {"start", "done"}
  /\ lost' = lost \cup OwedByPlanner(p)
  /\ planner' = [planner EXCEPT ![p] = [NewPlanner EXCEPT !.pc = "done"]]
  /\ UNCHANGED <<tables, snapshot, planTrail, trail, exec, rec, remote>>

Next ==
  \/ Tick \/ Review
  \/ \E p \in Planner : PlannerStep(p) \/ CrashPlanner(p)
  \/ \E e \in Executor : ExecutorStep(e) \/ CrashExecutor(e)
  \/ \E e \in Executor : RemoteStep(e) \/ FinishWork(e)
  \/ \E r \in Reconciler : ReconcilerStep(r) \/ CrashReconciler(r)

Spec == Init /\ [][Next]_vars

-----------------------------------------------------------------------------
(* Fairness.  A running process keeps running and OpenCTI ends an import work. *)
(* Reviews, time, crashes and carrying out a request are not obliged.          *)

ReturnSpec == Spec /\ \A e \in Executor : WF_vars(exec[e].pc # "start" /\ ExecutorStep(e))

\* The operator repeats reconcile until it settles: the command is started
\* again and again, it is not always cut short, and it does not meet a network
\* failure or an unknown answer every single time.
Settles(r) == rec[r].result \in {"SUCCEEDED", "FAILED"}

OperatorFairness ==
  \A r \in Reconciler :
    /\ WF_vars(rec[r].pc # "start" /\ ReconcilerStep(r))
    /\ \A a \in Executor : SF_vars(ReconcilerStep(r) /\ ReadAttempt(r, a))
    /\ SF_vars(ReconcilerStep(r) /\ AskWork(r) /\ rec'[r].result \in {"SUCCEEDED", "FAILED"})
    /\ SF_vars(ReconcilerStep(r) /\ RecordAnswer(r) /\ Settles(r))

SettleSpec ==
  /\ ReturnSpec
  /\ \A e \in Executor : WF_vars(FinishWork(e))
  /\ OperatorFairness

-----------------------------------------------------------------------------
(* Properties *)

\* A mutation leaves the gateway only on behalf of the attempt that stands for
\* the plan, in the phase the ledger shows for it: create-draft under SUBMITTED,
\* the upload under PROCESSING with its draft recorded.  A reservation that a
\* reconciliation abandoned, or a crash, never leads to a request.
MutationUnderReservation ==
  [][\A e \in Executor :
       /\ remote[e].draft = "none" /\ remote'[e].draft # "none"
            => /\ attempts[e].status = "SUBMITTED"
               /\ plans[attempts[e].plan].status = "SUBMITTED"
       /\ remote[e].upload = "none" /\ remote'[e].upload # "none"
            => /\ attempts[e].status = "PROCESSING"
               /\ attempts[e].ids["draft"] # None]_vars

\* If OpenCTI answers every mutation with a usable identifier or an error, at
\* most one create-draft request ever leaves for a plan, over all executors,
\* crashes and reconciliations: no blind retry.
OneDraftPerPlan ==
  \A e, f \in Executor :
    remote[e].draft # "none" /\ remote[f].draft # "none"
      /\ attempts[e].plan = attempts[f].plan => e = f

\* What makes OneDraftPerPlan hold: an attempt whose create-draft request is
\* out keeps its claim on the plan.
RequestKeepsClaim ==
  \A e \in Executor : remote[e].draft # "none" => Ledger!Live(e)

\* SUCCEEDED is only ever recorded for an import work that did complete, even
\* when a poll and a reconciliation race.
SuccessIsReal ==
  \A e \in Executor : attempts[e].status = "SUCCEEDED" => remote[e].work = "complete"

\* A review recorded before the reservation always stops the delivery of the
\* plan it made stale, although the gates looked before the reservation.
StaleReservationNeverSends ==
  [][\A e \in Executor : remote[e].draft = "none" /\ remote'[e].draft # "none"
       => exec[e].seen = attempts[e].plan]_vars

\* Every recorded outcome other than FAILED is in the audit trail, or a process
\* is about to put it there, or the process that owed it died.
OutcomeIsAudited ==
  \A a \in Executor :
    attempts[a].status \in {"SUCCEEDED", "PARTIAL", "UNKNOWN"} =>
      LET event == [attempt |-> a, status |-> attempts[a].status] IN
      \/ event \in trail \cup lost
      \/ event \in Owed(exec[a], a)
      \/ \E r \in Reconciler : event \in Owed(rec[r], rec[r].att)

\* Whatever planners race and whichever of them stored it, the digest a plan row
\* holds, which is the one an operator can confirm, is named by an event of the
\* case's audit trail, or a planner is about to write that event, or died first.
PlanIsAudited ==
  \A k \in LogicalKey : plans[k].status # "ABSENT" =>
    \E event \in planTrail \cup lost \cup UNION {OwedByPlanner(p) : p \in Planner} :
      event \in PlanEvent /\ event.key = k /\ event.created = plans[k].created

\* The processes use the tables only through their transactions.
LedgerSpec == Ledger!Spec

\* Even if OpenCTI answers with identifiers nobody can use, so that a second draft
\* is created, the artifact itself goes out at most once for a plan: it is sent
\* only after the draft it goes into has been recorded, and what has a remote
\* identifier on record keeps its claim for good.
OneUploadPerPlan ==
  \A e, f \in Executor :
    remote[e].upload # "none" /\ remote[f].upload # "none"
      /\ attempts[e].plan = attempts[f].plan => e = f

\* An outcome in the hands of execute or reconcile, however old the row and the
\* identifiers it was computed from, is refused by the ledger only when another
\* process settled the attempt in the meantime: no outcome is lost to a stale read.
Accepted(process, a) ==
  process.pc = "recording" /\ attempts[a].status \in Ledger!Unsettled
    => Ledger!CanUpdate(a, process.result, process.ids, Ledger!Status)

OnlySettledRefuses ==
  /\ \A e \in Executor : Accepted(exec[e], e)
  /\ \A r \in Reconciler : Accepted(rec[r], rec[r].att)

\* docs/opencti-phase1.md, 119-120: what was left open without an import work on
\* record, by an error or by the death of its process, nobody touches again, not
\* its row and not the row of its plan, until an operator has looked at OpenCTI.
DeadEnd(a) ==
  /\ exec[a].pc = "done"
  /\ attempts[a].status \in Ledger!Unsettled \ {"PREPARED"}
  /\ attempts[a].ids["work"] = None

DeadEndsStay ==
  [][\A a \in Executor : DeadEnd(a) =>
       /\ attempts'[a] = attempts[a] /\ DeadEnd(a)'
       /\ plans'[attempts[a].plan] = plans[attempts[a].plan]]_vars

\* The steps an execute may still take: the rounds of polling it has left, or all
\* of them when it has not begun, and the stages ahead of it.
Stage ==
  [start |-> 16, gate |-> 15, gated |-> 14, reserved |-> 13, checked |-> 12, probed |-> 11,
   submitted |-> 10, drafting |-> 9, drafted |-> 8, staged |-> 7, uploading |-> 6,
   uploaded |-> 5, polling |-> 4, definite |-> 3, ambiguous |-> 3, recording |-> 2,
   auditing |-> 1, done |-> 0]

StepsLeft(e) ==
  Stage[exec[e].pc] +
  IF exec[e].pc \in {"polling", "definite", "ambiguous", "recording", "auditing", "done"}
    THEN exec[e].polls ELSE PollAttempts

\* execute ends after a bounded number of steps of its own, whatever the others
\* do: no answer, refusal or error leads it back to what it already did.
ExecuteProgresses ==
  [][\A e \in Executor : ExecutorStep(e) \/ exec'[e] # exec[e]
       => StepsLeft(e)' < StepsLeft(e)]_vars

\* execute returns or its process dies: it never waits for ever.
ExecuteReturns ==
  \A e \in Executor : exec[e].pc # "start" ~> exec[e].pc = "done"

\* An attempt whose import work is known is eventually settled, by its executor
\* or by an operator who keeps reconciling.
KnownWorkSettles ==
  \A e \in Executor : attempts[e].ids["work"] # None ~>
    attempts[e].status \in {"SUCCEEDED", "FAILED"}

-----------------------------------------------------------------------------
(* Claims of the documentation that the code does not keep. *)

\* "Post-request-boundary failures remain ambiguous": an attempt with a known
\* import work is FAILED only when that work reported errors.
FailureIsRemote ==
  \A e \in Executor :
    attempts[e].status = "FAILED" /\ attempts[e].ids["work"] # None
      => remote[e].work = "errors"
=============================================================================
