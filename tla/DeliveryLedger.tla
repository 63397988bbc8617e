---------------------------- MODULE DeliveryLedger ----------------------------
(***************************************************************************)
(* The delivery tables of storage/repository.py: one row per delivery plan *)
(* (unique on its logical key) and one row per delivery attempt.  Every    *)
(* action below is one transaction, opened with BEGIN IMMEDIATE, so it is  *)
(* atomic however many processes share the SQLite file.  The module puts   *)
(* no constraint on its callers: any client may ask for any operation at   *)
(* any time.  DeliveryService says what the gateway's processes ask for.   *)
(*                                                                         *)
(* A refused operation raises and rolls back; it is a step that changes    *)
(* nothing, so it has a predicate here (CanUpdate, ...) but no action.     *)
(*                                                                         *)
(* XFault is a plausible wrong version of X.  The model never uses it; the *)
(* README says which property notices it in the place of X.                *)
(***************************************************************************)
EXTENDS Naturals, FiniteSets

CONSTANTS
  LogicalKey,   \* digests that identify a plan (DeliveryPlan.logical_key)
  BlockedKey,   \* the keys whose assessment carries blockers
  Attempt,      \* identifiers of attempt rows
  RemoteId,     \* identifiers OpenCTI answers with
  OddId,        \* those that _validate_remote_id refuses
  None,         \* SQL NULL
  Ttl,          \* plan_ttl_seconds, in ticks
  MaxTime       \* bound of the clock

ASSUME KeyAssumption == BlockedKey \subseteq LogicalKey
ASSUME IdAssumption == OddId \subseteq RemoteId /\ None \notin RemoteId
ASSUME NoneAssumption == None \notin LogicalKey
ASSUME TimeAssumption == Ttl \in Nat \ {0} /\ MaxTime \in Nat

VARIABLES
  now,          \* utc_now()
  plans,        \* table delivery_plans, by logical key
  attempts      \* table delivery_attempts, by identifier

vars == <<now, plans, attempts>>

-----------------------------------------------------------------------------
(* Types *)

Status == {"PREPARED", "SUBMITTED", "PROCESSING", "SUCCEEDED", "FAILED",
           "PARTIAL", "UNKNOWN", "NOOP"}

PlanStatus == (Status \ {"NOOP"}) \cup {"BLOCKED", "ABSENT"}

IdField == {"draft", "file", "work"}

Ids == [IdField -> RemoteId \cup {None}]

NoIds == [f \in IdField |-> None]

\* plan_sha256 covers created_at and expires_at: under one logical key two
\* plans have the same digest exactly when they were created together.
Plan == [status : PlanStatus, created : Nat]

NoPlan == [status |-> "ABSENT", created |-> 0]

AttemptRow == [plan : LogicalKey \cup {None}, status : Status \cup {"ABSENT"},
               ids : Ids]

NoAttempt == [plan |-> None, status |-> "ABSENT", ids |-> NoIds]

TypeOK ==
  /\ now \in Nat
  /\ plans \in [LogicalKey -> Plan]
  /\ attempts \in [Attempt -> AttemptRow]

-----------------------------------------------------------------------------
(* State functions *)

AttemptsOf(k) == {a \in Attempt : attempts[a].plan = k}

HasRemoteId(a) == \E f \in IdField : attempts[a].ids[f] # None

\* Statuses of an attempt whose remote outcome is open.
Unsettled == {"SUBMITTED", "PREPARED", "PROCESSING", "UNKNOWN", "PARTIAL"}

\* The rows that make reserve_delivery_attempt answer
\* DELIVERY_RECONCILIATION_REQUIRED.
Obstructs(a) ==
  \/ attempts[a].status \in Unsettled
  \/ attempts[a].status = "FAILED" /\ HasRemoteId(a)

Delivered(k) == \E a \in AttemptsOf(k) : attempts[a].status = "SUCCEEDED"

NoopsOf(k) == {a \in AttemptsOf(k) : attempts[a].status = "NOOP"}

\* The attempt still stands for its plan: it may have, or have had, an effect
\* in OpenCTI.
Live(a) == attempts[a].status = "SUCCEEDED" \/ Obstructs(a)

Expires(k) == plans[k].created + Ttl

-----------------------------------------------------------------------------
(* Operations *)

Init ==
  /\ now = 0
  /\ plans = [k \in LogicalKey |-> NoPlan]
  /\ attempts = [a \in Attempt |-> NoAttempt]

Tick ==
  /\ now < MaxTime
  /\ now' = now + 1
  /\ UNCHANGED <<plans, attempts>>

\* Forgets that somebody may be delivering the plan it renews.
RefreshableFault(k) == plans[k].status = "PREPARED" /\ Expires(k) <= now

Refreshable(k) ==
  /\ plans[k].status = "PREPARED"
  /\ Expires(k) <= now
  /\ AttemptsOf(k) = {}

\* save_delivery_plan: insert, refresh in place, or hand back the stored row.
SavePlan(k, created) ==
  /\ IF plans[k].status = "ABSENT" \/ Refreshable(k)
       THEN plans' = [plans EXCEPT ![k] =
              [status  |-> IF k \in BlockedKey THEN "BLOCKED" ELSE "PREPARED",
               created |-> created]]
       ELSE UNCHANGED plans
  /\ UNCHANGED <<now, attempts>>

\* Retries blindly after an unknown outcome.
CanReserveFault(k) ==
  /\ plans[k].status \notin {"ABSENT", "BLOCKED"}
  /\ ~ Delivered(k)
  /\ \A a \in AttemptsOf(k) : ~ Obstructs(a) \/ attempts[a].status = "UNKNOWN"

CanReserve(k) ==
  /\ plans[k].status \notin {"ABSENT", "BLOCKED"}
  /\ ~ Delivered(k)
  /\ \A a \in AttemptsOf(k) : ~ Obstructs(a)

\* Leaves the plan row as the failed attempt before left it.
ReserveNewFault(k, a) ==
  /\ CanReserve(k)
  /\ attempts[a].status = "ABSENT"
  /\ attempts' = [attempts EXCEPT ![a] =
                    [plan |-> k, status |-> "PREPARED", ids |-> NoIds]]
  /\ UNCHANGED <<now, plans>>

\* reserve_delivery_attempt, the insertion of a PREPARED row.
ReserveNew(k, a) ==
  /\ CanReserve(k)
  /\ attempts[a].status = "ABSENT"
  /\ attempts' = [attempts EXCEPT ![a] =
                    [plan |-> k, status |-> "PREPARED", ids |-> NoIds]]
  /\ plans' = [plans EXCEPT ![k] = [status |-> "PREPARED", created |-> @.created]]
  /\ UNCHANGED now

\* Records a NOOP row at each call.
ReserveNoopFault(k, a) ==
  /\ plans[k].status \notin {"ABSENT", "BLOCKED"}
  /\ Delivered(k)
  /\ attempts[a].status = "ABSENT"
  /\ attempts' = [attempts EXCEPT ![a] =
                    [plan |-> k, status |-> "NOOP", ids |-> NoIds]]
  /\ UNCHANGED <<now, plans>>

\* Mirrors the NOOP into the plan row, as for every other status.
NoopMirrorFault(k, a) ==
  /\ Delivered(k)
  /\ NoopsOf(k) = {}
  /\ attempts[a].status = "ABSENT"
  /\ attempts' = [attempts EXCEPT ![a] =
                    [plan |-> k, status |-> "NOOP", ids |-> NoIds]]
  /\ plans' = [plans EXCEPT ![k] = [status |-> "NOOP", created |-> @.created]]
  /\ UNCHANGED now

\* reserve_delivery_attempt on a plan that already succeeded: the first such
\* call records one NOOP row, later calls return it.
ReserveNoop(k, a) ==
  /\ plans[k].status \notin {"ABSENT", "BLOCKED"}
  /\ Delivered(k)
  /\ NoopsOf(k) = {}
  /\ attempts[a].status = "ABSENT"
  /\ attempts' = [attempts EXCEPT ![a] =
                    [plan |-> k, status |-> "NOOP", ids |-> NoIds]]
  /\ UNCHANGED <<now, plans>>

\* Lets a late answer reopen a failed attempt.
AllowedFault(from) ==
  CASE from = "PREPARED" -> {"SUBMITTED", "FAILED"}
    [] from \in {"SUBMITTED", "PROCESSING", "UNKNOWN", "PARTIAL", "FAILED"} ->
         {"SUBMITTED", "PROCESSING", "SUCCEEDED", "FAILED", "PARTIAL", "UNKNOWN"}
    [] OTHER -> {}

\* Forgets that an attempt given up as UNKNOWN may still turn out PARTIAL.
AllowedNarrowFault(from) ==
  CASE from = "PREPARED" -> {"SUBMITTED", "FAILED"}
    [] from \in {"SUBMITTED", "PROCESSING"} ->
         {"SUBMITTED", "PROCESSING", "SUCCEEDED", "FAILED", "PARTIAL", "UNKNOWN"}
    [] from \in {"UNKNOWN", "PARTIAL"} -> {"UNKNOWN", "PROCESSING", "SUCCEEDED", "FAILED"}
    [] OTHER -> {}

\* The table of legal transitions; SUCCEEDED, FAILED and NOOP are final.
Allowed(from) ==
  CASE from = "PREPARED" -> {"SUBMITTED", "FAILED"}
    [] from \in {"SUBMITTED", "PROCESSING"} ->
         {"SUBMITTED", "PROCESSING", "SUCCEEDED", "FAILED", "PARTIAL", "UNKNOWN"}
    [] from \in {"UNKNOWN", "PARTIAL"} ->
         {"UNKNOWN", "PARTIAL", "PROCESSING", "SUCCEEDED", "FAILED"}
    [] OTHER -> {}

\* Validates an identifier but not that it is the one on record.
IdsAgreeFault(old, new) == \A f \in IdField : new[f] # None => new[f] \notin OddId

\* A remote identifier is recorded once and never replaced.
IdsAgree(old, new) ==
  \A f \in IdField : new[f] # None => /\ old[f] \in {None, new[f]}
                                      /\ new[f] \notin OddId

Merge(old, new) == [f \in IdField |-> IF new[f] = None THEN old[f] ELSE new[f]]

CanUpdate(a, status, ids, expected) ==
  /\ attempts[a].status \in expected
  /\ status \in Allowed(attempts[a].status)
  /\ IdsAgree(attempts[a].ids, ids)

\* update_delivery_attempt: the caller's compare-and-set, the transition
\* table, the identifiers and the mirror in the plan row commit together.
Update(a, status, ids, expected) ==
  /\ CanUpdate(a, status, ids, expected)
  /\ attempts' = [attempts EXCEPT ![a] =
                    [plan |-> @.plan, status |-> status, ids |-> Merge(@.ids, ids)]]
  /\ plans' = [plans EXCEPT ![attempts[a].plan] =
                 [status |-> status, created |-> @.created]]
  /\ UNCHANGED now

Next ==
  \/ Tick
  \/ \E k \in LogicalKey, created \in 0..now : SavePlan(k, created)
  \/ \E k \in LogicalKey, a \in Attempt : ReserveNew(k, a) \/ ReserveNoop(k, a)
  \/ \E a \in Attempt, status \in Status, ids \in Ids :
       Update(a, status, ids, Status)

Spec == Init /\ [][Next]_vars

-----------------------------------------------------------------------------
(* Properties *)

\* At most one attempt of a plan stands: while one may have touched OpenCTI,
\* reserve_delivery_attempt admits no other.  Two executors, a retry after a
\* crash, or a reconciliation racing an executor must never break this.
OneLiveAttempt ==
  \A k \in LogicalKey : \A a, b \in AttemptsOf(k) : Live(a) /\ Live(b) => a = b

\* The status column of a plan, which the execution gates and the refresh
\* read, always says what the attempts of the plan say: the status of the
\* one that stands, FAILED when all of them failed without a trace, and the
\* planning verdict when nothing was attempted.
PlanMirrorsAttempts ==
  \A k \in LogicalKey :
    /\ \A a \in AttemptsOf(k) : Live(a) => plans[k].status = attempts[a].status
    /\ AttemptsOf(k) # {} /\ (\A a \in AttemptsOf(k) : ~ Live(a))
         => plans[k].status = "FAILED"
    /\ AttemptsOf(k) = {} => plans[k].status \in {"ABSENT", "BLOCKED", "PREPARED"}

\* A NOOP row answers for a delivery that did succeed, and there is one at
\* most however many executors ask again.
NoopFollowsSuccess ==
  \A k \in LogicalKey : \A a, b \in NoopsOf(k) : Delivered(k) /\ a = b

\* SUCCEEDED, FAILED and NOOP rows never change again: a late answer, of an
\* executor or of a reconciliation, cannot reverse a recorded outcome.
FinalOutcome ==
  [][\A a \in Attempt : attempts[a].status \in {"SUCCEEDED", "FAILED", "NOOP"}
       => attempts'[a] = attempts[a]]_vars

\* The draft, file and work an attempt points at are never replaced, whatever
\* the order in which answers are recorded.
RemoteIdWrittenOnce ==
  [][\A a \in Attempt, f \in IdField :
       attempts[a].ids[f] # None => attempts'[a].ids[f] = attempts[a].ids[f]]_vars

\* The digest an operator confirmed can change under him only after the plan
\* expired and only if nothing was attempted with it.
DigestFrozenByAttempt ==
  [][\A k \in LogicalKey :
       plans[k].status # "ABSENT" /\ plans'[k].created # plans[k].created
         => AttemptsOf(k) = {} /\ Expires(k) <= now]_vars

\* No transaction rewrites what may already have been acted upon: a recorded
\* outcome, a remote identifier, or the digest of a plan that is in use.
NothingIsRewritten == FinalOutcome /\ RemoteIdWrittenOnce /\ DigestFrozenByAttempt

-----------------------------------------------------------------------------
(* The tables implement PlanClaim. *)

Claimants == [k \in LogicalKey |-> {a \in AttemptsOf(k) : Live(a)}]

Released == {a \in Attempt : attempts[a].status = "FAILED" /\ ~ HasRemoteId(a)}

DeliveredKeys == {k \in LogicalKey : Delivered(k)}

Claim == INSTANCE PlanClaim WITH claims <- Claimants, spent <- Released,
                                 delivered <- DeliveredKeys

\* Every transaction of the ledger takes, keeps, gives back or completes the
\* claim of one plan: the tables keep the promise of PlanClaim.
ImplementsPlanClaim == Claim!Spec
=============================================================================
