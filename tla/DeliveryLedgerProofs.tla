------------------------- MODULE DeliveryLedgerProofs -------------------------
(***************************************************************************)
(* Proofs about the delivery tables, for any number of plans, attempts and *)
(* remote identifiers and any plan lifetime.                               *)
(***************************************************************************)
EXTENDS DeliveryLedger, TLAPS

\* A row that was never inserted has no plan and no remote identifier; an
\* inserted one has a plan.
RowsWellFormed ==
  \A a \in Attempt :
    /\ attempts[a].status = "ABSENT" <=> attempts[a].plan = None
    /\ attempts[a].status = "ABSENT" => attempts[a].ids = NoIds

\* OneLiveAttempt is inductive only together with the shape of the rows (an
\* update goes to the plan of the row) and with the mirror in the plan row.
IInv ==
  /\ TypeOK
  /\ RowsWellFormed
  /\ OneLiveAttempt
  /\ NoopFollowsSuccess
  /\ PlanMirrorsAttempts

-----------------------------------------------------------------------------
(* Facts about the operators. *)

\* The table only leads to delivery statuses, never to PREPARED or NOOP, and
\* leads nowhere from an absent row or a final outcome.
LEMMA AllowedStatus ==
  /\ \A from : Allowed(from) \subseteq Status \ {"PREPARED", "NOOP"}
  /\ \A from \in {"SUCCEEDED", "FAILED", "NOOP", "ABSENT"} : Allowed(from) = {}
BY DEF Allowed, Status

\* Merging identifiers keeps their type and every one recorded before.
LEMMA MergeIds ==
  ASSUME NEW old \in Ids, NEW new \in Ids
  PROVE  /\ Merge(old, new) \in Ids
         /\ IdsAgree(old, new) =>
              \A f \in IdField : old[f] # None => Merge(old, new)[f] = old[f]
BY DEF Merge, Ids, IdsAgree

-----------------------------------------------------------------------------
(* Type correctness. *)

LEMMA TypeInit == Init => TypeOK
BY NoneAssumption DEF Init, TypeOK, NoPlan, NoAttempt, NoIds, Plan, PlanStatus,
                      AttemptRow, Ids

\* What an update writes: one attempt row and the plan row it belongs to.
LEMMA UpdateRow ==
  ASSUME TypeOK, RowsWellFormed, NEW a \in Attempt, NEW status \in Status,
         NEW ids \in Ids, NEW expected, Update(a, status, ids, expected)
  PROVE  /\ attempts[a].plan \in LogicalKey
         /\ attempts[a].status \in Unsettled
         /\ status \in Status \ {"PREPARED", "NOOP"}
         /\ attempts' = [attempts EXCEPT ![a] =
              [plan |-> attempts[a].plan, status |-> status,
               ids |-> Merge(attempts[a].ids, ids)]]
         /\ plans' = [plans EXCEPT ![attempts[a].plan] =
              [status |-> status, created |-> plans[attempts[a].plan].created]]
         /\ now' = now
<1>1. attempts[a] \in AttemptRow /\ attempts[a].status \in Status \cup {"ABSENT"}
  BY DEF TypeOK, AttemptRow
<1>2. status \in Allowed(attempts[a].status)
  BY DEF Update, CanUpdate
<1>3. attempts[a].status \in Unsettled
  BY <1>1, <1>2, AllowedStatus DEF Unsettled, Status
<1>4. attempts[a].plan \in LogicalKey
  BY <1>1, <1>3 DEF RowsWellFormed, AttemptRow, Unsettled
<1>5. status \in Status \ {"PREPARED", "NOOP"}
  BY <1>2, AllowedStatus
<1>6. QED
  BY <1>3, <1>4, <1>5 DEF Update

LEMMA TypeStep == TypeOK /\ RowsWellFormed /\ [Next]_vars => TypeOK'
<1> SUFFICES ASSUME TypeOK, RowsWellFormed, [Next]_vars PROVE TypeOK'
  OBVIOUS
<1>1. CASE Tick
  BY <1>1 DEF Tick, TypeOK
<1>2. ASSUME NEW k \in LogicalKey, NEW created \in 0..now, SavePlan(k, created)
      PROVE  TypeOK'
  BY <1>2 DEF SavePlan, TypeOK, Plan, PlanStatus, Status
<1>3. ASSUME NEW k \in LogicalKey, NEW a \in Attempt, ReserveNew(k, a)
      PROVE  TypeOK'
  BY <1>3 DEF ReserveNew, TypeOK, Plan, PlanStatus, Status, AttemptRow, Ids, NoIds
<1>4. ASSUME NEW k \in LogicalKey, NEW a \in Attempt, ReserveNoop(k, a)
      PROVE  TypeOK'
  BY <1>4 DEF ReserveNoop, TypeOK, Status, AttemptRow, Ids, NoIds
<1>5. ASSUME NEW a \in Attempt, NEW status \in Status, NEW ids \in Ids,
             Update(a, status, ids, Status)
      PROVE  TypeOK'
  <2>1. attempts[a].ids \in Ids
    BY DEF TypeOK, AttemptRow
  <2>2. Merge(attempts[a].ids, ids) \in Ids
    BY <2>1, MergeIds
  <2>3. [plan |-> attempts[a].plan, status |-> status,
         ids |-> Merge(attempts[a].ids, ids)] \in AttemptRow
    BY <2>2 DEF TypeOK, AttemptRow
  <2>4. attempts' \in [Attempt -> AttemptRow]
    BY <1>5, <2>3 DEF Update, TypeOK
  <2>5. plans' \in [LogicalKey -> Plan]
    <3>1. attempts[a].plan \in LogicalKey /\ status \in PlanStatus
      BY <1>5, UpdateRow DEF PlanStatus
    <3>2. QED
      BY <1>5, <3>1 DEF Update, TypeOK, Plan
  <2>6. QED
    BY <1>5, <2>4, <2>5 DEF Update, TypeOK
<1>6. CASE UNCHANGED vars
  BY <1>6 DEF vars, TypeOK
<1>7. QED
  BY <1>1, <1>2, <1>3, <1>4, <1>5, <1>6 DEF Next

-----------------------------------------------------------------------------
(* The inductive invariant. *)

LEMMA InvInit == Init => IInv
<1> SUFFICES ASSUME Init PROVE IInv
  OBVIOUS
<1>1. \A a \in Attempt : attempts[a] = NoAttempt
  BY DEF Init
<1>2. \A k \in LogicalKey : AttemptsOf(k) = {} /\ plans[k].status = "ABSENT"
  BY <1>1, NoneAssumption DEF Init, AttemptsOf, NoAttempt, NoPlan
<1>3. RowsWellFormed
  BY <1>1 DEF RowsWellFormed, NoAttempt
<1>4. QED
  BY <1>2, <1>3, TypeInit DEF IInv, OneLiveAttempt, NoopFollowsSuccess,
                              PlanMirrorsAttempts, NoopsOf

\* A reservation adds its row to one plan and to no other.
LEMMA ReservedRow ==
  ASSUME IInv, NEW k \in LogicalKey, NEW a \in Attempt, NEW status \in Status,
         attempts[a].status = "ABSENT",
         attempts' = [attempts EXCEPT ![a] =
                        [plan |-> k, status |-> status, ids |-> NoIds]]
  PROVE  /\ \A j \in LogicalKey :
              AttemptsOf(j)' = IF j = k THEN AttemptsOf(k) \cup {a} ELSE AttemptsOf(j)
         /\ \A j \in LogicalKey : a \notin AttemptsOf(j)
         /\ attempts'[a] = [plan |-> k, status |-> status, ids |-> NoIds]
         /\ \A b \in Attempt \ {a} : attempts'[b] = attempts[b]
         /\ RowsWellFormed'
<1>1. attempts[a].plan = None
  BY DEF IInv, RowsWellFormed
<1>2. /\ attempts'[a] = [plan |-> k, status |-> status, ids |-> NoIds]
      /\ \A b \in Attempt \ {a} : attempts'[b] = attempts[b]
  BY DEF IInv, TypeOK
<1>3. status # "ABSENT" /\ k # None
  BY NoneAssumption DEF Status
<1>4. RowsWellFormed'
  BY <1>2, <1>3 DEF IInv, RowsWellFormed
<1>5. \A j \in LogicalKey : a \notin AttemptsOf(j)
  BY <1>1, NoneAssumption DEF AttemptsOf
<1>6. ASSUME NEW j \in LogicalKey
      PROVE  AttemptsOf(j)' = IF j = k THEN AttemptsOf(k) \cup {a} ELSE AttemptsOf(j)
  BY <1>2, <1>5 DEF AttemptsOf
<1>7. QED
  BY <1>2, <1>4, <1>5, <1>6

\* A row that does not change stands, or not, as before.
LEMMA SameRow ==
  ASSUME NEW b \in Attempt, attempts'[b] = attempts[b]
  PROVE  Live(b)' <=> Live(b)
BY DEF Live, Obstructs, HasRemoteId

LEMMA ReserveNewStep ==
  ASSUME IInv, NEW k \in LogicalKey, NEW a \in Attempt, ReserveNew(k, a)
  PROVE  IInv'
<1> DEFINE row == [plan |-> k, status |-> "PREPARED", ids |-> NoIds]
<1>1. /\ \A j \in LogicalKey :
           AttemptsOf(j)' = IF j = k THEN AttemptsOf(k) \cup {a} ELSE AttemptsOf(j)
      /\ \A j \in LogicalKey : a \notin AttemptsOf(j)
      /\ attempts'[a] = row
      /\ \A b \in Attempt \ {a} : attempts'[b] = attempts[b]
      /\ RowsWellFormed'
  BY ReservedRow DEF ReserveNew, Status
<1>2. TypeOK'
  BY TypeStep DEF IInv, Next
<1>3. Live(a)'
  BY <1>1 DEF Live, Obstructs, Unsettled
<1>4. \A b \in AttemptsOf(k) : ~ Live(b) /\ ~ Live(b)'
  <2>1. \A b \in AttemptsOf(k) : b \in Attempt /\ b # a
    BY <1>1 DEF AttemptsOf
  <2>2. \A b \in AttemptsOf(k) : ~ Live(b)
    BY DEF ReserveNew, CanReserve, Live, Delivered
  <2>3. QED
    BY <1>1, <2>1, <2>2, SameRow
<1>5. \A j \in LogicalKey \ {k} : \A b \in AttemptsOf(j) :
        attempts'[b] = attempts[b] /\ (Live(b)' <=> Live(b))
  <2>1. \A j \in LogicalKey : \A b \in AttemptsOf(j) : b \in Attempt /\ b # a
    BY <1>1 DEF AttemptsOf
  <2>2. QED
    BY <1>1, <2>1, SameRow
<1>6. \A j \in LogicalKey : plans'[j].status =
        IF j = k THEN "PREPARED" ELSE plans[j].status
  BY DEF ReserveNew, IInv, TypeOK
<1>7. OneLiveAttempt'
  BY <1>1, <1>4, <1>5 DEF OneLiveAttempt, IInv
<1>8. PlanMirrorsAttempts'
  BY <1>1, <1>3, <1>4, <1>5, <1>6 DEF PlanMirrorsAttempts, IInv
<1>9. NoopFollowsSuccess'
  <2>1. \A b \in AttemptsOf(k) : attempts[b].status # "NOOP"
    <3>1. ~ Delivered(k)
      BY DEF ReserveNew, CanReserve
    <3>2. QED
      BY <3>1 DEF IInv, NoopFollowsSuccess, NoopsOf
  <2>2. NoopsOf(k)' = {}
    BY <1>1, <1>5, <2>1 DEF NoopsOf, AttemptsOf
  <2>3. \A j \in LogicalKey \ {k} : NoopsOf(j)' = NoopsOf(j)
    BY <1>1, <1>5 DEF NoopsOf
  <2>4. \A j \in LogicalKey \ {k} : Delivered(j)' <=> Delivered(j)
    BY <1>1, <1>5 DEF Delivered
  <2>5. QED
    BY <2>2, <2>3, <2>4 DEF NoopFollowsSuccess, IInv
<1>10. QED
  BY <1>1, <1>2, <1>7, <1>8, <1>9 DEF IInv

LEMMA ReserveNoopStep ==
  ASSUME IInv, NEW k \in LogicalKey, NEW a \in Attempt, ReserveNoop(k, a)
  PROVE  IInv'
<1>1. /\ \A j \in LogicalKey :
           AttemptsOf(j)' = IF j = k THEN AttemptsOf(k) \cup {a} ELSE AttemptsOf(j)
      /\ \A j \in LogicalKey : a \notin AttemptsOf(j)
      /\ attempts'[a] = [plan |-> k, status |-> "NOOP", ids |-> NoIds]
      /\ \A b \in Attempt \ {a} : attempts'[b] = attempts[b]
      /\ RowsWellFormed'
  BY ReservedRow DEF ReserveNoop, Status
<1>2. TypeOK'
  BY TypeStep DEF IInv, Next
<1>3. ~ Live(a)'
  BY <1>1 DEF Live, Obstructs, Unsettled
<1>4. \A j \in LogicalKey : \A b \in AttemptsOf(j) :
        attempts'[b] = attempts[b] /\ (Live(b)' <=> Live(b))
  <2>1. \A j \in LogicalKey : \A b \in AttemptsOf(j) : b \in Attempt /\ b # a
    BY <1>1 DEF AttemptsOf
  <2>2. QED
    BY <1>1, <2>1, SameRow
<1>5. plans' = plans
  BY DEF ReserveNoop
<1>6. PICK b \in AttemptsOf(k) : attempts[b].status = "SUCCEEDED"
  BY DEF ReserveNoop, Delivered
<1>7. OneLiveAttempt'
  BY <1>1, <1>3, <1>4 DEF OneLiveAttempt, IInv
<1>8. PlanMirrorsAttempts'
  <2>1. Live(b)
    BY <1>6 DEF Live
  <2>2. QED
    BY <1>1, <1>3, <1>4, <1>5, <2>1 DEF PlanMirrorsAttempts, IInv
<1>9. NoopFollowsSuccess'
  <2>1. \A j \in LogicalKey : Delivered(j) => Delivered(j)'
    BY <1>1, <1>4 DEF Delivered
  <2>2. NoopsOf(k)' = {a}
    BY <1>1, <1>4 DEF NoopsOf, ReserveNoop
  <2>3. \A j \in LogicalKey \ {k} : NoopsOf(j)' = NoopsOf(j)
    BY <1>1, <1>4 DEF NoopsOf
  <2>4. Delivered(k)
    BY DEF ReserveNoop
  <2>5. QED
    BY <2>1, <2>2, <2>3, <2>4 DEF NoopFollowsSuccess, IInv
<1>10. QED
  BY <1>1, <1>2, <1>7, <1>8, <1>9 DEF IInv

LEMMA UpdateStep ==
  ASSUME IInv, NEW a \in Attempt, NEW status \in Status, NEW ids \in Ids,
         Update(a, status, ids, Status)
  PROVE  IInv'
<1> DEFINE k == attempts[a].plan
<1>1. /\ k \in LogicalKey
      /\ attempts[a].status \in Unsettled
      /\ status \in Status \ {"PREPARED", "NOOP"}
      /\ attempts' = [attempts EXCEPT ![a] =
           [plan |-> k, status |-> status, ids |-> Merge(attempts[a].ids, ids)]]
      /\ plans' = [plans EXCEPT ![k] =
           [status |-> status, created |-> plans[k].created]]
  BY UpdateRow DEF IInv
<1> HIDE DEF k
<1>2. TypeOK'
  BY TypeStep DEF IInv, Next
<1>3. /\ attempts'[a].plan = k
      /\ attempts'[a].status = status
      /\ \A b \in Attempt \ {a} : attempts'[b] = attempts[b]
  BY <1>1 DEF IInv, TypeOK
<1>4. \A j \in LogicalKey : AttemptsOf(j)' = AttemptsOf(j)
  BY <1>3 DEF AttemptsOf, k
<1>5. RowsWellFormed'
  BY <1>1, <1>3, NoneAssumption DEF IInv, RowsWellFormed, Status
<1>6. Live(a) /\ a \in AttemptsOf(k)
  BY <1>1 DEF Live, Obstructs, AttemptsOf, k
<1>7. \A b \in Attempt \ {a} : Live(b)' <=> Live(b)
  BY <1>3, SameRow
<1>8. \A j \in LogicalKey : plans'[j].status =
        IF j = k THEN status ELSE plans[j].status
  BY <1>1 DEF IInv, TypeOK
<1>9. \A b \in AttemptsOf(k) : b # a => ~ Live(b)
  BY <1>1, <1>6 DEF IInv, OneLiveAttempt
<1>10. \A j \in LogicalKey \ {k} : a \notin AttemptsOf(j)
  BY DEF AttemptsOf, k
<1>11. \A j \in LogicalKey : AttemptsOf(j) \subseteq Attempt
  BY DEF AttemptsOf
<1>12. OneLiveAttempt'
  BY <1>1, <1>4, <1>7, <1>9, <1>10, <1>11 DEF OneLiveAttempt, IInv
<1>13. ~ Live(a)' => status = "FAILED"
  BY <1>1, <1>3 DEF Live, Obstructs, Unsettled, Status
<1>14. PlanMirrorsAttempts'
  BY <1>1, <1>3, <1>4, <1>6, <1>7, <1>8, <1>9, <1>10, <1>11, <1>13
  DEF PlanMirrorsAttempts, IInv
<1>15. NoopFollowsSuccess'
  <2>1. \A j \in LogicalKey : NoopsOf(j)' = NoopsOf(j)
    BY <1>1, <1>3, <1>4, <1>11 DEF NoopsOf, Unsettled
  <2>2. \A j \in LogicalKey : Delivered(j) => Delivered(j)'
    <3>1. attempts[a].status # "SUCCEEDED"
      BY <1>1 DEF Unsettled
    <3>2. QED
      BY <1>3, <1>4, <1>11, <3>1 DEF Delivered
  <2>3. QED
    BY <2>1, <2>2 DEF NoopFollowsSuccess, IInv
<1>16. QED
  BY <1>2, <1>5, <1>12, <1>14, <1>15 DEF IInv

LEMMA SavePlanStep ==
  ASSUME IInv, NEW k \in LogicalKey, NEW created \in 0..now, SavePlan(k, created)
  PROVE  IInv'
<1>1. TypeOK'
  BY TypeStep DEF IInv, Next
<1>2. attempts' = attempts
  BY DEF SavePlan
<1>3. /\ \A j \in LogicalKey : AttemptsOf(j)' = AttemptsOf(j)
      /\ \A j \in LogicalKey : NoopsOf(j)' = NoopsOf(j)
      /\ \A j \in LogicalKey : Delivered(j)' <=> Delivered(j)
      /\ \A b \in Attempt : Live(b)' <=> Live(b)
  BY <1>2 DEF AttemptsOf, NoopsOf, Delivered, Live, Obstructs, HasRemoteId
<1>4. AttemptsOf(k) = {} \/ plans' = plans
  <2>1. plans[k].status = "ABSENT" => AttemptsOf(k) = {}
    <3>1. ASSUME plans[k].status = "ABSENT", NEW a \in AttemptsOf(k)
          PROVE  FALSE
      <4>1. \A b \in AttemptsOf(k) : ~ Live(b)
        BY <3>1 DEF IInv, PlanMirrorsAttempts, TypeOK, AttemptRow, AttemptsOf,
                    Live, Obstructs, Unsettled
      <4>2. QED
        BY <3>1, <4>1 DEF IInv, PlanMirrorsAttempts
    <3>2. QED
      BY <3>1
  <2>2. QED
    BY <2>1 DEF SavePlan, Refreshable
<1>5. \A j \in LogicalKey \ {k} : plans'[j] = plans[j]
  BY DEF SavePlan, IInv, TypeOK
<1>6. plans' # plans => plans'[k].status \in {"BLOCKED", "PREPARED"}
  BY DEF SavePlan, IInv, TypeOK
<1>7. PlanMirrorsAttempts'
  <2>1. \A j \in LogicalKey : AttemptsOf(j) \subseteq Attempt
    BY DEF AttemptsOf
  <2>2. CASE plans' = plans
    BY <1>2, <1>3, <2>1, <2>2 DEF PlanMirrorsAttempts, IInv
  <2>3. CASE plans' # plans
    BY <1>2, <1>3, <1>4, <1>5, <1>6, <2>1, <2>3 DEF PlanMirrorsAttempts, IInv
  <2>4. QED
    BY <2>2, <2>3
<1>8. RowsWellFormed'
  BY <1>2 DEF IInv, RowsWellFormed
<1>9. OneLiveAttempt' /\ NoopFollowsSuccess'
  <2>1. \A j \in LogicalKey : AttemptsOf(j) \subseteq Attempt
    BY DEF AttemptsOf
  <2>2. QED
    BY <1>3, <2>1 DEF IInv, OneLiveAttempt, NoopFollowsSuccess
<1>10. QED
  BY <1>1, <1>7, <1>8, <1>9 DEF IInv

LEMMA UnchangedTables ==
  ASSUME IInv, now' \in Nat, plans' = plans, attempts' = attempts
  PROVE  IInv'
BY DEF IInv, TypeOK, RowsWellFormed, OneLiveAttempt, NoopFollowsSuccess,
       PlanMirrorsAttempts, AttemptsOf, NoopsOf, Delivered, Live, Obstructs,
       HasRemoteId

LEMMA InvStep == IInv /\ [Next]_vars => IInv'
<1> SUFFICES ASSUME IInv, [Next]_vars PROVE IInv'
  OBVIOUS
<1>1. CASE Tick
  BY <1>1, UnchangedTables DEF Tick, IInv, TypeOK
<1>2. ASSUME NEW k \in LogicalKey, NEW created \in 0..now, SavePlan(k, created)
      PROVE  IInv'
  BY <1>2, SavePlanStep
<1>3. ASSUME NEW k \in LogicalKey, NEW a \in Attempt, ReserveNew(k, a)
      PROVE  IInv'
  BY <1>3, ReserveNewStep
<1>4. ASSUME NEW k \in LogicalKey, NEW a \in Attempt, ReserveNoop(k, a)
      PROVE  IInv'
  BY <1>4, ReserveNoopStep
<1>5. ASSUME NEW a \in Attempt, NEW status \in Status, NEW ids \in Ids,
             Update(a, status, ids, Status)
      PROVE  IInv'
  BY <1>5, UpdateStep
<1>6. CASE UNCHANGED vars
  BY <1>6, UnchangedTables DEF vars, IInv, TypeOK
<1>7. QED
  BY <1>1, <1>2, <1>3, <1>4, <1>5, <1>6 DEF Next

LEMMA Invariance == Spec => []IInv
BY InvInit, InvStep, PTL DEF Spec

-----------------------------------------------------------------------------
(* Theorems. *)

\* The tables always hold rows of their types.
THEOREM TypeCorrect == Spec => []TypeOK
BY Invariance, PTL DEF IInv

\* Whatever its clients ask for and in whatever order, a plan never has two
\* attempts that may have touched OpenCTI: reserve_delivery_attempt excludes
\* them and no update revives a row it had excluded.
THEOREM OneLive == Spec => []OneLiveAttempt
BY Invariance, PTL DEF IInv

\* The status column of a plan always says what its attempts say.
THEOREM Mirror == Spec => []PlanMirrorsAttempts
BY Invariance, PTL DEF IInv

\* There is at most one NOOP row and only for a plan that was delivered.
THEOREM NoopSound == Spec => []NoopFollowsSuccess
BY Invariance, PTL DEF IInv

\* What one step does to a row that is there already.
LEMMA RowStep ==
  ASSUME IInv, [Next]_vars, NEW a \in Attempt, attempts[a].status # "ABSENT"
  PROVE  \/ attempts'[a] = attempts[a]
         \/ \E status \in Status, ids \in Ids : Update(a, status, ids, Status)
<1>1. ASSUME NEW b \in Attempt, NEW status \in Status, NEW ids \in Ids,
             Update(b, status, ids, Status), b # a
      PROVE  attempts'[a] = attempts[a]
  BY <1>1 DEF Update, IInv, TypeOK
<1>2. ASSUME NEW b \in Attempt, NEW k \in LogicalKey,
             ReserveNew(k, b) \/ ReserveNoop(k, b)
      PROVE  attempts'[a] = attempts[a]
  BY <1>2 DEF ReserveNew, ReserveNoop, IInv, TypeOK
<1>3. QED
  BY <1>1, <1>2 DEF Next, Tick, SavePlan, vars

\* A recorded outcome is never reversed, by whoever answers late.
THEOREM OutcomeIsFinal == Spec => FinalOutcome
<1>1. ASSUME IInv, [Next]_vars, NEW a \in Attempt,
             attempts[a].status \in {"SUCCEEDED", "FAILED", "NOOP"}
      PROVE  attempts'[a] = attempts[a]
  <2>1. ASSUME NEW status \in Status, NEW ids \in Ids,
               Update(a, status, ids, Status)
        PROVE  FALSE
    BY <1>1, <2>1, UpdateRow DEF IInv, Unsettled
  <2>2. QED
    BY <1>1, <2>1, RowStep
<1>2. IInv /\ [Next]_vars =>
        [\A a \in Attempt : attempts[a].status \in {"SUCCEEDED", "FAILED", "NOOP"}
            => attempts'[a] = attempts[a]]_vars
  BY <1>1
<1>3. QED
  BY <1>2, Invariance, PTL DEF Spec, FinalOutcome

\* The remote identifiers of an attempt are written once.
THEOREM RemoteIdOnce == Spec => RemoteIdWrittenOnce
<1>1. ASSUME IInv, [Next]_vars, NEW a \in Attempt, NEW f \in IdField,
             attempts[a].ids[f] # None
      PROVE  attempts'[a].ids[f] = attempts[a].ids[f]
  <2>1. CASE attempts'[a] = attempts[a]
    BY <2>1
  <2>2. ASSUME NEW status \in Status, NEW ids \in Ids,
               Update(a, status, ids, Status)
        PROVE  attempts'[a].ids[f] = attempts[a].ids[f]
    <3>1. TypeOK /\ RowsWellFormed
      BY <1>1 DEF IInv
    <3>2. attempts[a].ids \in Ids
      BY <3>1 DEF TypeOK, AttemptRow
    <3>3. IdsAgree(attempts[a].ids, ids)
      BY <2>2 DEF Update, CanUpdate
    <3>4. attempts'[a].ids = Merge(attempts[a].ids, ids)
      BY <2>2, <3>1 DEF Update, TypeOK
    <3>5. QED
      BY <1>1, <3>2, <3>3, <3>4, MergeIds
  <2>3. attempts[a].status # "ABSENT"
    BY <1>1 DEF IInv, RowsWellFormed, NoIds
  <2>4. QED
    BY <1>1, <2>1, <2>2, <2>3, RowStep
<1>2. IInv /\ [Next]_vars =>
        [\A a \in Attempt, f \in IdField :
            attempts[a].ids[f] # None => attempts'[a].ids[f] = attempts[a].ids[f]]_vars
  BY <1>1
<1>3. QED
  BY <1>2, Invariance, PTL DEF Spec, RemoteIdWrittenOnce

\* The digest of a plan with an attempt, or not yet expired, is frozen.
THEOREM DigestFrozen == Spec => DigestFrozenByAttempt
<1>1. ASSUME IInv, [Next]_vars, NEW k \in LogicalKey, plans[k].status # "ABSENT",
             plans'[k].created # plans[k].created
      PROVE  AttemptsOf(k) = {} /\ Expires(k) <= now
  <2>1. ASSUME NEW j \in LogicalKey, NEW created \in 0..now, SavePlan(j, created)
        PROVE  AttemptsOf(k) = {} /\ Expires(k) <= now
    BY <1>1, <2>1 DEF SavePlan, Refreshable, IInv, TypeOK
  <2>2. ASSUME NEW j \in LogicalKey, NEW b \in Attempt,
               ReserveNew(j, b) \/ ReserveNoop(j, b)
        PROVE  FALSE
    BY <1>1, <2>2 DEF ReserveNew, ReserveNoop, IInv, TypeOK
  <2>3. ASSUME NEW b \in Attempt, NEW status \in Status, NEW ids \in Ids,
               Update(b, status, ids, Status)
        PROVE  FALSE
    BY <1>1, <2>3 DEF Update, IInv, TypeOK
  <2>4. plans' # plans
    BY <1>1
  <2>5. QED
    BY <1>1, <2>1, <2>2, <2>3, <2>4 DEF Next, Tick, vars
<1>2. IInv /\ [Next]_vars =>
        [\A k \in LogicalKey :
            plans[k].status # "ABSENT" /\ plans'[k].created # plans[k].created
              => AttemptsOf(k) = {} /\ Expires(k) <= now]_vars
  BY <1>1
<1>3. QED
  BY <1>2, Invariance, PTL DEF Spec, DigestFrozenByAttempt

\* The three together: update_delivery_attempt and save_delivery_plan never
\* change what an operator or OpenCTI may already have acted upon.
THEOREM RecordsStand == Spec => NothingIsRewritten
  BY OutcomeIsFinal, RemoteIdOnce, DigestFrozen DEF NothingIsRewritten

-----------------------------------------------------------------------------
(* The tables implement PlanClaim. *)

\* An inserted PREPARED row is a claim.
LEMMA ReserveNewClaims ==
  ASSUME IInv, NEW k \in LogicalKey, NEW a \in Attempt, ReserveNew(k, a)
  PROVE  Claim!Claim(k, a)
<1> DEFINE row == [plan |-> k, status |-> "PREPARED", ids |-> NoIds]
<1>1. /\ \A j \in LogicalKey :
           AttemptsOf(j)' = IF j = k THEN AttemptsOf(k) \cup {a} ELSE AttemptsOf(j)
      /\ \A j \in LogicalKey : a \notin AttemptsOf(j)
      /\ attempts'[a] = row
      /\ \A b \in Attempt \ {a} : attempts'[b] = attempts[b]
  BY ReservedRow DEF ReserveNew, Status
<1>2. Live(a)'
  BY <1>1 DEF Live, Obstructs, Unsettled
<1>3. \A b \in Attempt \ {a} : Live(b)' <=> Live(b)
  BY <1>1, SameRow
<1>4. \A j \in LogicalKey : AttemptsOf(j) \subseteq Attempt \ {a}
  BY <1>1 DEF AttemptsOf
<1>5. \A b \in AttemptsOf(k) : ~ Live(b)
  BY DEF ReserveNew, CanReserve, Live, Delivered
<1>6. Claimants' = [Claimants EXCEPT ![k] = {a}]
  BY <1>1, <1>2, <1>3, <1>4, <1>5 DEF Claimants
<1>7. Claimants[k] = {} /\ \A j \in LogicalKey : a \notin Claimants[j]
  BY <1>4, <1>5 DEF Claimants
<1>8. Released' = Released /\ a \notin Released
  BY <1>1 DEF Released, HasRemoteId, ReserveNew
<1>9. DeliveredKeys' = DeliveredKeys
  BY <1>1, <1>4 DEF DeliveredKeys, Delivered
<1>10. QED
  BY <1>6, <1>7, <1>8, <1>9 DEF Claim!Claim

\* A NOOP row is no claim.
LEMMA ReserveNoopStutters ==
  ASSUME IInv, NEW k \in LogicalKey, NEW a \in Attempt, ReserveNoop(k, a)
  PROVE  UNCHANGED <<Claimants, Released, DeliveredKeys>>
<1>1. /\ \A j \in LogicalKey :
           AttemptsOf(j)' = IF j = k THEN AttemptsOf(k) \cup {a} ELSE AttemptsOf(j)
      /\ \A j \in LogicalKey : a \notin AttemptsOf(j)
      /\ attempts'[a] = [plan |-> k, status |-> "NOOP", ids |-> NoIds]
      /\ \A b \in Attempt \ {a} : attempts'[b] = attempts[b]
  BY ReservedRow DEF ReserveNoop, Status
<1>2. ~ Live(a)'
  BY <1>1 DEF Live, Obstructs, Unsettled
<1>3. \A b \in Attempt \ {a} : Live(b)' <=> Live(b)
  BY <1>1, SameRow
<1>4. \A j \in LogicalKey : AttemptsOf(j) \subseteq Attempt \ {a}
  BY <1>1 DEF AttemptsOf
<1>5. Claimants' = Claimants
  BY <1>1, <1>2, <1>3, <1>4 DEF Claimants
<1>6. Released' = Released
  BY <1>1 DEF Released, HasRemoteId, ReserveNoop
<1>7. DeliveredKeys' = DeliveredKeys
  BY <1>1, <1>4 DEF DeliveredKeys, Delivered
<1>8. QED
  BY <1>5, <1>6, <1>7

\* An update completes the claim, gives it back, or keeps it.
LEMMA UpdateKeepsClaim ==
  ASSUME IInv, NEW a \in Attempt, NEW status \in Status, NEW ids \in Ids,
         Update(a, status, ids, Status)
  PROVE  Claim!Next \/ UNCHANGED <<Claimants, Released, DeliveredKeys>>
<1> DEFINE k == attempts[a].plan
<1>1. /\ k \in LogicalKey
      /\ attempts[a].status \in Unsettled
      /\ attempts' = [attempts EXCEPT ![a] =
           [plan |-> k, status |-> status, ids |-> Merge(attempts[a].ids, ids)]]
  BY UpdateRow DEF IInv
<1> HIDE DEF k
<1>2. /\ attempts'[a].plan = k
      /\ attempts'[a].status = status
      /\ \A b \in Attempt \ {a} : attempts'[b] = attempts[b]
  BY <1>1 DEF IInv, TypeOK
<1>3. \A j \in LogicalKey : AttemptsOf(j)' = AttemptsOf(j)
  BY <1>2 DEF AttemptsOf, k
<1>4. Live(a) /\ a \in AttemptsOf(k)
  BY <1>1 DEF Live, Obstructs, AttemptsOf, k
<1>5. \A b \in Attempt \ {a} : Live(b)' <=> Live(b)
  BY <1>2, SameRow
<1>6. /\ \A j \in LogicalKey : AttemptsOf(j) \subseteq Attempt
      /\ \A j \in LogicalKey \ {k} : a \notin AttemptsOf(j)
  BY DEF AttemptsOf, k
<1>7. \A b \in AttemptsOf(k) : b # a => ~ Live(b)
  BY <1>1, <1>4 DEF IInv, OneLiveAttempt
<1>8. Claimants[k] = {a}
  BY <1>1, <1>4, <1>6, <1>7 DEF Claimants
<1>9. k \notin DeliveredKeys
  BY <1>1, <1>6, <1>7 DEF DeliveredKeys, Delivered, Live, Unsettled
<1>10. Live(a)' => Claimants' = Claimants
  BY <1>3, <1>4, <1>5, <1>6 DEF Claimants
<1>11. a \notin Released
  BY <1>1 DEF Released, Unsettled
<1>12. CASE status = "SUCCEEDED"
  <2>1. DeliveredKeys' = DeliveredKeys \cup {k}
    BY <1>2, <1>3, <1>4, <1>6, <1>12, <1>1 DEF DeliveredKeys, Delivered
  <2>2. Released' = Released
    BY <1>2, <1>11, <1>12 DEF Released, HasRemoteId
  <2>3. Claim!Deliver(k)
    BY <1>2, <1>8, <1>9, <1>10, <1>12, <2>1, <2>2 DEF Live, Claim!Deliver
  <2>4. QED
    BY <1>1, <2>3 DEF Claim!Next
<1>13. CASE status # "SUCCEEDED"
  <2>1. DeliveredKeys' = DeliveredKeys
    BY <1>1, <1>2, <1>3, <1>6, <1>13 DEF DeliveredKeys, Delivered, Unsettled
  <2>2. Live(a)' <=> a \notin Released'
    <3>1. status \in Unsettled \cup {"SUCCEEDED", "FAILED"}
      BY UpdateRow DEF IInv, Status, Unsettled
    <3>2. QED
      BY <1>2, <3>1 DEF Live, Obstructs, Released, Unsettled
  <2>3. \A b \in Attempt \ {a} : b \in Released' <=> b \in Released
    BY <1>2 DEF Released, HasRemoteId
  <2>4. CASE Live(a)'
    <3>1. Released' = Released
      BY <1>11, <2>2, <2>3, <2>4 DEF Released
    <3>2. QED
      BY <1>10, <2>1, <2>4, <3>1
  <2>5. CASE ~ Live(a)'
    <3>1. Released' = Released \cup {a}
      BY <2>2, <2>3, <2>5 DEF Released
    <3>2. Claimants' = [Claimants EXCEPT ![k] = {}]
      BY <1>1, <1>3, <1>5, <1>6, <1>7, <2>5 DEF Claimants
    <3>3. Claim!Release(k, a)
      BY <1>8, <1>9, <2>1, <3>1, <3>2 DEF Claim!Release
    <3>4. QED
      BY <1>1, <3>3 DEF Claim!Next
  <2>6. QED
    BY <2>4, <2>5
<1>14. QED
  BY <1>12, <1>13

\* The ledger keeps the promise of PlanClaim: one claim per plan at a time,
\* given back only without a trace, kept for ever once delivered.
THEOREM Implementation == Spec => ImplementsPlanClaim
<1>1. Init => Claim!Init
  BY NoneAssumption
  DEF Init, Claim!Init, Claimants, Released, DeliveredKeys, Delivered, AttemptsOf,
      NoAttempt
<1>2. IInv /\ [Next]_vars => [Claim!Next]_(Claim!vars)
  <2> SUFFICES ASSUME IInv, [Next]_vars PROVE [Claim!Next]_(Claim!vars)
    OBVIOUS
  <2>1. ASSUME attempts' = attempts
        PROVE  UNCHANGED Claim!vars
    BY <2>1 DEF Claim!vars, Claimants, Released, DeliveredKeys, Delivered,
                AttemptsOf, Live, Obstructs, HasRemoteId
  <2>2. ASSUME NEW k \in LogicalKey, NEW a \in Attempt, ReserveNew(k, a)
        PROVE  Claim!Next
    BY <2>2, ReserveNewClaims DEF Claim!Next
  <2>3. ASSUME NEW k \in LogicalKey, NEW a \in Attempt, ReserveNoop(k, a)
        PROVE  UNCHANGED Claim!vars
    BY <2>3, ReserveNoopStutters DEF Claim!vars
  <2>4. ASSUME NEW a \in Attempt, NEW status \in Status, NEW ids \in Ids,
               Update(a, status, ids, Status)
        PROVE  [Claim!Next]_(Claim!vars)
    BY <2>4, UpdateKeepsClaim DEF Claim!vars
  <2>5. QED
    BY <2>1, <2>2, <2>3, <2>4 DEF Next, Tick, SavePlan, vars
<1>3. QED
  BY <1>1, <1>2, Invariance, PTL DEF Spec, Claim!Spec, ImplementsPlanClaim
=============================================================================
