---------------------------- MODULE CaseStoreProofs ----------------------------
(***************************************************************************)
(* Theorems about CaseStore, for any number of writers, objects, findings  *)
(* and events.  The invariant adds to the properties what makes them       *)
(* inductive: a writer past BEGIN IMMEDIATE holds the lock, and the copy   *)
(* it loaded is what the row still says.                                   *)
(***************************************************************************)
EXTENDS CaseStore, TLAPS

\* Only the holder of the write lock is past BEGIN IMMEDIATE.
Exclusion == \A w \in Writer : writer[w].pc \in {"locked", "loaded"} => lock = w

\* The copy a writer extends is the payload of the row.
FreshCopy ==
  \A w \in Writer : writer[w].pc = "loaded" =>
    writer[w].reviews = reviews /\ writer[w].audit = audit

\* Writers work on a case that was analyzed.
CaseExists == \A w \in Writer : writer[w].pc # "idle" => audit # <<>>

IInv ==
  /\ TypeOK
  /\ Exclusion /\ FreshCopy /\ CaseExists
  /\ ChainVerifies
  /\ NothingLost

-----------------------------------------------------------------------------
(* Events and histories *)

\* The contents are one per event.
LEMMA ContentsEmpty ==
  ASSUME NEW h \in Seq(Event)
  PROVE  Contents(h) = <<>> <=> h = <<>>
<1>1. CASE h = <<>>
  BY <1>1 DEF Contents
<1>2. CASE h # <<>>
  <2>1. 1 \in 1..Len(h)
    BY <1>2
  <2>2. 1 \in DOMAIN Contents(h)
    BY <2>1 DEF Contents
  <2> QED BY <1>2, <2>2
<1> QED BY <1>1, <1>2

\* What make_event returns is an event that carries its content.
LEMMA MakeEventType ==
  ASSUME NEW h \in Seq(Event), NEW c \in Content \cup {Analyzed}
  PROVE  /\ MakeEvent(h, c) \in Event
         /\ MakeEvent(h, c).content = c
         /\ MakeEvent(h, c).previous = IF h = <<>> THEN <<>> ELSE h[Len(h)].hash
         /\ MakeEvent(h, c).hash = Append(MakeEvent(h, c).previous, c)
<1> DEFINE previous == IF h = <<>> THEN <<>> ELSE h[Len(h)].hash
<1>1. previous \in Hash
  <2>1. CASE h = <<>>
    BY <2>1 DEF Hash
  <2>2. CASE h # <<>>
    <3>1. h[Len(h)] \in Event
      BY <2>2
    <3> QED BY <2>2, <3>1 DEF Event
  <2> QED BY <2>1, <2>2
<1>2. Append(previous, c) \in Hash
  BY <1>1 DEF Hash
<1>3. MakeEvent(h, c) = [content |-> c, previous |-> previous, hash |-> Append(previous, c)]
  BY DEF MakeEvent
<1> HIDE DEF previous
<1>4. MakeEvent(h, c) \in Event
  BY <1>1, <1>2, <1>3 DEF Event
<1> QED BY <1>3, <1>4 DEF previous

\* A verified history stays verified when make_event extends it, and its
\* contents grow by the new one.
LEMMA ExtendHistory ==
  ASSUME NEW h \in Seq(Event), NEW c \in Content \cup {Analyzed},
         h = <<>> \/ Verifies(h)
  PROVE  LET longer == Append(h, MakeEvent(h, c)) IN
         /\ longer \in Seq(Event)
         /\ Verifies(longer)
         /\ Contents(longer) = Append(Contents(h), c)
<1> DEFINE e == MakeEvent(h, c)
           longer == Append(h, e)
<1>1. /\ e \in Event
      /\ e.content = c
      /\ e.previous = IF h = <<>> THEN <<>> ELSE h[Len(h)].hash
      /\ e.hash = Append(e.previous, c)
  BY MakeEventType
<1> HIDE DEF e
<1>2. longer \in Seq(Event) /\ longer # <<>> /\ Len(longer) = Len(h) + 1
  BY <1>1
<1>3. ASSUME NEW i \in 1..Len(longer)
      PROVE  /\ longer[i].previous = IF i = 1 THEN <<>> ELSE longer[i - 1].hash
             /\ longer[i].hash = Append(longer[i].previous, longer[i].content)
  <2>1. CASE i = Len(h) + 1
    <3>1. longer[i] = e
      BY <1>1, <2>1
    <3>2. h # <<>> => longer[i - 1] = h[Len(h)] /\ i # 1
      BY <1>1, <2>1
    <3>3. h = <<>> => i = 1
      BY <2>1
    <3> QED BY <1>1, <3>1, <3>2, <3>3
  <2>2. CASE i \in 1..Len(h)
    <3>1. Verifies(h)
      BY <2>2
    <3>2. /\ longer[i] = h[i]
          /\ i # 1 => longer[i - 1] = h[i - 1]
      BY <1>1, <2>2
    <3> QED BY <2>2, <3>1, <3>2 DEF Verifies
  <2> QED BY <1>2, <2>1, <2>2
<1>4. Verifies(longer)
  BY <1>2, <1>3 DEF Verifies
<1>5. Contents(longer) = Append(Contents(h), c)
  BY <1>1, <1>2 DEF Contents
<1> QED BY <1>2, <1>4, <1>5 DEF e

-----------------------------------------------------------------------------
(* The invariant *)

LEMMA InvInit == Init => IInv
BY DEF Init, IInv, TypeOK, Exclusion, FreshCopy, CaseExists, ChainVerifies,
       NothingLost, Contents, Idle

\* The step with which a writer commits a longer history.
LEMMA CommitStep ==
  ASSUME IInv, NEW w \in Writer, writer[w].pc = "loaded",
         NEW c \in Content,
         audit' = Append(writer[w].audit, MakeEvent(writer[w].audit, c)),
         reviews' \in Seq(Review),
         acknowledged' = Append(acknowledged, c),
         End(w)
  PROVE  IInv'
<1> USE DEF IInv
<1>1. audit' = Append(audit, MakeEvent(audit, c))
  BY DEF FreshCopy
<1>2. /\ audit' \in Seq(Event)
      /\ Verifies(audit')
      /\ Contents(audit') = Append(Contents(audit), c)
  BY <1>1, ExtendHistory DEF TypeOK, ChainVerifies
<1>3. lock = w
  BY DEF Exclusion
<1>4. \A v \in Writer \ {w} : writer[v].pc \notin {"locked", "loaded"}
  BY <1>3 DEF Exclusion
<1>5. /\ writer' = [writer EXCEPT ![w] = Idle]
      /\ lock' = None
  BY <1>3 DEF End
<1>6. /\ writer'[w] = Idle
      /\ \A v \in Writer \ {w} : writer'[v] = writer[v]
  BY <1>5 DEF TypeOK
<1>7. TypeOK'
  <2>1. acknowledged' \in Seq(Content \cup {Analyzed})
    BY DEF TypeOK
  <2>2. writer' \in [Writer -> [pc : {"idle", "waiting", "locked", "loaded"},
                                reviews : Seq(Review), audit : Seq(Event)]]
    BY <1>5 DEF TypeOK, Idle
  <2> QED BY <1>2, <1>5, <2>1, <2>2 DEF TypeOK
<1>8. \A v \in Writer : writer'[v].pc \notin {"locked", "loaded"}
  BY <1>4, <1>6 DEF Idle
<1> HIDE DEF IInv
<1>9. Exclusion' /\ FreshCopy'
  BY <1>8 DEF Exclusion, FreshCopy
<1>10. CaseExists' /\ ChainVerifies'
  BY <1>2 DEF CaseExists, ChainVerifies, Verifies
<1>11. NothingLost'
  BY <1>2 DEF NothingLost, IInv
<1> QED BY <1>7, <1>9, <1>10, <1>11 DEF IInv

\* Steps that leave the payload alone: only the lock and the writers move.
LEMMA PayloadUnchanged ==
  ASSUME IInv, UNCHANGED <<store, acknowledged>>
  PROVE  /\ ChainVerifies' /\ NothingLost'
         /\ reviews' \in Seq(Review) /\ audit' \in Seq(Event)
         /\ acknowledged' \in Seq(Content \cup {Analyzed})
BY DEF IInv, TypeOK, store, ChainVerifies, NothingLost

LEMMA InvStep == IInv /\ [Next]_vars => IInv'
<1> SUFFICES ASSUME IInv, [Next]_vars PROVE IInv'
  OBVIOUS
<1> USE DEF IInv
<1>1. CASE Analyze
  <2>1. audit = <<>> /\ audit \in Seq(Event) /\ Analyzed \in Content \cup {Analyzed}
    BY <1>1 DEF Analyze
  <2>2. audit' = Append(audit, MakeEvent(audit, Analyzed))
    BY <1>1, <2>1 DEF Analyze
  <2>3. /\ audit' \in Seq(Event) /\ Verifies(audit')
        /\ Contents(audit') = Append(Contents(audit), Analyzed)
    BY <2>1, <2>2, ExtendHistory
  <2>4. Contents(audit) = <<>>
    BY <2>1 DEF Contents
  <2>5. \A w \in Writer : writer[w].pc = "idle"
    BY <2>1 DEF CaseExists
  <2>6. UNCHANGED <<reviews, lock, writer>> /\ acknowledged' = <<Analyzed>>
    BY <1>1 DEF Analyze
  <2>7. acknowledged' \in Seq(Content \cup {Analyzed})
    BY <2>6
  <2>8. TypeOK'
    BY <2>3, <2>6, <2>7 DEF TypeOK
  <2> QED BY <2>3, <2>4, <2>5, <2>6, <2>8
          DEF Exclusion, FreshCopy, CaseExists, ChainVerifies, NothingLost
<1>2. ASSUME NEW w \in Writer, Call(w) PROVE IInv'
  <2>1. /\ UNCHANGED <<store, lock, acknowledged>> /\ audit # <<>>
        /\ writer' = [writer EXCEPT ![w].pc = "waiting"]
    BY <1>2 DEF Call
  <2>2. TypeOK'
    BY <2>1 DEF TypeOK, store
  <2>3. Exclusion' /\ FreshCopy' /\ CaseExists'
    BY <2>1 DEF TypeOK, store, Exclusion, FreshCopy, CaseExists
  <2> QED BY <2>1, <2>2, <2>3, PayloadUnchanged
<1>3. ASSUME NEW w \in Writer, Begin(w) PROVE IInv'
  <2>1. /\ UNCHANGED <<store, acknowledged>> /\ lock = None /\ lock' = w
        /\ writer[w].pc = "waiting"
        /\ writer' = [writer EXCEPT ![w].pc = "locked"]
    BY <1>3 DEF Begin
  <2>2. TypeOK'
    BY <2>1 DEF TypeOK, store
  <2>3. \A v \in Writer : writer[v].pc \notin {"locked", "loaded"}
    BY <2>1, CaseAssumption DEF Exclusion
  <2>4. Exclusion' /\ FreshCopy' /\ CaseExists'
    BY <2>1, <2>3 DEF TypeOK, store, Exclusion, FreshCopy, CaseExists
  <2> QED BY <2>1, <2>2, <2>4, PayloadUnchanged
<1>4. ASSUME NEW w \in Writer, Load(w) PROVE IInv'
  <2>1. /\ UNCHANGED <<store, lock, acknowledged>>
        /\ writer[w].pc = "locked"
        /\ writer' = [writer EXCEPT ![w] =
                        [pc |-> "loaded", reviews |-> reviews, audit |-> audit]]
    BY <1>4 DEF Load
  <2>2. TypeOK'
    BY <2>1 DEF TypeOK, store
  <2>3. Exclusion' /\ FreshCopy' /\ CaseExists'
    BY <2>1 DEF TypeOK, store, Exclusion, FreshCopy, CaseExists
  <2> QED BY <2>1, <2>2, <2>3, PayloadUnchanged
<1>5. ASSUME NEW w \in Writer, AppendAudit(w) PROVE IInv'
  <2>1. Delivery \in Content
    BY DEF Content
  <2>2. writer[w].reviews \in Seq(Review)
    BY DEF TypeOK
  <2> QED BY <1>5, <2>1, <2>2, CommitStep DEF AppendAudit
<1>6. ASSUME NEW w \in Writer, NEW r \in Review, AddReview(w, r) PROVE IInv'
  <2>1. Recorded(r) \in Content
    BY DEF Content
  <2>2. Append(writer[w].reviews, r) \in Seq(Review)
    BY DEF TypeOK
  <2> QED BY <1>6, <2>1, <2>2, CommitStep DEF AddReview
<1>7. ASSUME NEW w \in Writer, Rollback(w) PROVE IInv'
  <2>1. /\ UNCHANGED <<store, acknowledged>>
        /\ writer[w].pc # "idle"
        /\ writer' = [writer EXCEPT ![w] = Idle]
        /\ lock' = IF lock = w THEN None ELSE lock
    BY <1>7 DEF Rollback, End
  <2>2. TypeOK'
    BY <2>1 DEF TypeOK, store, Idle
  <2>3. /\ writer'[w] = Idle
        /\ \A v \in Writer \ {w} : writer'[v] = writer[v]
    BY <2>1 DEF TypeOK
  <2>4. Exclusion' /\ FreshCopy' /\ CaseExists'
    BY <2>1, <2>3 DEF store, Exclusion, FreshCopy, CaseExists, Idle
  <2> QED BY <2>1, <2>2, <2>4, PayloadUnchanged
<1>8. CASE UNCHANGED vars
  BY <1>8 DEF vars, store, TypeOK, Exclusion, FreshCopy, CaseExists, ChainVerifies, NothingLost
<1> QED BY <1>1, <1>2, <1>3, <1>4, <1>5, <1>6, <1>7, <1>8 DEF Next

LEMMA Invariance == Spec => []IInv
<1>1. Init => IInv
  BY InvInit
<1>2. IInv /\ [Next]_vars => IInv'
  BY InvStep
<1> QED BY <1>1, <1>2, PTL DEF Spec

-----------------------------------------------------------------------------
(* Theorems *)

\* The payload, the lock and the writers keep their types.
THEOREM StoreTypeCorrect == Spec => []TypeOK
<1>1. IInv => TypeOK
  BY DEF IInv
<1> QED BY <1>1, Invariance, PTL

\* Whatever writers race, verify_audit_chain accepts every history in the row.
THEOREM ChainAlwaysVerifies == Spec => []ChainVerifies
<1>1. IInv => ChainVerifies
  BY DEF IInv
<1> QED BY <1>1, Invariance, PTL

\* No event of a call that returned is ever lost or moved.
THEOREM NoEventLost == Spec => []NothingLost
<1>1. IInv => NothingLost
  BY DEF IInv
<1> QED BY <1>1, Invariance, PTL

\* A longer history in which no place of a review changed: the review that was
\* added, if any, is that of the new event.
LEMMA ReviewsExtend ==
  ASSUME IInv, ReviewsFollowHistory,
         NEW c \in Content \cup {Analyzed},
         audit' = Append(audit, MakeEvent(audit, c)),
         \/ c.review = None /\ UNCHANGED reviews
         \/ \E r \in Review : c = Recorded(r) /\ reviews' = Append(reviews, r)
  PROVE  ReviewsFollowHistory'
<1> DEFINE n == Len(reviews)
           m == Len(audit)
<1>1. /\ reviews \in Seq(Review) /\ audit \in Seq(Event)
      /\ n \in Nat /\ m \in Nat
  BY DEF IInv, TypeOK
<1>2. PICK place \in [1..n -> 1..m] :
        /\ \A i, j \in 1..n : i < j => place[i] < place[j]
        /\ \A i \in 1..n : audit[place[i]].content = Recorded(reviews[i])
        /\ \A k \in 1..m : audit[k].content.review # None => \E i \in 1..n : place[i] = k
  BY DEF ReviewsFollowHistory
<1>3. /\ Len(audit') = m + 1
      /\ \A k \in 1..m : audit'[k] = audit[k]
      /\ audit'[m + 1].content = c
  <2>1. MakeEvent(audit, c) \in Event /\ MakeEvent(audit, c).content = c
    BY <1>1, MakeEventType
  <2> QED BY <1>1, <2>1
<1> HIDE DEF m
<1>4. CASE c.review = None /\ UNCHANGED reviews
  <2>1. place \in [1..Len(reviews') -> 1..Len(audit')]
    BY <1>1, <1>2, <1>3, <1>4
  <2>2. \A k \in 1..(m + 1) :
          audit'[k].content.review # None => \E i \in 1..n : place[i] = k
    BY <1>1, <1>2, <1>3, <1>4
  <2>3. \A i \in 1..n : audit'[place[i]].content = Recorded(reviews[i])
    BY <1>1, <1>2, <1>3
  <2> QED BY <1>1, <1>2, <1>3, <1>4, <2>1, <2>2, <2>3 DEF ReviewsFollowHistory, Recorded
<1>5. ASSUME NEW r \in Review, c = Recorded(r), reviews' = Append(reviews, r)
      PROVE  ReviewsFollowHistory'
  <2> DEFINE longer == [i \in 1..(n + 1) |-> IF i = n + 1 THEN m + 1 ELSE place[i]]
  <2>1. /\ Len(reviews') = n + 1
        /\ \A i \in 1..n : reviews'[i] = reviews[i]
        /\ reviews'[n + 1] = r
    BY <1>1, <1>5
  <2> HIDE DEF n
  <2>2. \A i \in 1..n : longer[i] = place[i] /\ place[i] \in 1..m
    BY <1>1, <1>2
  <2>3. longer[n + 1] = m + 1 /\ longer \in [1..(n + 1) -> 1..(m + 1)]
    BY <1>1, <1>2
  <2> HIDE DEF longer
  <2>4. 1..(n + 1) = 1..n \cup {n + 1} /\ 1..(m + 1) = 1..m \cup {m + 1}
    BY <1>1
  <2>5. \A i, j \in 1..(n + 1) : i < j => longer[i] < longer[j]
    <3> SUFFICES ASSUME NEW i \in 1..(n + 1), NEW j \in 1..(n + 1), i < j
                 PROVE  longer[i] < longer[j]
      OBVIOUS
    <3>1. i \in 1..n
      BY <1>1
    <3>2. CASE j \in 1..n
      BY <1>2, <2>2, <3>1, <3>2
    <3>3. CASE j = n + 1
      BY <1>1, <2>2, <2>3, <3>1, <3>3
    <3> QED BY <2>4, <3>2, <3>3
  <2>6. \A i \in 1..(n + 1) : audit'[longer[i]].content = Recorded(reviews'[i])
    <3>1. \A i \in 1..n : audit'[place[i]].content = Recorded(reviews[i])
      BY <1>2, <1>3, <2>2
    <3>2. audit'[m + 1].content = Recorded(r)
      BY <1>3, <1>5
    <3> QED BY <2>1, <2>2, <2>3, <2>4, <3>1, <3>2
  <2>7. \A k \in 1..(m + 1) :
          audit'[k].content.review # None => \E i \in 1..(n + 1) : longer[i] = k
    <3>1. \A k \in 1..m : audit'[k].content.review # None => \E i \in 1..n : longer[i] = k
      BY <1>2, <1>3, <2>2
    <3>2. n + 1 \in 1..(n + 1)
      BY <1>1
    <3> QED BY <2>3, <2>4, <3>1, <3>2
  <2>8. longer \in [1..Len(reviews') -> 1..Len(audit')]
    BY <1>3, <2>1, <2>3
  <2>9. Len(reviews') = n + 1 /\ Len(audit') = m + 1
    BY <1>3, <2>1
  <2>10. \E place2 \in [1..Len(reviews') -> 1..Len(audit')] :
           /\ \A i, j \in 1..Len(reviews') : i < j => place2[i] < place2[j]
           /\ \A i \in 1..Len(reviews') : audit'[place2[i]].content = Recorded(reviews'[i])
           /\ \A k \in 1..Len(audit') :
                audit'[k].content.review # None => \E i \in 1..Len(reviews') : place2[i] = k
    <3> QED BY <2>5, <2>6, <2>7, <2>8, <2>9
  <2> QED BY <2>10 DEF ReviewsFollowHistory, Recorded
<1> QED BY <1>4, <1>5

LEMMA ReviewsStep ==
  ASSUME IInv, ReviewsFollowHistory, [Next]_vars
  PROVE  ReviewsFollowHistory'
<1> USE DEF IInv
<1>1. CASE UNCHANGED store
  <2> HIDE DEF IInv
  <2>1. reviews' = reviews /\ audit' = audit
    BY <1>1 DEF store
  <2>2. PICK place \in [1..Len(reviews) -> 1..Len(audit)] :
          /\ \A i, j \in 1..Len(reviews) : i < j => place[i] < place[j]
          /\ \A i \in 1..Len(reviews) : audit[place[i]].content = Recorded(reviews[i])
          /\ \A k \in 1..Len(audit) :
               audit[k].content.review # None => \E i \in 1..Len(reviews) : place[i] = k
    BY DEF ReviewsFollowHistory
  <2> QED BY <2>1, <2>2 DEF ReviewsFollowHistory, Recorded
<1>2. CASE Analyze
  <2>1. audit = <<>> /\ audit \in Seq(Event) /\ Analyzed \in Content \cup {Analyzed}
    BY <1>2 DEF Analyze
  <2>2. audit' = Append(audit, MakeEvent(audit, Analyzed)) /\ UNCHANGED reviews
    BY <1>2, <2>1 DEF Analyze
  <2> QED BY <2>1, <2>2, ReviewsExtend DEF Analyzed
<1>3. ASSUME NEW w \in Writer, AppendAudit(w) PROVE ReviewsFollowHistory'
  <2>1. audit' = Append(audit, MakeEvent(audit, Delivery)) /\ UNCHANGED reviews
    BY <1>3 DEF AppendAudit, FreshCopy
  <2>2. Delivery \in Content \cup {Analyzed} /\ Delivery.review = None
    BY DEF Content, Delivery
  <2> HIDE DEF IInv
  <2> QED BY <2>1, <2>2, ReviewsExtend
<1>4. ASSUME NEW w \in Writer, NEW r \in Review, AddReview(w, r) PROVE ReviewsFollowHistory'
  <2>1. /\ audit' = Append(audit, MakeEvent(audit, Recorded(r)))
        /\ reviews' = Append(reviews, r)
    BY <1>4 DEF AddReview, FreshCopy
  <2>2. Recorded(r) \in Content \cup {Analyzed}
    BY DEF Content
  <2> HIDE DEF IInv
  <2> QED BY <2>1, <2>2, ReviewsExtend
<1>5. ASSUME NEW w \in Writer, Call(w) \/ Begin(w) \/ Load(w) \/ Rollback(w)
      PROVE  UNCHANGED store
  BY <1>5 DEF Call, Begin, Load, Rollback
<1>6. UNCHANGED vars => UNCHANGED store
  BY DEF vars
<1> QED BY <1>1, <1>2, <1>3, <1>4, <1>5, <1>6 DEF Next

\* The reviews of the payload are those of the history, in its order, whatever
\* writers race and whichever calls are refused or rolled back.
THEOREM ReviewsAreHistory == Spec => []ReviewsFollowHistory
<1>1. Init => ReviewsFollowHistory
  <2> SUFFICES ASSUME Init PROVE ReviewsFollowHistory
    OBVIOUS
  <2>1. reviews = <<>> /\ audit = <<>> /\ Len(reviews) = 0 /\ Len(audit) = 0
    BY DEF Init
  <2>2. 1..Len(reviews) = {} /\ 1..Len(audit) = {}
    BY <2>1
  <2>3. [i \in 1..Len(reviews) |-> i] \in [1..Len(reviews) -> 1..Len(audit)]
    BY <2>2
  <2> QED BY <2>2, <2>3 DEF ReviewsFollowHistory
<1> QED BY <1>1, ReviewsStep, Invariance, PTL DEF Spec

\* A commit appends one entry to the log.
LEMMA CommitRecords ==
  ASSUME IInv, NEW w \in Writer, writer[w].pc = "loaded",
         NEW c \in Content, c \in Entry,
         audit' = Append(writer[w].audit, MakeEvent(writer[w].audit, c))
  PROVE  Log!Next
<1> USE DEF IInv
<1>1. audit' = Append(audit, MakeEvent(audit, c)) /\ audit # <<>>
  BY DEF FreshCopy, CaseExists
<1>2. Contents(audit') = Append(Contents(audit), c)
  BY <1>1, ExtendHistory DEF TypeOK, ChainVerifies
<1>3. Contents(audit) # <<>>
  BY <1>1, ContentsEmpty DEF TypeOK
<1>4. Log!Record(c)
  BY <1>2, <1>3 DEF Log!Record, History, Contents
<1> QED BY <1>4 DEF Log!Next

\* The row implements AuditLog: entries are only ever added, one at a time, and
\* no refused review is among them.
THEOREM StoreImplementsLog == Spec => ImplementsAuditLog
<1>1. Init => Log!Init
  BY DEF Init, Log!Init, History, Contents
<1>2. ASSUME IInv, [Next]_vars PROVE [Log!Next]_History
  <2> USE DEF IInv
  <2>1. CASE UNCHANGED audit
    BY <2>1 DEF History, Contents
  <2>2. CASE Analyze
    <3>1. audit = <<>> /\ audit \in Seq(Event) /\ Analyzed \in Content \cup {Analyzed}
      BY <2>2 DEF Analyze
    <3>2. audit' = Append(audit, MakeEvent(audit, Analyzed))
      BY <2>2, <3>1 DEF Analyze
    <3>3. Contents(audit') = Append(Contents(audit), Analyzed)
      BY <3>1, <3>2, ExtendHistory
    <3>4. Contents(audit) = <<>>
      BY <3>1 DEF Contents
    <3>5. Contents(audit)' = <<Analyzed>>
      BY <3>3, <3>4 DEF Contents
    <3> QED BY <3>4, <3>5 DEF Log!Open, Log!Next, History
  <2>3. ASSUME NEW w \in Writer, AppendAudit(w) PROVE Log!Next
    <3>1. Delivery \in Content /\ Delivery \in Entry
      BY DEF Content, Entry
    <3> QED BY <1>2, <2>3, <3>1, CommitRecords DEF AppendAudit
  <2>4. ASSUME NEW w \in Writer, NEW r \in Review, AddReview(w, r) PROVE Log!Next
    <3>1. Recorded(r) \in Content /\ Recorded(r) \in Entry
      BY <2>4 DEF Content, Entry, AddReview
    <3> QED BY <1>2, <2>4, <3>1, CommitRecords DEF AddReview
  <2>5. ASSUME NEW w \in Writer, Call(w) \/ Begin(w) \/ Load(w) \/ Rollback(w)
        PROVE  UNCHANGED audit
    BY <2>5 DEF Call, Begin, Load, Rollback, store
  <2>6. UNCHANGED vars => UNCHANGED audit
    BY DEF vars, store
  <2> QED BY <1>2, <2>1, <2>2, <2>3, <2>4, <2>5, <2>6 DEF Next
<1> QED BY <1>1, <1>2, Invariance, PTL DEF Spec, ImplementsAuditLog, Log!Spec
=============================================================================
