--------------------------- MODULE DestinationProofs ---------------------------
(***************************************************************************)
(* Theorems about Destination, for any configurations, bundles, answers of *)
(* the resolver and number of commands.  The invariant says, per program   *)
(* counter, which comparison with the plan a command has passed; that a    *)
(* renewed row cannot disturb it is because the logical key decides        *)
(* whether a plan is blocked.                                              *)
(***************************************************************************)
EXTENDS Destination, TLAPS

\* Every command has a configuration.
Configured(p) == session[p].pc # "idle" => session[p].conf \in Config

\* Those that work for a plan found their configuration equal to it.
Bound(p) ==
  session[p].pc \notin {"idle", "ready"} =>
    \E file \in File : SameDestination(session[p].conf, file, session[p].plan)

\* Executors work for a stored plan without blockers.
Executing(p) ==
  session[p].pc \in {"reserved", "boundary", "drafted", "submitted"} =>
    session[p].plan \in plans /\ session[p].plan.blockers = {}

\* After create-draft the target is the one that was connected to.
Drafted(p) ==
  session[p].pc = "drafted" =>
    /\ session[p].answer \in Answers
    /\ wire[p] = [purpose |-> "draft", answer |-> session[p].answer, trust |-> session[p].ca]

\* A connection went to acceptable addresses, a mutation under the plan's trust.
Wired(p) ==
  wire[p] # None =>
    /\ session[p].pc \in {"boundary", "drafted", "submitted", "probed"}
    /\ \A a \in wire[p].answer : AddressAllowed(a, session[p].conf.options)
    /\ wire[p].purpose \in {"draft", "upload"} =>
         /\ session[p].pc \in {"drafted", "submitted"}
         /\ wire[p].trust = session[p].ca
         /\ wire[p].trust = session[p].plan.dest.ca

InOrder(p) == Configured(p) /\ Bound(p) /\ Executing(p) /\ Drafted(p) /\ Wired(p)

IInv == TypeOK /\ \A p \in Process : InOrder(p)

-----------------------------------------------------------------------------
(* What the logical key decides *)

\* A plan is blocked for what its destination and options show.
LEMMA BlockedByKey ==
  ASSUME NEW c \in Config, NEW file \in File
  PROVE  LET plan == PlanFor(c, file) IN
         plan.blockers = {} <=> /\ plan.dest.version = ProfileVersion
                                /\ plan.dest.origin # None
                                /\ ~ (ArtifactObjects > plan.options.max)
<1>1. Origin(c) # None
  BY OriginAssumption
<1>2. PlanFor(c, file).dest.origin # None <=> DestinationError(c, file) = None
  BY <1>1 DEF PlanFor, Fingerprint
<1>3. Blockers(c, file) = {} <=> /\ c.version = ProfileVersion
                                 /\ DestinationError(c, file) = None
                                 /\ ~ (ArtifactObjects > c.options.max)
  BY DEF Blockers
<1> QED BY <1>2, <1>3 DEF PlanFor, Fingerprint

\* Two plans of one key are both blocked or the same plan.
LEMMA SameKey ==
  ASSUME NEW x \in PossiblePlan, NEW y \in PossiblePlan, Key(x) = Key(y)
  PROVE  /\ x.blockers = {} <=> y.blockers = {}
         /\ x.blockers = {} => x = y
<1>1. PICK c \in Config, f \in File : x = PlanFor(c, f)
  BY DEF PossiblePlan
<1>2. PICK d \in Config, g \in File : y = PlanFor(d, g)
  BY DEF PossiblePlan
<1>3. x.dest = y.dest /\ x.options = y.options
  BY DEF Key
<1>4. x.blockers = {} <=> y.blockers = {}
  BY <1>1, <1>2, <1>3, BlockedByKey
<1>5. /\ x = [dest |-> x.dest, options |-> x.options, blockers |-> x.blockers]
      /\ y = [dest |-> y.dest, options |-> y.options, blockers |-> y.blockers]
  BY <1>1, <1>2 DEF PlanFor
<1> QED BY <1>3, <1>4, <1>5

\* Whether a plan is blocked is decided by its logical key, in every state.
LEMMA KeyDecides == TypeOK => KeyDecidesBlocked
<1> SUFFICES ASSUME TypeOK,
                    NEW row \in plans, NEW c \in Config, NEW file \in File,
                    Key(row) = Key(PlanFor(c, file))
             PROVE  row.blockers = {} <=> Blockers(c, file) = {}
  BY DEF KeyDecidesBlocked
<1>1. row \in PossiblePlan /\ PlanFor(c, file) \in PossiblePlan
  BY DEF TypeOK, PossiblePlan
<1>2. PlanFor(c, file).blockers = Blockers(c, file)
  BY DEF PlanFor
<1> QED BY <1>1, <1>2, SameKey

-----------------------------------------------------------------------------
(* Each command keeps the invariant *)

LEMMA InitInvariant == Init => IInv
<1> SUFFICES ASSUME Init PROVE IInv
  OBVIOUS
<1>1. Idle \in Session
  BY DEF Idle, Session, PC
<1>2. TypeOK
  BY <1>1 DEF Init, TypeOK
<1>3. \A p \in Process : session[p].pc = "idle" /\ wire[p] = None
  BY DEF Init, Idle
<1> QED BY <1>2, <1>3 DEF IInv, InOrder, Configured, Bound, Executing, Drafted, Wired

\* A command that does not move stays in order as long as no unblocked plan
\* disappears.
LEMMA OthersKeep ==
  ASSUME NEW q \in Process, InOrder(q),
         session'[q] = session[q], wire'[q] = wire[q],
         \A row \in plans : row.blockers = {} => row \in plans'
  PROVE  InOrder(q)'
  BY DEF InOrder, Configured, Bound, Executing, Drafted, Wired

\* The common shape of the steps: one command moves.
LEMMA OneMoves ==
  ASSUME IInv, NEW p \in Process, NEW me, NEW link,
         session' = [session EXCEPT ![p] = me], me \in Session,
         wire' = [wire EXCEPT ![p] = link], link \in Connection \cup {None},
         plans' \subseteq PossiblePlan, uploaded' \subseteq plans',
         \A row \in plans : row.blockers = {} => row \in plans'
  PROVE  /\ TypeOK'
         /\ session'[p] = me /\ wire'[p] = link
         /\ InOrder(p)' => IInv'
<1>1. session' \in [Process -> Session] /\ wire' \in [Process -> Connection \cup {None}]
  BY DEF IInv, TypeOK
<1>2. TypeOK'
  BY <1>1 DEF TypeOK
<1>3. session'[p] = me /\ wire'[p] = link
  BY DEF IInv, TypeOK
<1>4. ASSUME NEW q \in Process, q # p PROVE InOrder(q)'
  <2>1. session'[q] = session[q] /\ wire'[q] = wire[q] /\ InOrder(q)
    BY <1>4 DEF IInv, TypeOK
  <2> QED BY <2>1, OthersKeep
<1> QED BY <1>2, <1>3, <1>4 DEF IInv

LEMMA StartKeeps ==
  ASSUME IInv, NEW p \in Process, Start(p)
  PROVE  IInv'
<1>1. PICK c \in Config, file \in File :
        /\ Trust(c, file) # Unusable
        /\ session' = [session EXCEPT ![p] =
             [@ EXCEPT !.pc = "ready", !.conf = c, !.ca = Trust(c, file)]]
  BY DEF Start
<1> DEFINE me == [session[p] EXCEPT !.pc = "ready", !.conf = c, !.ca = Trust(c, file)]
<1>2. Trust(c, file) \in Bundle \cup {None}
  BY <1>1 DEF Trust, File
<1>3. session[p] \in Session /\ wire \in [Process -> Connection \cup {None}]
  BY DEF IInv, TypeOK
<1>4. me \in Session /\ me.pc = "ready" /\ me.conf = c
  BY <1>2, <1>3 DEF Session, PC
<1>5. wire[p] = None
  BY DEF IInv, InOrder, Wired, Start
<1>6. wire' = [wire EXCEPT ![p] = None]
  BY <1>3, <1>5 DEF Start
<1>7. session' = [session EXCEPT ![p] = me]
  BY <1>1
<1>8. plans' = plans /\ uploaded' = uploaded
  BY DEF Start
<1>9. plans' \subseteq PossiblePlan /\ uploaded' \subseteq plans'
  BY <1>8 DEF IInv, TypeOK
<1> HIDE DEF me
<1>10. session'[p] = me /\ wire'[p] = None /\ (InOrder(p)' => IInv')
  BY <1>4, <1>6, <1>7, <1>8, <1>9, OneMoves
<1>11. InOrder(p)'
  BY <1>4, <1>10 DEF InOrder, Configured, Bound, Executing, Drafted, Wired
<1> QED BY <1>10, <1>11

LEMMA EndKeeps ==
  ASSUME IInv, NEW p \in Process, End(p)
  PROVE  IInv'
<1>1. Idle \in Session /\ Idle.pc = "idle"
  BY DEF Idle, Session, PC
<1>2. /\ session' = [session EXCEPT ![p] = Idle] /\ wire' = [wire EXCEPT ![p] = None]
      /\ plans' = plans /\ uploaded' = uploaded
  BY DEF End
<1>3. plans' \subseteq PossiblePlan /\ uploaded' \subseteq plans'
  BY <1>2 DEF IInv, TypeOK
<1>4. session'[p] = Idle /\ wire'[p] = None /\ (InOrder(p)' => IInv')
  BY <1>1, <1>2, <1>3, OneMoves
<1>5. InOrder(p)'
  BY <1>1, <1>4 DEF InOrder, Configured, Bound, Executing, Drafted, Wired
<1> QED BY <1>4, <1>5

\* Only a renewal takes a row away, and puts its equal in its place.
LEMMA CreateKeeps ==
  ASSUME IInv, NEW p \in Process, CreatePlan(p)
  PROVE  IInv'
<1>1. session[p].conf \in Config
  BY DEF IInv, InOrder, Configured, CreatePlan
<1> DEFINE new(f) == PlanFor(session[p].conf, f)
           same(f) == {row \in plans : Key(row) = Key(new(f))}
<1>2. PICK file \in File :
        \/ plans' = plans \cup {new(file)}
        \/ plans' = plans
        \/ /\ same(file) \cap uploaded = {} /\ \E row \in same(file) : row.blockers = {}
           /\ plans' = (plans \ same(file)) \cup {new(file)}
  BY DEF CreatePlan
<1>3. new(file) \in PossiblePlan
  BY <1>1 DEF PossiblePlan
<1>4. plans \subseteq PossiblePlan /\ uploaded \subseteq plans
  BY DEF IInv, TypeOK
<1>5. ASSUME NEW row \in plans, row.blockers = {} PROVE row \in plans'
  <2>1. CASE row \in same(file)
    BY <1>2, <1>3, <1>4, <1>5, <2>1, SameKey
  <2>2. CASE row \notin same(file)
    BY <1>2, <2>2
  <2> QED BY <2>1, <2>2
<1>6. plans' \subseteq PossiblePlan /\ uploaded \subseteq plans'
  <2>1. CASE plans' = plans \cup {new(file)} \/ plans' = plans
    BY <2>1, <1>3, <1>4
  <2>2. CASE same(file) \cap uploaded = {} /\ plans' = (plans \ same(file)) \cup {new(file)}
    BY <2>2, <1>3, <1>4
  <2> QED BY <1>2, <2>1, <2>2
<1>7. /\ session' = [session EXCEPT ![p] = Idle]
      /\ wire' = wire /\ uploaded' = uploaded
      /\ Idle \in Session /\ Idle.pc = "idle"
  BY DEF CreatePlan, Idle, Session, PC
<1>8. wire[p] = None /\ wire \in [Process -> Connection \cup {None}]
  BY DEF IInv, TypeOK, InOrder, Wired, CreatePlan
<1>9. wire' = [wire EXCEPT ![p] = None]
  BY <1>7, <1>8
<1> HIDE DEF new, same
<1>10. session'[p] = Idle /\ wire'[p] = None /\ (InOrder(p)' => IInv')
  BY <1>5, <1>6, <1>7, <1>9, OneMoves
<1>11. InOrder(p)'
  BY <1>7, <1>10 DEF InOrder, Configured, Bound, Executing, Drafted, Wired
<1> QED BY <1>10, <1>11

\* Both gates leave the command with a plan its configuration equals.
LEMMA GatesKeep ==
  ASSUME IInv, NEW p \in Process, NEW plan \in plans,
         Gate(p, plan) \/ ReconcileGate(p, plan)
  PROVE  IInv'
<1>1. PICK pc \in {"reserved", "asking"} :
        /\ session' = [session EXCEPT ![p].pc = pc, ![p].plan = plan]
        /\ pc = "reserved" => plan.blockers = {}
  BY DEF Gate, ReconcileGate
<1>2. /\ session[p].pc = "ready"
      /\ \E file \in File : SameDestination(session[p].conf, file, plan)
      /\ plans' = plans /\ uploaded' = uploaded /\ wire' = wire
  BY DEF Gate, ReconcileGate
<1> DEFINE me == [session[p] EXCEPT !.pc = pc, !.plan = plan]
<1>3. /\ session[p] \in Session /\ session \in [Process -> Session]
      /\ wire \in [Process -> Connection \cup {None}]
      /\ plans \subseteq PossiblePlan /\ uploaded \subseteq plans
  BY DEF IInv, TypeOK
<1>4. /\ me \in Session /\ me.pc = pc /\ me.plan = plan
      /\ me.conf = session[p].conf /\ me.ca = session[p].ca
  BY <1>3 DEF Session, PC
<1>5. session[p].conf \in Config /\ wire[p] = None
  BY <1>2 DEF IInv, InOrder, Configured, Wired
<1>6. session' = [session EXCEPT ![p] = me] /\ wire' = [wire EXCEPT ![p] = None]
  BY <1>1, <1>2, <1>3, <1>5
<1> HIDE DEF me
<1>7. session'[p] = me /\ wire'[p] = None /\ (InOrder(p)' => IInv')
  BY <1>2, <1>3, <1>4, <1>6, OneMoves
<1>8. InOrder(p)'
  <2>1. session'[p].pc = pc /\ session'[p].plan = plan /\ session'[p].conf = session[p].conf
    BY <1>4, <1>7
  <2>2. Configured(p)' /\ Drafted(p)' /\ Wired(p)'
    BY <1>5, <1>7, <2>1 DEF Configured, Drafted, Wired
  <2>3. Bound(p)'
    BY <1>2, <2>1 DEF Bound
  <2>4. plan \in plans' /\ (pc \notin {"boundary", "drafted", "submitted"})
    BY <1>2
  <2>5. Executing(p)'
    BY <1>1, <2>1, <2>4 DEF Executing
  <2> QED BY <2>5, <2>2, <2>3, <2>4 DEF InOrder
<1> QED BY <1>7, <1>8

\* What resolves is accepted address by address.
LEMMA ConnectionType ==
  ASSUME IInv, NEW p \in Process, NEW answer \in Answers,
         NEW purpose \in {"probe", "draft", "upload", "poll", "query"}
  PROVE  [purpose |-> purpose, answer |-> answer, trust |-> session[p].ca] \in Connection
<1>1. session[p].ca \in Bundle \cup {None}
  BY DEF IInv, TypeOK, Session
<1> QED BY <1>1 DEF Connection

LEMMA ProbeKeeps ==
  ASSUME IInv, NEW p \in Process, Probe(p)
  PROVE  IInv'
<1>1. PICK file \in File, answer \in Answers :
        Resolves(session[p].conf, file, answer) /\ Connect(p, "probe", answer)
  BY DEF Probe
<1> DEFINE pc == IF session[p].pc = "reserved" THEN "boundary" ELSE "probed"
           me == [session[p] EXCEPT !.pc = pc]
           link == [purpose |-> "probe", answer |-> answer, trust |-> session[p].ca]
<1>2. /\ session[p].pc \in {"reserved", "asking"}
      /\ session' = [session EXCEPT ![p] = me]
      /\ wire' = [wire EXCEPT ![p] = link]
      /\ plans' = plans /\ uploaded' = uploaded
  BY <1>1 DEF Probe, Connect
<1>3. session[p] \in Session /\ plans \subseteq PossiblePlan /\ uploaded \subseteq plans
  BY DEF IInv, TypeOK
<1>4. /\ me \in Session /\ me.pc = pc /\ me.plan = session[p].plan
      /\ me.conf = session[p].conf /\ me.ca = session[p].ca
  BY <1>3 DEF Session, PC
<1>5. link \in Connection
  BY ConnectionType
<1>6. \A a \in link.answer : AddressAllowed(a, me.conf.options)
  BY <1>1, <1>4 DEF Resolves
<1>7. link.purpose = "probe"
  OBVIOUS
<1> HIDE DEF me, link
<1>8. session'[p] = me /\ wire'[p] = link /\ (InOrder(p)' => IInv')
  BY <1>2, <1>3, <1>4, <1>5, OneMoves
<1>9. InOrder(p)
  BY DEF IInv
<1>10. InOrder(p)'
  BY <1>2, <1>4, <1>6, <1>7, <1>8, <1>9
     DEF InOrder, Configured, Bound, Executing, Drafted, Wired
<1> QED BY <1>8, <1>10

LEMMA DraftKeeps ==
  ASSUME IInv, NEW p \in Process, Draft(p)
  PROVE  IInv'
<1>1. PICK file \in File, answer \in Answers :
        /\ Resolves(session[p].conf, file, answer)
        /\ Connect(p, "draft", answer)
        /\ session' = [session EXCEPT ![p].pc = "drafted", ![p].answer = answer]
  BY DEF Draft
<1> DEFINE me == [session[p] EXCEPT !.pc = "drafted", !.answer = answer]
           link == [purpose |-> "draft", answer |-> answer, trust |-> session[p].ca]
<1>2. /\ session[p].pc = "boundary" /\ session[p].ca = session[p].plan.dest.ca
      /\ session' = [session EXCEPT ![p] = me]
      /\ wire' = [wire EXCEPT ![p] = link]
      /\ plans' = plans /\ uploaded' = uploaded
  BY <1>1 DEF Draft, Connect
<1>3. session[p] \in Session /\ plans \subseteq PossiblePlan /\ uploaded \subseteq plans
  BY DEF IInv, TypeOK
<1>4. /\ me \in Session /\ me.pc = "drafted" /\ me.plan = session[p].plan
      /\ me.conf = session[p].conf /\ me.ca = session[p].ca /\ me.answer = answer
  BY <1>3 DEF Session, PC
<1>5. link \in Connection
  BY ConnectionType
<1>6. \A a \in answer : AddressAllowed(a, me.conf.options)
  BY <1>1, <1>4 DEF Resolves
<1>7. link = [purpose |-> "draft", answer |-> answer, trust |-> me.ca]
  BY <1>4
<1> HIDE DEF me, link
<1>8. session'[p] = me /\ wire'[p] = link /\ (InOrder(p)' => IInv')
  BY <1>2, <1>3, <1>4, <1>5, OneMoves
<1>9. InOrder(p)
  BY DEF IInv
<1>10. InOrder(p)'
  BY <1>2, <1>4, <1>6, <1>7, <1>8, <1>9
     DEF InOrder, Configured, Bound, Executing, Drafted, Wired
<1> QED BY <1>8, <1>10

LEMMA UploadKeeps ==
  ASSUME IInv, NEW p \in Process, Upload(p)
  PROVE  IInv'
<1> DEFINE me == [session[p] EXCEPT !.pc = "submitted", !.answer = {}]
           link == [purpose |-> "upload", answer |-> session[p].answer,
                    trust |-> session[p].ca]
<1>1. /\ session[p].pc = "drafted"
      /\ session' = [session EXCEPT ![p] = me]
      /\ wire' = [wire EXCEPT ![p] = link]
      /\ plans' = plans /\ uploaded' = uploaded \cup {session[p].plan}
  BY DEF Upload, Connect
<1>2. /\ session[p] \in Session /\ plans \subseteq PossiblePlan /\ uploaded \subseteq plans
      /\ wire[p] \in Connection \cup {None}
  BY DEF IInv, TypeOK
<1>3. /\ me \in Session /\ me.pc = "submitted" /\ me.plan = session[p].plan
      /\ me.conf = session[p].conf /\ me.ca = session[p].ca
  BY <1>2 DEF Session, PC
<1>4. InOrder(p)
  BY DEF IInv
<1>5. /\ session[p].plan \in plans /\ session[p].answer \in Answers
      /\ wire[p] = [purpose |-> "draft", answer |-> session[p].answer,
                    trust |-> session[p].ca]
  BY <1>1, <1>4 DEF InOrder, Executing, Drafted
<1>6. wire[p] # None
  BY <1>5, ConnectionType, NoneAssumption
<1>7. /\ \A a \in wire[p].answer : AddressAllowed(a, session[p].conf.options)
      /\ wire[p].purpose = "draft" /\ wire[p].answer = session[p].answer
      /\ wire[p].purpose = "draft" => session[p].ca = session[p].plan.dest.ca
  <2>1. /\ wire[p].purpose = "draft" /\ wire[p].answer = session[p].answer
        /\ wire[p].trust = session[p].ca
    BY <1>5
  <2> QED BY <1>4, <1>6, <2>1 DEF InOrder, Wired
<1>8. link \in Connection
  BY <1>5, ConnectionType
<1>9. /\ link.purpose = "upload" /\ link.answer = session[p].answer
      /\ link.trust = session[p].ca
  OBVIOUS
<1> HIDE DEF me, link
<1>10. session'[p] = me /\ wire'[p] = link /\ (InOrder(p)' => IInv')
  <2>1. plans' \subseteq PossiblePlan /\ uploaded' \subseteq plans'
    BY <1>1, <1>2, <1>5
  <2> QED BY <1>1, <1>3, <1>8, <2>1, OneMoves
<1>11. InOrder(p)'
  BY <1>1, <1>3, <1>4, <1>7, <1>9, <1>10
     DEF InOrder, Configured, Bound, Executing, Drafted, Wired
<1> QED BY <1>10, <1>11

LEMMA QueryKeeps ==
  ASSUME IInv, NEW p \in Process, Query(p)
  PROVE  IInv'
<1>1. PICK file \in File, answer \in Answers :
        /\ Resolves(session[p].conf, file, answer)
        /\ Connect(p, IF session[p].pc = "submitted" THEN "poll" ELSE "query", answer)
  BY DEF Query
<1> DEFINE purpose == IF session[p].pc = "submitted" THEN "poll" ELSE "query"
           link == [purpose |-> purpose, answer |-> answer, trust |-> session[p].ca]
<1>2. /\ session[p].pc \in {"submitted", "probed"}
      /\ wire' = [wire EXCEPT ![p] = link]
      /\ plans' = plans /\ uploaded' = uploaded /\ session' = session
  BY <1>1 DEF Query, Connect
<1>3. /\ session[p] \in Session /\ session \in [Process -> Session]
      /\ plans \subseteq PossiblePlan /\ uploaded \subseteq plans
  BY DEF IInv, TypeOK
<1>4. session' = [session EXCEPT ![p] = session[p]]
  BY <1>2, <1>3
<1>5. link \in Connection
  BY ConnectionType
<1>6. \A a \in link.answer : AddressAllowed(a, session[p].conf.options)
  BY <1>1 DEF Resolves
<1>7. link.purpose \notin {"draft", "upload"}
  OBVIOUS
<1> HIDE DEF link
<1>8. session'[p] = session[p] /\ wire'[p] = link /\ (InOrder(p)' => IInv')
  BY <1>2, <1>3, <1>4, <1>5, OneMoves
<1>9. InOrder(p)
  BY DEF IInv
<1>10. InOrder(p)'
  BY <1>2, <1>6, <1>7, <1>8, <1>9 DEF InOrder, Configured, Bound, Executing, Drafted, Wired
<1> QED BY <1>8, <1>10

LEMMA StutterKeeps == IInv /\ UNCHANGED vars => IInv'
<1> SUFFICES ASSUME IInv, UNCHANGED vars PROVE IInv'
  OBVIOUS
<1>1. plans' = plans /\ uploaded' = uploaded /\ session' = session /\ wire' = wire
  BY DEF vars
<1>2. TypeOK'
  BY <1>1 DEF IInv, TypeOK
<1>3. ASSUME NEW p \in Process PROVE InOrder(p)'
  BY <1>1, OthersKeep DEF IInv
<1> QED BY <1>2, <1>3 DEF IInv

LEMMA StepInvariant == IInv /\ [Next]_vars => IInv'
<1> SUFFICES ASSUME IInv, [Next]_vars PROVE IInv'
  OBVIOUS
<1>1. CASE UNCHANGED vars
  BY <1>1, StutterKeeps
<1>2. CASE Next
  <2> PICK p \in Process :
        \/ Start(p) \/ End(p) \/ CreatePlan(p)
        \/ \E plan \in plans : Gate(p, plan) \/ ReconcileGate(p, plan)
        \/ Probe(p) \/ Draft(p) \/ Upload(p) \/ Query(p)
    BY <1>2 DEF Next
  <2>1. CASE Start(p)
    BY <2>1, StartKeeps
  <2>2. CASE End(p)
    BY <2>2, EndKeeps
  <2>3. CASE CreatePlan(p)
    BY <2>3, CreateKeeps
  <2>4. CASE \E plan \in plans : Gate(p, plan) \/ ReconcileGate(p, plan)
    BY <2>4, GatesKeep
  <2>5. CASE Probe(p)
    BY <2>5, ProbeKeeps
  <2>6. CASE Draft(p)
    BY <2>6, DraftKeeps
  <2>7. CASE Upload(p)
    BY <2>7, UploadKeeps
  <2>8. CASE Query(p)
    BY <2>8, QueryKeeps
  <2> QED BY <2>1, <2>2, <2>3, <2>4, <2>5, <2>6, <2>7, <2>8
<1> QED BY <1>1, <1>2

LEMMA Invariant == Spec => []IInv
<1> QED BY InitInvariant, StepInvariant, PTL DEF Spec

-----------------------------------------------------------------------------
(* The theorems *)

\* The variables keep their types.
THEOREM DestinationTypeCorrect == Spec => []TypeOK
<1>1. IInv => TypeOK
  BY DEF IInv
<1> QED BY <1>1, Invariant, PTL

\* Mutations leave only for the destination, options and trust of a stored plan,
\* whatever changed since it was made.
THEOREM MutationsFrozen == Spec => []MutationAtFrozenDestination
<1>1. IInv => MutationAtFrozenDestination
  <2> SUFFICES ASSUME IInv, NEW p \in Process, wire[p] # None,
                      wire[p].purpose \in {"draft", "upload"}
               PROVE  \E plan \in plans, c \in Config :
                        /\ session[p].conf = c
                        /\ plan.blockers = {}
                        /\ plan.dest = [origin |-> Origin(c), version |-> c.version,
                                        connector |-> c.connector, allow |-> c.allow,
                                        ca |-> wire[p].trust]
                        /\ plan.options = c.options
    BY DEF MutationAtFrozenDestination
  <2> DEFINE plan == session[p].plan
             c == session[p].conf
  <2>1. /\ session[p].pc \in {"drafted", "submitted"}
        /\ wire[p].trust = plan.dest.ca
    BY DEF IInv, InOrder, Wired
  <2>2. plan \in plans /\ plan.blockers = {} /\ c \in Config
    BY <2>1 DEF IInv, InOrder, Executing, Configured
  <2>3. PICK file \in File : SameDestination(c, file, plan)
    BY <2>1 DEF IInv, InOrder, Bound
  <2>4. /\ plan.options = c.options
        /\ DestinationError(c, file) = None
        /\ plan.dest = Fingerprint(c, file)
    BY <2>3 DEF SameDestination
  <2>5. plan.dest = [origin |-> Origin(c), version |-> c.version, connector |-> c.connector,
                    allow |-> c.allow, ca |-> Trust(c, file)]
    BY <2>4 DEF Fingerprint
  <2>6. Trust(c, file) = wire[p].trust
    BY <2>1, <2>5
  <2> QED BY <2>2, <2>4, <2>5, <2>6
<1> QED BY <1>1, Invariant, PTL

\* In whatever order _address_allowed asks, what it lets through is acceptable.
LEMMA AllowedIsAcceptable ==
  ASSUME NEW a \in UNION Answers, NEW options, AddressAllowed(a, options)
  PROVE  Acceptable(a, options)
<1>1. ~ ({"loopback", "private"} \subseteq Flags[IF Mapped[a] = None THEN a ELSE Mapped[a]])
  BY AddressAssumption
<1> QED BY <1>1 DEF AddressAllowed, Acceptable, Refused

\* What _allowlist_authority makes of an entry is an origin the entry names.
LEMMA AuthorityIsNamed ==
  ASSUME NEW item, AllowlistAuthority(item) # None
  PROVE  Names(item, AllowlistAuthority(item))
<1>1. PICK port : port = IF item.port = None \/ (item.bracketed /\ item.port = 0)
                         THEN 443 ELSE item.port
  OBVIOUS
<1>2. AllowlistAuthority(item) = IF Norm[item.host] = None \/ port \notin Ports THEN None
                                 ELSE Authority(Norm[item.host], port)
  BY <1>1 DEF AllowlistAuthority
<1>3. Norm[item.host] # None /\ AllowlistAuthority(item) = Authority(Norm[item.host], port)
  BY <1>2
<1>4. /\ AllowlistAuthority(item).host = Norm[item.host]
      /\ AllowlistAuthority(item).port = port
  BY <1>3 DEF Authority
<1>5. \/ item.port = port
      \/ port = 443 /\ (item.port = None \/ (item.port = 0 /\ item.bracketed))
  BY <1>1
<1> QED BY <1>3, <1>4, <1>5 DEF Names

\* Every exchange of every command goes to addresses that are acceptable under
\* the options of its plan, for an origin that its allowlist names.
THEOREM ConnectionsVetted == Spec => []ConnectionsAreVetted
<1>1. IInv => ConnectionsAreVetted
  <2> SUFFICES ASSUME IInv, NEW p \in Process, wire[p] # None
               PROVE  LET plan == session[p].plan IN
                      /\ \A a \in wire[p].answer : Acceptable(a, plan.options)
                      /\ \E item \in plan.dest.allow : Names(item, plan.dest.origin)
    BY DEF ConnectionsAreVetted
  <2> DEFINE plan == session[p].plan
             c == session[p].conf
  <2>1. /\ session[p].pc \notin {"idle", "ready"}
        /\ \A a \in wire[p].answer : AddressAllowed(a, c.options)
    BY DEF IInv, InOrder, Wired
  <2>2. PICK file \in File : SameDestination(c, file, plan)
    BY <2>1 DEF IInv, InOrder, Bound
  <2>3. /\ plan.options = c.options
        /\ DestinationError(c, file) = None
        /\ plan.dest.allow = c.allow /\ plan.dest.origin = Origin(c)
    BY <2>2 DEF SameDestination, Fingerprint
  <2>4. PICK item \in c.allow : AllowlistAuthority(item) = Origin(c)
    BY <2>3, NoneAssumption DEF DestinationError, Code
  <2>5. Names(item, Origin(c))
    <3>1. Origin(c) # None
      BY <2>1, OriginAssumption DEF IInv, InOrder, Configured
    <3> QED BY <2>4, <3>1, AuthorityIsNamed
  <2>6. wire[p].answer \in Answers
    BY DEF IInv, TypeOK, Connection
  <2>7. \A a \in wire[p].answer : Acceptable(a, c.options)
    BY <2>1, <2>6, AllowedIsAcceptable
  <2> QED BY <2>3, <2>5, <2>7
<1> QED BY <1>1, Invariant, PTL

\* The logical key decides whether a plan is blocked, which is what lets the
\* ledger hand a stored row to whoever asks for its key.
THEOREM BlockedByItsKey == Spec => []KeyDecidesBlocked
<1> QED BY DestinationTypeCorrect, KeyDecides, PTL

\* The upload goes where the draft was created.
THEOREM UploadsFollow == Spec => UploadFollowsDraft
<1>1. ASSUME IInv, [Next]_vars, NEW p \in Process,
             wire'[p] # None, wire'[p].purpose = "upload", wire'[p] # wire[p]
      PROVE  /\ wire[p] # None /\ wire[p].purpose = "draft"
             /\ wire'[p].answer = wire[p].answer
             /\ wire'[p].trust = wire[p].trust
  <2>1. PICK q \in Process : Upload(q) /\ q = p
    <3>0. wire \in [Process -> Connection \cup {None}]
      BY <1>1 DEF IInv, TypeOK
    <3>1. wire' # wire
      BY <1>1
    <3>2. PICK q \in Process : End(q) \/ Probe(q) \/ Draft(q) \/ Upload(q) \/ Query(q)
      BY <1>1, <3>1 DEF Next, vars, Start, CreatePlan, Gate, ReconcileGate
    <3>3. q = p
      BY <1>1, <3>0, <3>2 DEF End, Probe, Draft, Upload, Query, Connect
    <3>4. CASE End(p)
      BY <1>1, <3>0, <3>4 DEF End
    <3>5. CASE Probe(p) \/ Draft(p)
      BY <1>1, <3>0, <3>5 DEF Probe, Draft, Connect
    <3>6. CASE Query(p)
      BY <1>1, <3>0, <3>6 DEF Query, Connect
    <3> QED BY <3>2, <3>3, <3>4, <3>5, <3>6
  <2>2. /\ session[p].pc = "drafted"
        /\ wire' = [wire EXCEPT ![p] = [purpose |-> "upload", answer |-> session[p].answer,
                                        trust |-> session[p].ca]]
    BY <2>1 DEF Upload, Connect
  <2>3. /\ session[p].answer \in Answers
        /\ wire[p] = [purpose |-> "draft", answer |-> session[p].answer,
                      trust |-> session[p].ca]
    BY <1>1, <2>2 DEF IInv, InOrder, Drafted
  <2>4. wire[p] # None
    BY <1>1, <2>3, ConnectionType, NoneAssumption
  <2>5. wire'[p] = [purpose |-> "upload", answer |-> session[p].answer, trust |-> session[p].ca]
    BY <1>1, <2>2 DEF IInv, TypeOK
  <2> QED BY <2>3, <2>4, <2>5
<1>2. IInv /\ [Next]_vars =>
        [\A p \in Process :
           wire'[p] # None /\ wire'[p].purpose = "upload" /\ wire'[p] # wire[p]
             => /\ wire[p] # None /\ wire[p].purpose = "draft"
                /\ wire'[p].answer = wire[p].answer
                /\ wire'[p].trust = wire[p].trust]_vars
  BY <1>1
<1> QED BY <1>2, Invariant, PTL DEF Spec, UploadFollowsDraft
=============================================================================
