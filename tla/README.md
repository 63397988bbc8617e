# A formal model of the CTI AI Trust Gateway

The gateway takes a source document and a STIX bundle that an AI tool produced from it, checks the bundle against the
document, lets an analyst review what is doubtful, and delivers the approved objects to OpenCTI as a draft. This
directory holds TLA+ modules that model its core, TLC configurations that check them on small instances, and proofs
that TLAPS checks for every value of the constants. Paths below are those of the repository; `delivery/…`, `storage/…`,
`core/…` and so on are under `src/cti_trust_gateway/`. `PROJECT.json` lists, for every definition that models code, the
lines it translates.

Contents: 1 the system · 2 the modules · 3 the runs · 4 fairness · 5 where code and documents disagree · 6 the proofs ·
7 faults · 8 what is not modelled · 9 plan

## 1. The system

| Component | State it keeps | Operations | Modelled in |
|---|---|---|---|
| Analysis pipeline (`core/service.py`, `core/claims.py`, `providers/semantic.py`) | none between calls; one call builds a case | `analyze`, `_semantic_findings` | `CaseAnalysis` |
| Evidence matching (`evidence/engine.py`) | status of each claim | `verify_claims`, `bilingual_consistency_findings` | `CaseAnalysis`, by outcome |
| STIX validation (`validators/stix.py`), document scanning (`scanners/document_security.py`) | none | `validate_candidate`, `scan_document` | `CaseAnalysis`, by outcome |
| Policy engine (`policies/engine.py`, `policies/default.yml`) | none | `evaluate_policy` | `CaseAnalysis` |
| Case store (`storage/repository.py`, `core/snapshots.py`) | one row per case: the whole case as one JSON payload with reviews and a hash-chained audit history | `save`, `add_review`, `append_audit`, `verify_audit_chain` | `AuditLog`, `CaseStore` |
| Exporter (`exporters/exporter.py`) | none | `build_export` | `CaseExport` |
| OpenCTI compatibility (`compatibility/checker.py`) | none | `check_opencti_compatibility`, `_cycle_findings` | `CompatibilityCheck`, `ReferenceCheck` |
| Approved artifact (`delivery/artifact.py`) | none | `build`, `_close_dependencies` | `ApprovedArtifact` |
| Delivery ledger (`storage/repository.py`) | tables `delivery_plans`, `delivery_attempts` | `save_delivery_plan`, `reserve_delivery_attempt`, `update_delivery_attempt` | `PlanClaim`, `DeliveryLedger` |
| Delivery service (`delivery/service.py`) | none of its own; several processes share the tables | `create_plan`, `execute`, `reconcile` | `DeliveryService` |
| OpenCTI adapter (`delivery/transport.py`) | none | `probe`, `deliver`, `reconcile` | `DeliveryService` |
| Destination security and configuration (`delivery/security.py`, `delivery/config.py`) | none; each command reads its environment, the CA bundle and the resolver | `OpenCTIConfig.from_env`, `validate_nonsecret`, `parse_destination`, `resolve_destination`, `destination_fingerprint` | `Destination`; as outcomes in `DeliveryService` |
| API, CLI, demo, document parsing | none | thin entry points; text and PDF parsing | not modelled |

**How they interact.** `analyze` runs the checks, evaluates the policy and stores the case. Everything later reads the
stored case: `add_review` and the delivery's audit events extend it, `build_export` and the artifact builder select
objects from it. `create_plan` assesses the case (artifact and compatibility), computes a digest and stores a plan
unique on its logical key; `execute` assesses again, compares the digest the operator confirmed, reserves an attempt,
assesses once more, and talks to OpenCTI over several exchanges, writing what it learned into the attempt row after
each; `reconcile` asks OpenCTI for the outcome of an attempt that was left open. Nothing runs in the background: every
operation is a process started by an operator, and all processes share one SQLite file.

**What is hard about it.** No lock is held between two transactions of one process, so any two processes interleave
between every read, write and network exchange; a mutation of OpenCTI cannot be undone or identified again, and its
answer may be lost; processes die; plans expire and are refreshed under one key; a review can land between any two
steps; the configuration, the CA bundle and the answers of the resolver may differ at every reading. In the analysis
and the artifact the difficulty is not concurrency but order: findings are taken back, objects
drop out and pull others in, a search marks as it goes, and two selections are supposed to agree. The `hazards` of
`PROJECT.json` list each at its line with the properties that watch it.

**What makes each part correct.** *Ledger*: one attempt stands per plan; the plan row says what its attempts say;
outcomes are final; remote identifiers are written once. *Service*: at most one create-draft and one upload per plan,
no request without a reservation that stands, no success that is not OpenCTI's, no outcome lost to a stale row, no
outcome and no stored plan missing from the trail, commands return, open attempts can be settled when their import work
is known and are left to the operator when it is not. *Destination*: mutations go to the origin, under the trust and
within the options the plan froze, every connection goes to acceptable addresses of an origin the allowlist names, and
the logical key decides whether a plan is blocked.
*Case store*: the chain verifies, no event is lost, reviews and history agree. *Analysis and export*: the verdict is
the strictest, a pass is verified and validated, objects of a claim with a high finding of `verify_claims` stay in (an
entity that is only not found gets a medium one and is left to the analyst), the two ways out agree. *Artifact*:
closed, free of cycles, as large as it may be, nothing excluded comes back. *Compatibility*: what it accepts object by
object it accepts together, nothing with a TLP:RED object marking leaves, the order in which a tool wrote the objects
decides nothing.

## 2. The modules

    PlanClaim  <--implements--  DeliveryLedger  <--implements--  DeliveryService
    AuditLog   <--implements--  CaseStore
    ReferenceCheck  <--EXTENDS--  ApprovedArtifact
    CaseAnalysis    <--EXTENDS--  CaseExport
    Destination, CompatibilityCheck: on their own

`MC…` modules give constants to TLC, `…Proofs` modules hold theorems. Modules that stand on their own meet the others
where the code lets one part decide for another: the gates of `DeliveryService` pass or refuse as `Destination` says in
detail, and `flagged` in `ApprovedArtifact` is what `CompatibilityCheck` finds of an object.

**DeliveryLedger.** `plans` is `delivery_plans` by logical key, `attempts` is `delivery_attempts` by identifier, `now`
the clock. Each action is one transaction opened with BEGIN IMMEDIATE, hence atomic: `SavePlan` (with the refresh of an
expired plan), `ReserveNew` and `ReserveNoop` (the two returns of `reserve_delivery_attempt`), `Update`. A refused call
raises and changes nothing: it is a predicate (`CanReserve`, `CanUpdate`), not an action. The digest of a plan is its
creation time, which is what distinguishes two plans of one key. The module does not restrict its callers.
**PlanClaim** is the promise: an attempt claims a plan, excludes all others, gives the claim back only when it left no
trace, and a delivered plan stays claimed.

**DeliveryService.** Planners, executors and reconcilers are processes with a program counter; each step is one
transaction, one read or one half of an exchange. `create_plan` is `BuildPlan` (assess, take the time), `PeekPlan`
(which row is there?), `SavePlan` (the transaction, which may hand back another planner's row) and `AuditPlan` (the
event `opencti.plan.created` or `.refreshed`, in `planTrail`). `execute` is `ReadPlan`, `GateCheck`, `Reserve`,
`Recheck`, `Probe`, `EnterBoundary`, `SendDraft`, `DraftReply`, `RecordDraft`, `SendUpload`, `UploadReply`,
`RecordUpload`, `Poll`…, `Classify`, `Record`, `Audit`. `reconcile` is `ReadAttempt`, then `Abandon` or `AskWork`,
`RecordAnswer`, `AuditAnswer`. `remote` is what OpenCTI was asked and did: it may carry a request out or refuse it at
any time after it was sent, and its answer may be an error, a loss or (with `MalformedReplies`) one without a usable
identifier. Any process may crash at any step. The tables are changed through `Ledger!…` operators only; that this
amounts to `DeliveryLedger!Spec` is checked as a refinement (`LedgerSpec`). The review snapshot is a number that every
review moves, and is the logical key: case, policy, profile and configuration are fixed.

**CaseStore.** The row of one case, with the lock of the database explicit: `Call`, `Begin` (BEGIN IMMEDIATE), `Load`
(the payload is read), `AppendAudit` or `AddReview` (the extended payload is written and committed), `Rollback` at any
point. SHA-256 is taken to be injective: a hash is the sequence of contents it covers. `analyze` inserts the row under
a fresh identifier (`Analyze`). **AuditLog** is the promise: a log that is opened once and then only grows at its end.

**ReferenceCheck** is `_cycle_findings`: the recursion of `visit` is a stack of frames, identifiers are numbers
because the search follows their order. **ApprovedArtifact** is `ApprovedArtifactBuilder.build`: search of the
candidate, `Select` (findings, reviews, claims, verdict), the closure object by object (`Pass`, `Resolve`), the
report, the second search (`Recheck`) and the gates (`Conclude`). What single-object compatibility checks say is a
fact about the object (`flagged`); the integrity checks of the snapshot are one nondeterministic blocker; the markings
the report refers to are any subset of the control objects in the selection. Two consequences of the code, seen while
modelling: the MISSING_DEPENDENCY branch of the closure is dead when called from `build`, because
`check_opencti_compatibility` already refuses an object with a dangling reference; and a control object pulled in by
an object that is dropped later stays selected, unreferenced.

**CompatibilityCheck** is `check_opencti_compatibility` as a function of a list of objects (`Findings`) and the two uses
the builder makes of it: `Select` takes any closed set of objects nothing was found of, `Conclude` checks them again
together with the report. A list is a function from positions, so that an identifier may occur twice and the first
occurrence counts; an object may lack its identifier (`Missing`), and then blocks the delivery, and a relationship an
end. What an object has is of the type STIX gives it. The profile is a constant. `RecheckIsQuiet` is what justifies the
constant fact `flagged` of `ApprovedArtifact`: what is said of a selected object does not change between the two checks.

**Destination** is one command after another in an environment that changes. `Start` is `from_env` with the adapter's
snapshot of the CA bundle, `CreatePlan` stores a plan with its fingerprint, options and blockers, `Gate` and
`ReconcileGate` compare the environment of this command with the plan, `Probe`, `Draft`, `Upload` and `Query` are the
exchanges, each but `Upload` after a `resolve_destination` of its own. The file and the resolver have no memory: each
reading chooses its result. `DestinationError` is the chain of complaints of `validate_nonsecret` and
`parse_destination` in its order, `AddressAllowed` that of `_address_allowed`. Hosts, addresses and bundles are values
with the predicates the code asks of them. What OpenCTI does with the requests, and the attempts, are
`DeliveryService`'s business.

**CaseAnalysis** is `analyze` from the scan to the stored case. `Scan`, `Verify` (one turn of the loop of
`verify_claims`), `Compare`, `Ask` (one turn of `_semantic_findings`: no answer, `Answer` or `Fail`), `Handle` (the TLP
conflict), `Evaluate` (one turn of `evaluate_policy`), `Save`. The texts are gone: each check has every outcome the
code can give it, and what is kept is the order, what each stage writes, and which findings it takes back. Findings
carry rule, category, severity, claim and objects, because that is what the policy and the selections look at.
`DefaultPolicy` is `policies/default.yml`. **CaseExport** adds reviews and the two ways out: `Exported` is
`build_export`, `Delivered` is the selection of the artifact builder when nothing but findings, claims and reviews
decides (everything else only makes it smaller).

## 3. The runs

State counts are distinct states of complete searches. "Deadlock" says whether TLC also checks that the system never
stops; it is off only where processes end by design (commands return, a build concludes).

| Run | States | Deadlock | What it shows |
|---|---|---|---|
| `Ledger` | 10,889 (symmetry on attempts) | checked | the properties of the tables, and `ImplementsPlanClaim`, for any sequence of calls |
| `ServiceRace` | 758,386 (symmetry on executors) | off | the safety of `execute` against `execute`, `reconcile`, reviews and crashes; no outcome is lost to a stale row, dead ends stay; the processes implement `DeliveryLedger` |
| `ServiceReturns` | 151,962 | off | `ExecuteReturns`, and why (`ExecuteProgresses`); every stored plan is on the trail (`PlanIsAudited`) |
| `ServiceSettles` | 28,840 | off | `KnownWorkSettles` |
| `Destination` | 41,880 | checked | mutations and connections under fifteen configurations and an environment that changes |
| `CaseHistory` | 20,686 (symmetry on writers) | checked | the audit chain and the reviews under two writers; `ImplementsAuditLog` |
| `Compatibility` | 56,923 | off | both checks of every list of three objects of the pool |
| `ArtifactBuild` | 139,422 | off | searches, selection and closure for every graph of the instance; `BuildEnds`, and why (`BuildProgresses`) |
| `CaseExport` | 1,428,451 | checked | verdict, export and delivery under the default policy; the assertion of `analyze` |

Violations, one property each (section 5): `MalformedReply`, `PollRefused`, `ExportReviewed`.

**Bounds and why they are enough.** *Ledger*: three attempts on an open plan (one stands, one failed without a trace,
one asks), beside a plan that is blocked; three remote identifiers, one of which the ledger refuses; plans that live
one tick of a clock that runs two, so a plan expires, is refreshed, and expires again. Several open plans do not
interfere: the theorems hold for any number, and `ServiceReturns` has two. *ServiceRace*: two executors and a
reconciler that repeats are the smallest cast for every race named in the hazards; one review, so a second snapshot,
whose assessment is blocked (`BlockedKey <- LastBlocked`); one planner; one poll; no clock; identifiers are usable (the
other case is the violation `MalformedReply`). *ServiceReturns*: one executor, two polls, so that the loop goes round;
unusable identifiers allowed; two planners, a review between them, and a clock that lets the plan expire at the gates
and be refreshed by the second planner while the first still holds the old row. *Destination*: one process, one command
after another (commands meet only in the stored plans; that a refresh by another process in the middle of a command
changes nothing is proved, for any number of processes, and not part of the run); a base configuration and fourteen
that differ from it in one respect each (a single change is what a comparison could miss); two bundles besides an
unusable one; seven addresses, one for each way through `_address_allowed`, in eight answers; two plans, so that a plan
of another configuration is always at hand. *Compatibility*: twenty-one objects, one without an identifier and the
others over seven, several of each in different versions, so that lists of three contain duplicates, conflicts, a
relationship with and without the objects at its ends, one that names no source, an end of the wrong type, markings that agree, disagree, are red by text or by identifier, and a channel with an
embedded or a separate extension; a limit of three objects, which the report exceeds. *ServiceSettles*: one executor,
one reconciler, no reviews: settling depends on one attempt only. *CaseHistory*: two writers (the argument is about
pairs), four events. *ArtifactBuild*: every graph on three objects with at most two references each, one of them
possibly dangling, six kinds of objects, depth limit 2: every cycle shape, chains longer than the limit, control
objects pulled in and dropped. *CaseExport*: a malware, a technique, a relationship between them, four claims of the
four kinds that the code treats differently (an observable or a vulnerability has a subset of a technique's outcomes),
every outcome of every check, every sequence of reviews. The names of the bounds: `MaxTime`, `MaxReviews`,
`PollAttempts` (the code's own), `MaxEvents`, `MaxDepth` and `MaxObjects` (the code's own), `MaxRefs`, `MaxList`,
`MaxPlans`, `NumClaims`.

In `CaseExport` deadlock is checked although `analyze` may raise in its last stage, after which nothing happens any
more: under the default policy it never does (`AnalyzeNeverRaises`), so the RuntimeError of `core/service.py:122` is
out of reach.

## 4. Fairness

Safety properties need none. The three liveness properties assume:

- `ReturnSpec` (`ExecuteReturns`): an executor that has started takes its next step. The code has no wait without a
  timeout: HTTP exchanges have one, SQLite has a busy timeout, the poll loop has a count. Nothing is assumed of
  OpenCTI.
- `SettleSpec` (`KnownWorkSettles`): besides, OpenCTI ends an import work it runs, and an operator keeps repeating
  `reconcile`: weak fairness of a running command, strong fairness of starting it, of an answer that settles, and of
  recording it. That is the procedure `docs/opencti-phase1.md:118-120` prescribes; without an operator nothing in the
  code would settle an attempt.
- `BuildSpec` (`BuildEnds`): the function runs.

Reviews, the clock, crashes and the carrying out of a request are never obliged to happen.

## 5. Where code and documents disagree

Each is a run that TLC must find violated; `PROJECT.json` quotes code and document.

- **MalformedReply** (`OneDraftPerPlan`). An answer to create-draft without a usable identifier counts as a definite
  failure (`delivery/transport.py:217`), although the draft exists. The attempt becomes FAILED without a trace, its
  claim is released, and an executor that passed its gates earlier creates a second draft.
- **PollRefused** (`FailureIsRemote`). A destination that is refused while polling (`resolve_destination` runs again at
  each poll) turns a submitted attempt with a running work into a final FAILED, which `reconcile` then refuses.
- **ExportReviewed** (`ExportsAreReviewed`). `build_export` exports what a supported claim names under REVIEW and
  ABSTAIN without any decision, the ends of a supported relationship included.

The first two are also where the documents are kept further than one might fear. Even with unusable answers the
artifact itself is uploaded at most once (theorem `OneUpload`): what can be there twice is an empty draft. And what
`docs/opencti-phase1.md:119-120` leaves to the operator, an attempt open without an import work on record, is touched
by no process any more (`DeadEndsStay`).

Seen while modelling, without a run of their own:

- *The digest between gates and reservation.* The reservation takes the plan id only, so a plan refreshed after the
  gates compared its digest (`delivery/service.py:180`) is delivered under the digest of its successor. From the
  reservation on the digest is frozen (`NothingIsRewritten`), and both digests are on the trail (`PlanIsAudited`).
- *Depth.* The depth limit of `_cycle_findings` bounds the depth of the search, not of the graph: a chain longer than
  the limit passes when the identifiers sort so that its end is visited first.
- *Trust of queries.* `deliver` compares the adapter's own CA snapshot with the plan (`delivery/transport.py:197`);
  the probes and the query of `reconcile` connect under the snapshot of their command without that comparison: only
  the file as it is read again is compared. Only mutations are promised the frozen trust
  (`MutationAtFrozenDestination`).
- *IPv6 loopback.* `::1` is also reserved for the `ipaddress` module, so the refusal at `delivery/security.py:123`
  wins over the opt-in that `docs/opencti-phase1.md:138` describes.
- *Stale blockers.* `create_plan` may hand back a row stored under another configuration of the same key
  (`delivery/service.py:78`). Whether it is blocked cannot differ (`KeyDecidesBlocked`), the list of its blockers can.
- *Port 0.* `parse_destination` and `_allowlist_authority` take port 0 in a URL, and in an entry `[IPv6]:0`, for 443
  (`delivery/security.py:63`, `81`), while `host:0` is refused (`68`). `Names` says so; no other entry names an origin
  whose port it does not give.
- *Review of supported objects.* Like `build_export`, the artifact builder selects the objects of supported claims under
  REVIEW without a decision (`delivery/artifact.py:238-242`), where `docs/opencti-phase1.md:83-84` says that REVIEW
  objects require an explicit eligible analyst acceptance.
- *Entities that are not found.* `verify_claims` gives an entity the source does not name NOT_FOUND with a finding of
  medium severity (`evidence/engine.py:305`), unlike an observable, a vulnerability or a technique. Under REVIEW an
  accept therefore lets it out both ways; `RefutedStaysIn` is about findings of high severity only.
- *Granular markings.* `docs/opencti-phase1.md:75` says that TLP:RED is blocked; the check reads `object_marking_refs`
  only (`compatibility/checker.py:303-305`), so a part of an object marked TLP:RED by a granular marking does not
  block it.
- *Profile entries without effect.* Relationship tuples that name a plain `identity` (from line 139 of the profile on)
  never decide anything: an identity is admitted only with a class, and `_semantic_type` then names the class.

## 6. The proofs

All for every value of the constants, from the named assumptions of the modules only.

**DeliveryLedgerProofs** (assumes `KeyAssumption`, `IdAssumption`, `NoneAssumption`, `TimeAssumption`): `TypeCorrect`,
`OneLive`, `Mirror`, `NoopSound`, `RecordsStand`, `Implementation`. The invariant is
`TypeOK /\ RowsWellFormed /\ OneLiveAttempt /\ NoopFollowsSuccess /\ PlanMirrorsAttempts`. That one attempt stands is
not inductive alone: an update may only turn a standing attempt into one that does not stand, which needs the status
table and the shape of the rows, and the mirror in the plan row needs in turn that only one attempt stands.
`RecordsStand` proves `NothingIsRewritten`, the conjunction of final outcomes, identifiers written once, and digests
frozen by the first attempt. `Implementation` maps each transaction to a claim, a release, a delivery or a stutter of
`PlanClaim`.

**DeliveryServiceProofs** (assumes `ServiceAssumption`, `LedgerAssumption`): `ServiceTypeCorrect`,
`SuccessMeansComplete`, `RefinesLedger`, `MutationsAreReserved`, `StaleNeverSends`, `OutcomesAreTold`, `PlansAreTold`,
and, when replies carry usable identifiers, `ClaimKept` and `OneDraft` (the run `MalformedReply` shows that the
hypothesis is needed). The invariant ties each program counter to the row of its attempt (`RowFollows`), to what
OpenCTI was asked (`RemoteFollows`), to what the process knows (`KnowsIds`, `KnowsSnapshot`) and a reconciler to the
work it asks about (`RecFollows`): until the import work is on record, the row of an attempt says where its executor
is, because a reconciler may touch it in no other way than by abandoning a reservation; from then on only the rules of
the ledger protect it. Each step changes one process and at most one row (`Effect`), and the rest of the invariant is
carried over by frames. `RefinesLedger` shows that the steps are transactions of `DeliveryLedger`, so that the
theorems of `DeliveryLedgerProofs` hold of the tables of the service and are used as lemmas: `OneDraft` follows from
`ClaimKept` (an attempt with its draft out keeps its claim; `Traced` says that it never looks traceless) and
`OneLiveAttempt`. `StaleNeverSends` rests on the snapshot that only moves forward: equal at the gates and at the
recheck means unmoved in between. `PlansAreTold` adds that every row a planner holds in its hands is already named by
an event, written or owed (`PlansAudited`).

The tables are followed from the processes to the promise. `TablesFollow` shows that the behaviours of the service are
behaviours of `DeliveryLedger` as the proofs instantiate it; from there `ClaimUnderProcesses` concludes that the
processes implement `PlanClaim`, which composes the two refinements, and `RecordsUnderProcesses` that nothing recorded
is rewritten under them.

Four results need no hypothesis on OpenCTI's answers. `OneUpload`: an upload leaves only after the draft is on record
(`Uploaded`), a row with a remote identifier keeps its claim for good, and the ledger lets one row of a plan have a
claim. `NoLostOutcome`: whatever a process is about to write, the identifiers it brings are those on record or none,
and the row has not been moved to where the transition table refuses the outcome, unless it is settled (`Answers`,
which `Plain`, `ExecAnswers` and `RecAnswers` spell out for the two kinds of processes). `DeadEndsAreLeft`: such a row
obstructs every reservation of its plan, no executor is at it, and a reconciler that holds it knows no work to ask
about. `ExecuteIsBounded` and `StepsLeftIsNatural`: the stages of `execute` are passed in one direction
and polling is counted down, so `StepsLeft`, a natural number, goes down at each step of an executor and at its death,
and stays where it is at the steps of all others.

**CaseStoreProofs** (assumes `FindingAssumption`, `CaseAssumption`): `StoreTypeCorrect`, `ChainAlwaysVerifies`,
`NoEventLost`, `ReviewsAreHistory`, `StoreImplementsLog`. The invariant adds `Exclusion` (only the holder of the lock
is past BEGIN IMMEDIATE), `FreshCopy` (what it loaded is what the row says) and `CaseExists`; from these a commit
extends the stored history by one event, and the increasing map from reviews to their events by at most one place.

**ReferenceCheckProofs** and **ApprovedArtifactProofs** (assume `IdAssumption`, `DepthAssumption`, `ObjectAssumption`,
`CandidateAssumption`, `FactAssumption`): `ArtifactTypeCorrect`, `FindingsExact`, `ClosureIsLargestClosed`,
`ExcludedNeverDelivered`, `ArtifactHasNoCycle`, `BuildIsBounded`, `BuildMeasureIsNatural`. The search invariant says
that a visit ends after those of everything it refers to that was not reported (`Ordered`), so unreported references
lead from later to earlier visits and a cycle of them has no earliest object. The closure invariant says that a pass
that has changed nothing leaves what it looked at closed (`PassInv`) and that what may be delivered with all it refers
to is never dropped (`KeepsLargest`); the selection at the end is therefore the largest closed set, whatever the order.
`ArtifactHasNoCycle` combines both: refused objects break every cycle of the candidate, and the report is referred to
by nothing.

`BuildIsBounded` is the core of the termination of `build`: `Measure` goes down lexicographically at every step. Its
last part, `SearchLeft`, counts roots, unvisited objects and references not followed yet; it goes down because the
frames of the stack are visits of different objects (`Distinct`), so that a followed reference is not offered again by
another frame. `ClosureLeft` counts the control objects that may still come in, the objects without a reason for their
exclusion, and the pass that a change asks for: an object is pulled in only while it has no reason, gets a reason when
it is dropped, and keeps it. Counting needs that a candidate is finite, the part `IsFiniteSet(Object)` of
`ObjectAssumption`: it is a list in memory.

**CaseExportProofs** (assumes `CandidateAssumption`, `PolicyAssumption`): `ExportTypeCorrect`, `StrictestVerdict`,
`RefutedNeverLeaves`, `ExportClosed`, `DeliveryWithinExport`, for any candidate and any policy, and `PassIsVerified`
for any candidate under `DefaultPolicy`. The invariant says that a refuted claim keeps a hard finding on all objects
it names (`RefutedIsHard`), which holds because what an answer of the verifier takes back is never hard
(`DoubtIsMedium`), and that the verdict is the strictest of the rules seen so far (`VerdictSoFar`). `ExportClosed` and
`DeliveryWithinExport` need no history: they follow in every state from the two selections and from the shape of the
claims (a relationship has a claim of its own, and its ends are no relationships).

`PassIsVerified` has an invariant of its own (`VInv`): a claim in doubt always has a finding of its own that some rule
of the policy takes note of (`Covered`), because an answer other than support takes no doubt back, and every grave
finding is covered. `AssertionHolds` uses the same invariant: a validation that was not executed is told about in a
finding of no claim (`FailureIsTold`), which nothing takes back, and for which a rule of the default policy abstains.

**CompatibilityCheckProofs** (assumes `CandidateAssumption`, `ProfileAssumption`, `MissingAssumption`):
`SecondCheckIsQuiet`, `RedNeverLeaves`, `OrderIsIrrelevant`, for any profile and any lists. A selected object has no
complaint and refers to selected objects only, so that what it is checked against is in the artifact as it was in the
candidate (`SelectedObject`); for the order, the first occurrence of an identifier is as good as any other when nothing
contradicts it.

**DestinationProofs** (assumes `ConfigAssumption`, `AddressAssumption`, `BundleAssumption`, `OriginAssumption`,
`NoneAssumption`): `DestinationTypeCorrect`, `MutationsFrozen`, `ConnectionsVetted`, `BlockedByItsKey`, `UploadsFollow`.
The invariant says of each process what its program counter implies about its configuration, its plan and its last
connection (`InOrder`). A plan that is not blocked is determined by its key (`SameKey`), so a refresh replaces it by
itself and the plan a process holds stays among the stored ones. `ConnectionsAreVetted` is stated with `Acceptable` and
`Names`, which say what the documents promise of an address and of an entry of the allowlist; that `_address_allowed`
and `_allowlist_authority`, with the order of their tests and the defaults of their ports, deliver it are the lemmas
`AllowedIsAcceptable` (for which no loopback address may lie in a private network, `AddressAssumption`) and
`AuthorityIsNamed`.

**Only model-checked.** The liveness properties, which are out of this prover's reach: it can reason neither about
ENABLED, hence not about fairness, nor by induction over the values of a measure. Of `ExecuteReturns` and `BuildEnds` it
proves everything else: each step lowers a measure (`ExecuteProgresses`, `BuildProgresses`), and the measure is well
founded. What is left to TLC is that before the end some step is always possible. Of `KnownWorkSettles`, whose progress
depends on an operator and on OpenCTI, nothing is proved. In the other direction, `OneUploadPerPlan` (`OneUpload`),
`NothingLost` (`NoEventLost`) and `ExcludedStaysOut` (`ExcludedNeverDelivered`) are proved and no run checks them; nor
does a run repeat the type invariants, which are theorems (`…TypeCorrect`), but for that of `DeliveryService`, which
contains that of the tables.

## 7. Faults

Where a module says `XFault`, it is a plausible wrong version of `X`; no behaviour of the model uses it. The table says
which property fails when it takes the place of `X`: evidence that the property depends on that code.

| Property | Fault |
|---|---|
| `DeliveryService!TypeOK` | `ReserveNoop` copies NOOP into the plan row (`NoopMirrorFault`) |
| `OneLiveAttempt` | `CanReserveFault` |
| `PlanMirrorsAttempts` | `ReserveNewFault` |
| `NoopFollowsSuccess` | `ReserveNoopFault` |
| `NothingIsRewritten` | `IdsAgreeFault` (and `RefreshableFault`, for its conjunct `DigestFrozenByAttempt`) |
| `ImplementsPlanClaim` | `AllowedFault` |
| `OneDraftPerPlan` | `MutationFailsFault` |
| `RequestKeepsClaim` | `AbandonFault` |
| `SuccessIsReal` | `WorkAnswersFault` |
| `OutcomeIsAudited` | `RecordFault` |
| `MutationUnderReservation` | `EnterBoundaryFault` |
| `StaleReservationNeverSends` | `RecheckFault` |
| `LedgerSpec` | `RecordBlindFault` |
| `PlanIsAudited` | `SavePlanFault` |
| `ExecuteProgresses`, `ExecuteReturns` | `PollFault` |
| `OnlySettledRefuses` | `AllowedNarrowFault` |
| `DeadEndsStay` | `ReadAttemptBlindFault` |
| `KnownWorkSettles` | `ReadAttemptFault` |
| `MutationAtFrozenDestination` | `DraftFault` |
| `ConnectionsAreVetted` | `ResolvesFault`, `AddressAllowedFault` (the opt-ins before the refusals), `AllowlistAuthorityFault` (port 0) |
| `KeyDecidesBlocked` | `KeyFault` |
| `UploadFollowsDraft` | `UploadFault` |
| `ChainVerifies` | `MakeEventFault` |
| `ReviewsFollowHistory` | `AddReviewFault` |
| `ImplementsAuditLog` | `BeginFault` |
| `CycleFindingsAreExact` | `LeaveFault` (and `VisitFault`, for its conjunct `FindingsAreReal`) |
| `SelectionIsLargestClosed` | `ResolveObjectFault` (and `BlockingFault`, for its conjunct `SelectionIsLargest`) |
| `RecheckFindsOnlyDepth` | `RefusedFault` |
| `BuildProgresses`, `BuildEnds` | `PulledFault` |
| `RecheckIsQuiet` | `MarkingsFault` |
| `RedStaysIn` | `TlpValueFault` |
| `OrderDecidesNothing` | `ConflictsFault` |
| `VerdictIsStrictest` | `EvaluateFault` |
| `PassMeansVerified` | `SettledFault` |
| `AnalyzeNeverRaises` | `ValidationsFault` |
| `RefutedStaysIn` | `AnswerFault` |
| `ExportIsClosed` | `EndsApprovedFault` |
| `DeliveredIsExported` | `AuthorizedFault` |

## 8. What is not modelled

- The texts: parsing, pattern matching, fuzzy search, schemas. They have no state and no order; their results are
  chosen freely among those the code can return. `ValidationStatus.SKIPPED` is never produced by
  `_run_schema_validation`, so it is only the value before the scan.
- The exceptions that end `analyze` before the scan (size limits, unreadable input): nothing has been stored by then.
- Hashes and digests as bytes: equal exactly when what they cover is equal.
- TLS, headers, redirects and limits of answers: outcomes of the exchanges. The parsing of environment variables: an
  identifier or a version is complete or not. In `DeliveryService` the configuration is fixed; that it may change
  between commands is the subject of `Destination`.
- The limit on the bytes of an artifact (the number of objects stands for it), a candidate that cannot be
  canonicalized, and the loader of the compatibility profile, which compares a digest and has no state.
- `Repository.save` over an existing case, which only tests call, and the read-only queries.
- The command line, the HTTP API and the demo: they call one operation at a time. Relationships whose ends are
  relationships: the STIX library refuses them.

## 9. Plan

In order of importance; the modules above were written in the order ledger, service, store, artifact, export,
destination, compatibility.

1. The integrity checks of `_snapshot_blockers`, so that an artifact and the case store compose: a case changed behind
   the audit chain is never delivered.
2. Evidence matching and claim extraction by what they compare: spans of the source and the claims an object gives rise
   to, in place of the free outcomes of `CaseAnalysis`.
3. The files `build_export` writes, one after another, and what a process that dies between them leaves behind.
4. A second policy in `CaseExport`, to show which of its properties depend on the default one.
