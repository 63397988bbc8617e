------------------------------ MODULE Destination ------------------------------
(***************************************************************************)
(* Where a delivery goes: the configuration a command reads from its       *)
(* environment (delivery/config.py), the rules about URLs and addresses    *)
(* (delivery/security.py), the trust snapshot of the adapter and its two   *)
(* gates before a mutation (delivery/transport.py), and what create_plan,  *)
(* execute and reconcile compare with the plan (delivery/service.py).      *)
(*                                                                         *)
(* Environment variables are read once per command; the CA bundle file and *)
(* the resolver are asked again and again, and each time may say something *)
(* else.  They have no memory here: every reading chooses its result.      *)
(* A step that raises ends the command (End).                              *)
(*                                                                         *)
(* XFault is a plausible wrong version of X that the model never uses.     *)
(***************************************************************************)
EXTENDS Naturals, FiniteSets

CONSTANTS
  Process,         \* commands: one of create_plan, execute, reconcile each
  Config,          \* configurations OpenCTIConfig.from_env may return
  Bundle,          \* contents the CA bundle file may have
  Unusable,        \* the file is missing, a symlink, or too large
  Norm,            \* host spelling -> normalized host, or None
  Answers,         \* sets of addresses the resolver may answer with
  Flags,           \* address -> the ipaddress predicates that hold of it
  Mapped,          \* address -> the IPv4 address it maps, or None
  ProfileVersion,  \* platform version of the compatibility profile
  ArtifactObjects, \* size of the approved artifact
  None,
  MaxPlans         \* bound on the rows of delivery_plans

\* What is configured, apart from the secrets (ready: enabled, with a token)
\* and with the shape of identifiers and versions reduced to complete.
IsConfig(c) ==
  /\ DOMAIN c = {"ready", "complete", "url", "allow", "ca", "version", "connector", "options"}
  /\ {c.ready, c.complete, c.ca} \subseteq BOOLEAN
  /\ DOMAIN c.url = {"scheme", "plain", "host", "port"}
  /\ DOMAIN c.options = {"private", "loopback", "max"}

ASSUME ConfigAssumption == \A c \in Config : IsConfig(c)
\* The networks of the code that are private hold no loopback address.
ASSUME AddressAssumption ==
  \A a \in UNION Answers :
    ~ ({"loopback", "private"} \subseteq Flags[IF Mapped[a] = None THEN a ELSE Mapped[a]])
ASSUME BundleAssumption == Unusable \notin Bundle /\ None \notin Bundle /\ None # Unusable

VARIABLES
  plans,      \* rows of delivery_plans
  uploaded,   \* keys of the plans for which OpenCTI returned an import work
  session,    \* the command each process runs
  wire        \* the last connection of each command

vars == <<plans, uploaded, session, wire>>

-----------------------------------------------------------------------------
(* delivery/security.py *)

\* urlsplit: a port that is not given, and port 0, are the default.
UrlPort(u) == IF u.port \in {None, 0} THEN 443 ELSE u.port

Ports == 1..65535

Authority(host, port) == [host |-> host, port |-> port]

\* Takes port 0 for the default everywhere.
AllowlistAuthorityFault(item) ==
  LET port == IF item.port \in {None, 0} THEN 443 ELSE item.port
  IN IF Norm[item.host] = None \/ port \notin Ports THEN None
     ELSE Authority(Norm[item.host], port)

\* Entries are host, host:port or [IPv6]:port; only the last, which goes
\* through urlsplit, takes port 0 for the default.
AllowlistAuthority(item) ==
  LET port == IF item.port = None \/ (item.bracketed /\ item.port = 0) THEN 443 ELSE item.port
  IN IF Norm[item.host] = None \/ port \notin Ports THEN None
     ELSE Authority(Norm[item.host], port)

Origin(c) == Authority(Norm[c.url.host], UrlPort(c.url))

\* NULL is no origin.
ASSUME OriginAssumption == \A c \in Config : Origin(c) # None

Code ==
  {"OPENCTI_CONFIG_INCOMPLETE", "OPENCTI_HOST_ALLOWLIST_REQUIRED", "OPENCTI_CA_BUNDLE_UNAVAILABLE",
   "OPENCTI_HTTPS_REQUIRED", "OPENCTI_URL_INVALID", "OPENCTI_HOST_ALLOWLIST_INVALID",
   "OPENCTI_HOST_NOT_ALLOWLISTED"}

\* validate_nonsecret, then parse_destination: the code of the first complaint.
DestinationError(c, file) ==
  IF ~ c.complete THEN "OPENCTI_CONFIG_INCOMPLETE"
  ELSE IF c.allow = {} THEN "OPENCTI_HOST_ALLOWLIST_REQUIRED"
  ELSE IF c.ca /\ file = Unusable THEN "OPENCTI_CA_BUNDLE_UNAVAILABLE"
  ELSE IF c.url.scheme = "http" THEN "OPENCTI_HTTPS_REQUIRED"
  ELSE IF c.url.scheme # "https" \/ ~ c.url.plain \/ Norm[c.url.host] = None
    THEN "OPENCTI_URL_INVALID"
  ELSE IF \E item \in c.allow : AllowlistAuthority(item) = None
    THEN "OPENCTI_HOST_ALLOWLIST_INVALID"
  ELSE IF \A item \in c.allow : AllowlistAuthority(item) # Origin(c)
    THEN "OPENCTI_HOST_NOT_ALLOWLISTED"
  ELSE None

Refused == {"metadata", "multicast", "unspecified", "link_local", "reserved"}

\* Asks for the opt-ins before it refuses.
AddressAllowedFault(a, options) ==
  LET flags == Flags[IF Mapped[a] = None THEN a ELSE Mapped[a]] IN
  CASE "loopback" \in flags -> options.loopback
    [] "loopback" \notin flags /\ "private" \in flags -> options.private
    [] OTHER -> flags \cap Refused = {} /\ "global" \in flags

\* _address_allowed: an IPv4-mapped address is judged as the address it maps,
\* and a refused class wins over every opt-in.
AddressAllowed(a, options) ==
  LET flags == Flags[IF Mapped[a] = None THEN a ELSE Mapped[a]] IN
  /\ flags \cap Refused = {}
  /\ CASE "loopback" \in flags -> options.loopback
       [] "loopback" \notin flags /\ "private" \in flags -> options.private
       [] OTHER -> "global" \in flags

\* Asks that one of the answers be acceptable.
ResolvesFault(c, file, answer) ==
  /\ DestinationError(c, file) = None
  /\ \E a \in answer : AddressAllowed(a, c.options)

\* resolve_destination: one unacceptable address condemns the whole answer.  The
\* connection is made to the first address of the answer in the order of texts.
Resolves(c, file, answer) ==
  /\ DestinationError(c, file) = None
  /\ answer # {}
  /\ \A a \in answer : AddressAllowed(a, c.options)

-----------------------------------------------------------------------------
(* delivery/config.py, and the part of create_plan that depends on it *)

\* What a connection trusts besides the store of the system: the bytes of the
\* bundle, or None for nothing.
Trust(c, file) == IF c.ca THEN file ELSE None

\* The fingerprint of the destination, or the one that stands in for it.
Fingerprint(c, file) ==
  LET known == DestinationError(c, file) = None IN
  [origin    |-> IF known THEN Origin(c) ELSE None,
   version   |-> c.version,
   connector |-> c.connector,
   allow     |-> c.allow,
   ca        |-> IF known THEN Trust(c, file) ELSE None]

Blockers(c, file) ==
  (IF c.version # ProfileVersion THEN {"OPENCTI_VERSION_MISMATCH"} ELSE {})
  \cup ({DestinationError(c, file)} \ {None})
  \cup (IF ArtifactObjects > c.options.max THEN {"OPENCTI_LIMIT_EXCEEDED"} ELSE {})

PlanFor(c, file) ==
  [dest |-> Fingerprint(c, file), options |-> c.options, blockers |-> Blockers(c, file)]

\* Forgets that the limits are part of what the plan promises.
KeyFault(plan) == <<plan.dest, plan.options.private, plan.options.loopback>>

\* The logical key.  Case, approvals, artifact and profile are fixed here.
Key(plan) == <<plan.dest, plan.options>>

\* What execute (in _execution_gates, line 345) and reconcile (line 294) ask of
\* their own configuration, in the same words.
SameDestination(c, file, plan) ==
  /\ c.ready
  /\ c.version = ProfileVersion
  /\ DestinationError(c, file) = None
  /\ Fingerprint(c, file) = plan.dest
  /\ c.options = plan.options

-----------------------------------------------------------------------------
(* The commands *)

File == Bundle \cup {Unusable}

PC == {"idle", "ready", "reserved", "boundary", "drafted", "submitted", "asking", "probed"}

Idle == [pc |-> "idle", conf |-> None, ca |-> None, plan |-> None, answer |-> {}]

PossiblePlan == {PlanFor(c, file) : c \in Config, file \in File}

Connection ==
  [purpose : {"probe", "draft", "upload", "poll", "query"}, answer : Answers, trust : Bundle \cup {None}]

ASSUME NoneAssumption == None \notin Connection /\ None \notin Code

Session ==
  [pc : PC, conf : Config \cup {None}, ca : Bundle \cup {None},
   plan : PossiblePlan \cup {None}, answer : Answers \cup {{}}]

TypeOK ==
  /\ plans \subseteq PossiblePlan
  /\ uploaded \subseteq plans
  /\ session \in [Process -> Session]
  /\ wire \in [Process -> Connection \cup {None}]

Init ==
  /\ plans = {} /\ uploaded = {}
  /\ session = [p \in Process |-> Idle]
  /\ wire = [p \in Process |-> None]

\* from_env, and the adapter that takes its snapshot of the bundle; a bundle
\* that cannot be read ends the command here.
Start(p) ==
  /\ session[p].pc = "idle"
  /\ \E c \in Config, file \in File :
       /\ Trust(c, file) # Unusable
       /\ session' = [session EXCEPT ![p] =
            [@ EXCEPT !.pc = "ready", !.conf = c, !.ca = Trust(c, file)]]
  /\ UNCHANGED <<plans, uploaded, wire>>

End(p) ==
  /\ session[p].pc # "idle"
  /\ session' = [session EXCEPT ![p] = Idle]
  /\ wire' = [wire EXCEPT ![p] = None]
  /\ UNCHANGED <<plans, uploaded>>

\* create_plan and save_delivery_plan: a new row, the stored one, or a renewed
\* one when that was PREPARED, expired and never attempted (here: for all that
\* this module knows).
CreatePlan(p) ==
  /\ session[p].pc = "ready"
  /\ \E file \in File :
       LET new  == PlanFor(session[p].conf, file)
           same == {row \in plans : Key(row) = Key(new)}
       IN /\ \/ same = {} /\ Cardinality(plans) < MaxPlans /\ plans' = plans \cup {new}
             \/ same # {} /\ UNCHANGED plans
             \/ /\ same \cap uploaded = {} /\ \E row \in same : row.blockers = {}
                /\ plans' = (plans \ same) \cup {new}
          /\ session' = [session EXCEPT ![p] = Idle]
  /\ UNCHANGED <<uploaded, wire>>

\* Connect under the trust snapshot of the adapter.
Connect(p, purpose, answer) ==
  wire' = [wire EXCEPT ![p] = [purpose |-> purpose, answer |-> answer, trust |-> session[p].ca]]

\* _execution_gates, as far as they are about the destination.
Gate(p, plan) ==
  /\ session[p].pc = "ready"
  /\ plan.blockers = {}
  /\ \E file \in File : SameDestination(session[p].conf, file, plan)
  /\ session' = [session EXCEPT ![p].pc = "reserved", ![p].plan = plan]
  /\ UNCHANGED <<plans, uploaded, wire>>

\* reconcile: the same comparison, and the attempt must know its import work.
ReconcileGate(p, plan) ==
  /\ session[p].pc = "ready"
  /\ plan \in uploaded
  /\ \E file \in File : SameDestination(session[p].conf, file, plan)
  /\ session' = [session EXCEPT ![p].pc = "asking", ![p].plan = plan]
  /\ UNCHANGED <<plans, uploaded, wire>>

Probe(p) ==
  LET me == session[p] IN
  /\ me.pc \in {"reserved", "asking"}
  /\ \E file \in File, answer \in Answers :
       Resolves(me.conf, file, answer) /\ Connect(p, "probe", answer)
  /\ session' = [session EXCEPT ![p].pc = IF me.pc = "reserved" THEN "boundary" ELSE "probed"]
  /\ UNCHANGED <<plans, uploaded>>

\* Trusts that the bundle it reads is the one it connects with.
DraftFault(p) ==
  LET me == session[p] IN
  /\ me.pc = "boundary"
  /\ \E file \in File, answer \in Answers :
       /\ Resolves(me.conf, file, answer)
       /\ Fingerprint(me.conf, file) = me.plan.dest
       /\ Connect(p, "draft", answer)
       /\ session' = [session EXCEPT ![p].pc = "drafted", ![p].answer = answer]
  /\ UNCHANGED <<plans, uploaded>>

\* deliver, up to create-draft: resolve, compare the fingerprint once more, and
\* compare the bundle the adapter holds.
Draft(p) ==
  LET me == session[p] IN
  /\ me.pc = "boundary"
  /\ me.ca = me.plan.dest.ca
  /\ \E file \in File, answer \in Answers :
       /\ Resolves(me.conf, file, answer)
       /\ Fingerprint(me.conf, file) = me.plan.dest
       /\ Connect(p, "draft", answer)
       /\ session' = [session EXCEPT ![p].pc = "drafted", ![p].answer = answer]
  /\ UNCHANGED <<plans, uploaded>>

\* Resolves again for the second mutation.
UploadFault(p) ==
  LET me == session[p] IN
  /\ me.pc = "drafted"
  /\ \E file \in File, answer \in Answers :
       Resolves(me.conf, file, answer) /\ Connect(p, "upload", answer)
  /\ session' = [session EXCEPT ![p].pc = "submitted", ![p].answer = {}]
  /\ uploaded' = uploaded \cup {me.plan}
  /\ UNCHANGED plans

\* deliver, the upload: to the target that create-draft used.
Upload(p) ==
  LET me == session[p] IN
  /\ me.pc = "drafted"
  /\ Connect(p, "upload", me.answer)
  /\ session' = [session EXCEPT ![p].pc = "submitted", ![p].answer = {}]
  /\ uploaded' = uploaded \cup {me.plan}
  /\ UNCHANGED plans

\* StrictOpenCTIAdapter.reconcile, called by deliver for each poll and by the
\* reconcile command once.
Query(p) ==
  LET me == session[p] IN
  /\ me.pc \in {"submitted", "probed"}
  /\ \E file \in File, answer \in Answers :
       /\ Resolves(me.conf, file, answer)
       /\ Connect(p, IF me.pc = "submitted" THEN "poll" ELSE "query", answer)
  /\ UNCHANGED <<plans, uploaded, session>>

Next ==
  \E p \in Process :
    \/ Start(p) \/ End(p) \/ CreatePlan(p)
    \/ \E plan \in plans : Gate(p, plan) \/ ReconcileGate(p, plan)
    \/ Probe(p) \/ Draft(p) \/ Upload(p) \/ Query(p)

Spec == Init /\ [][Next]_vars

-----------------------------------------------------------------------------
(* Properties *)

\* Whatever the environment, the bundle file and the resolver do between the
\* plan and the mutation, create-draft and upload leave only under a stored,
\* unblocked plan, from a process configured for the very destination and
\* options of the plan, over a connection that trusts the bundle of the plan.
MutationAtFrozenDestination ==
  \A p \in Process :
    wire[p] # None /\ wire[p].purpose \in {"draft", "upload"} =>
      \E plan \in plans, c \in Config :
        /\ session[p].conf = c
        /\ plan.blockers = {}
        /\ plan.dest = [origin |-> Origin(c), version |-> c.version, connector |-> c.connector,
                        allow |-> c.allow, ca |-> wire[p].trust]
        /\ plan.options = c.options

\* What docs/opencti-phase1.md, 179-181, promises of an address, in no order: no
\* opt-in forgives a class that is refused, loopback and private networks take the
\* opt-in of their own, all others are global.  An IPv4-mapped address is what it
\* maps.
Acceptable(a, options) ==
  LET flags == IF Mapped[a] = None THEN Flags[a] ELSE Flags[Mapped[a]] IN
  /\ flags \cap {"metadata", "multicast", "unspecified", "link_local", "reserved"} = {}
  /\ "loopback" \in flags => options.loopback
  /\ "private" \in flags => options.private
  /\ flags \cap {"loopback", "private", "global"} # {}

\* An entry of an allowlist names an origin by any spelling of its host, and by
\* its port or, when that is 443, by no port, which is what [IPv6]:0 is too.
Names(item, origin) ==
  /\ Norm[item.host] = origin.host /\ origin.host # None
  /\ \/ item.port = origin.port
     \/ origin.port = 443 /\ (item.port = None \/ (item.port = 0 /\ item.bracketed))

\* No exchange of any command, polls and queries long after the plan included,
\* goes to an address unless every address that was resolved with it is
\* acceptable under the plan's own options, and an entry of the plan's allowlist
\* names the plan's origin.
ConnectionsAreVetted ==
  \A p \in Process :
    wire[p] # None =>
      LET plan == session[p].plan IN
      /\ \A a \in wire[p].answer : Acceptable(a, plan.options)
      /\ \E item \in plan.dest.allow : Names(item, plan.dest.origin)

\* The bundle is uploaded to the address that created the draft, under the same
\* trust, although the resolver may have changed its mind in between.
UploadFollowsDraft ==
  [][\A p \in Process :
       wire'[p] # None /\ wire'[p].purpose = "upload" /\ wire'[p] # wire[p]
         => /\ wire[p] # None /\ wire[p].purpose = "draft"
            /\ wire'[p].answer = wire[p].answer
            /\ wire'[p].trust = wire[p].trust]_vars

\* Whether a plan is blocked is decided by its logical key: create_plan may hand
\* back a row that another configuration stored, and it is never a PREPARED row
\* for a call that found a blocker, nor the other way round.
KeyDecidesBlocked ==
  \A row \in plans, c \in Config, file \in File :
    Key(row) = Key(PlanFor(c, file)) => (row.blockers = {}) = (Blockers(c, file) = {})
=============================================================================
