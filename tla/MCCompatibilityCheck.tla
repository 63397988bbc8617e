------------------------- MODULE MCCompatibilityCheck -------------------------
(* Instances of CompatibilityCheck for TLC: every list of at most MaxList      *)
(* objects out of a pool in which identifiers collide.                         *)
EXTENDS CompatibilityCheck

CONSTANT MaxList

\* 1 malware, 2 technique or identity, 3 relationship, 4 and 5 markings, 6 channel, 7 its
\* extension, 0 the report; 5 is an identifier of TLP:RED.
MCId == 0..7

Plain ==
  [id |-> 1, type |-> "malware", version |-> TRUE, extra |-> {}, extensions |-> {},
   embedded |-> {}, exact |-> FALSE, class |-> None, refs |-> {}, verb |-> None,
   source |-> None, target |-> None, marks |-> {}, tlp |-> None]

Marked(o, marks) == [o EXCEPT !.refs = @ \cup marks, !.marks = marks]

Relation(o, verb, source, target) ==
  [o EXCEPT !.type = "relationship", !.verb = verb, !.source = source, !.target = target,
            !.refs = {source, target} \ {Missing}]

Technique == [Plain EXCEPT !.id = 2, !.type = "attack-pattern"]
Uses == Relation([Plain EXCEPT !.id = 3], "uses", 1, 2)
Sector == [Plain EXCEPT !.id = 2, !.type = "identity", !.class = "class"]
Marking(id, tlp) == [Plain EXCEPT !.id = id, !.type = "marking-definition", !.tlp = tlp]
Channel ==
  [Plain EXCEPT !.id = 6, !.type = "channel", !.exact = TRUE, !.extensions = {7}, !.embedded = {7}]

MixedPool ==
  {Plain, Marked(Plain, {4}), Marked(Plain, {4, 5}), [Plain EXCEPT !.id = Missing],
   Technique, Marked(Technique, {5}), [Technique EXCEPT !.extra = {1}], Uses, Marked(Uses, {4}),
   Sector, [Sector EXCEPT !.class = None], Relation(Uses, "targets", 1, 2),
   Relation(Uses, "uses", Missing, 2),
   Marking(4, "green"), Marking(4, "red"), Marking(5, None), Marking(5, "amber"),
   Channel, [Channel EXCEPT !.embedded = {}],
   [Plain EXCEPT !.id = 7, !.type = "extension-definition"], [Plain EXCEPT !.version = FALSE]}

Lists(pool) == UNION {[1..n -> pool] : n \in 1..MaxList}

MixedLists == Lists(MixedPool)

ProfileTypes ==
  {"malware", "attack-pattern", "relationship", "marking-definition", "extension-definition",
   "channel", "identity", "location", "report"}

Just(type) == <<type, None>>

ProfileTuples ==
  {<<"uses", Just("malware"), Just("attack-pattern")>>,
   <<"targets", Just("malware"), <<"identity", "sector">>>>}
=============================================================================
