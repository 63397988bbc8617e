----------------------------- MODULE MCDestination -----------------------------
(* Instances of Destination for TLC. *)
EXTENDS Destination, TLC

CONSTANTS p1, b1, b2, h, spelled, odd, con1, con2

OneProcess == {p1}
TwoBundles == {b1, b2}

\* h and spelled are one host, as "gw.example" and "GW.example." are.
Hosts == (h :> h) @@ (spelled :> h) @@ (odd :> None)

\* 1 public, 2 private, 3 127.0.0.1, 4 fd00:ec2::254, 5 ::ffff:10.0.0.2, 6 ::1,
\* 7 100.64.0.1, with what the ipaddress module says of them.
AddressFlags ==
  (1 :> {"global"}) @@ (2 :> {"private"}) @@ (3 :> {"loopback"}) @@ (4 :> {"metadata", "private"})
  @@ (5 :> {"reserved"}) @@ (6 :> {"reserved", "loopback"}) @@ (7 :> {})

MappedAddress == [a \in 1..7 |-> IF a = 5 THEN 2 ELSE None]

SomeAnswers == {{}, {1}, {1, 2}, {3}, {4}, {5}, {6}, {1, 7}}

Base ==
  [ready |-> TRUE, complete |-> TRUE, ca |-> TRUE, version |-> 7, connector |-> con1,
   url |-> [scheme |-> "https", plain |-> TRUE, host |-> h, port |-> None],
   allow |-> {[host |-> h, port |-> None, bracketed |-> FALSE]},
   options |-> [private |-> FALSE, loopback |-> FALSE, max |-> 2]]

\* The base and what differs from it in one respect.
Configurations ==
  {Base,
   [Base EXCEPT !.ready = FALSE],
   [Base EXCEPT !.ca = FALSE],
   [Base EXCEPT !.version = 8],
   [Base EXCEPT !.connector = con2],
   [Base EXCEPT !.url.host = spelled, !.url.port = 0],
   [Base EXCEPT !.url.scheme = "http"],
   [Base EXCEPT !.url.host = odd],
   [Base EXCEPT !.url.port = 8443],
   [Base EXCEPT !.url.port = 8443,
                !.allow = {[host |-> h, port |-> 8443, bracketed |-> FALSE]}],
   [Base EXCEPT !.allow = {[host |-> h, port |-> 0, bracketed |-> FALSE]}],
   [Base EXCEPT !.allow = {[host |-> h, port |-> 0, bracketed |-> TRUE]}],
   [Base EXCEPT !.options.private = TRUE],
   [Base EXCEPT !.options.loopback = TRUE],
   [Base EXCEPT !.options.max = 1]}
=============================================================================
