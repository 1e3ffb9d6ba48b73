---------------------------- MODULE MCGenerators ----------------------------
(* Instances of Generators for TLC. *)
EXTENDS Generators

Sequentials == {[kind |-> "sequential", lower |-> l, upper |-> u] : l \in 0..1, u \in 1..3}
Hotspots == [kind : {"hotspot"}, lower : 0..6, upper : 0..6, percent : {-10, 0, 20, 50, 99, 100, 150}]
Ranges == {r \in [kind : {"uniform", "zipfian"}, lower : 0..3, upper : 0..6] : r.lower <= r.upper}
Discretes == [kind : {"discrete"}, weights : UNION {[1..n -> 1..3] : n \in 1..3}]

AllChoosers == {[kind |-> "latest"], [kind |-> "exponential"]}
               \cup Sequentials \cup Hotspots \cup Ranges \cup Discretes
=============================================================================
