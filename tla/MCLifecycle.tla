---------------------------- MODULE MCLifecycle ----------------------------
(* A small instance of Lifecycle for TLC: the container c3 exposes two     *)
(* ports, the others one each.                                             *)
EXTENDS Lifecycle

CONSTANTS c1, c2, c3

TwoForC3 == [c \in Containers |-> IF c = c3 THEN 2 ELSE 1]
=============================================================================
