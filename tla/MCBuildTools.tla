---------------------------- MODULE MCBuildTools ----------------------------
(* Three docker clients: the one of the attempt at work and two left over.     *)
EXTENDS BuildTools

CONSTANTS c1, c2, c3

=============================================================================
