--------------------------- MODULE MCPublication ---------------------------
(* Two processes, each free to read or to publish; two trees the validator *)
(* accepts, so that a replacement differs from what it replaces, and one   *)
(* it refuses.                                                             *)
EXTENDS Publication, TLC

CONSTANTS p1, p2, old, new, bad

MCProcs == {p1, p2}
MCTrees == {old, new, bad}
MCValid == {old, new}
=============================================================================
