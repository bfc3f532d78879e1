---------------------------- MODULE MCSourceCache ----------------------------
(* Builds in two workspaces and a managed build; two URLs.                     *)
EXTENDS SourceCache

CONSTANTS p1, p2, m1

Builds == [p \in {p1, p2} |-> IF p = p1 THEN "workspace" ELSE "other"]

=============================================================================
