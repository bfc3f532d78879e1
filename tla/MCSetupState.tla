--------------------------- MODULE MCSetupState ---------------------------
(* A plain setup of any release and selection, a forced setup that is run     *)
(* again and again, and a bundle command.                                    *)
EXTENDS SetupState

CONSTANTS s1, s2, b1

Request(selection, lock, inputs, project) ==
  [selection |-> selection, lock |-> lock, inputs |-> inputs, project |-> project]

Wanted == Request("wanted", "lock", "inputs", "project")
AnyRelease ==
  {Wanted,
   Request("wanted", "lock", "new inputs", "project"),      \* another recipe
   Request("wanted", "new lock", "inputs", "project")}      \* another catalogue
Elsewhere ==
  {Request("wanted", "lock", "inputs", "new project"),      \* installed elsewhere
   Request("other", "lock", "inputs", "project")}

Commands ==
  [p \in Procs |->
     CASE p = s1 -> AnyRelease \cup Elsewhere
       [] p = s2 -> {Wanted}
       [] p = b1 -> {Wanted}]

=============================================================================
