----------------------------- MODULE StableTree -----------------------------
(***************************************************************************)
(* What a producer artifact promises the flows that lease it, whatever the *)
(* filesystem does underneath: a reader that holds the lease keeps looking *)
(* at one validated tree, a publication that reports success leaves a      *)
(* validated tree, one that reports an ordinary failure leaves the tree    *)
(* that was there, and only a crash or a failed restore may leave nothing. *)
(* docs/architecture.md:79-84 states the promise; Publication implements   *)
(* it.                                                                     *)
(***************************************************************************)
CONSTANTS Procs,    \* processes that lease the artifact
          Trees,    \* directory trees a producer can stage
          Valid,    \* the trees the artifact's validator accepts
          NoTree    \* nothing, or nothing a reader accepts

VARIABLES visible,  \* the tree a reader that leases the artifact gets
          users,    \* the tree each reader holds, or NoTree
          result    \* how the last publication ended

vars == <<visible, users, result>>

Results == {"none", "published", "failed", "broken"}

Init ==
  /\ visible \in Valid \cup {NoTree}
  /\ users = [p \in Procs |-> NoTree]
  /\ result = "none"

Quiet == \A p \in Procs : users[p] = NoTree

\* A reader gets the visible tree, and there has to be one.
Lease(p) ==
  /\ users[p] = NoTree
  /\ visible # NoTree
  /\ users' = [users EXCEPT ![p] = visible]
  /\ UNCHANGED <<visible, result>>

Release(p) ==
  /\ users[p] # NoTree
  /\ users' = [users EXCEPT ![p] = NoTree]
  /\ UNCHANGED <<visible, result>>

\* Every end of a publication waits for the readers to be gone.
Publish ==
  /\ Quiet
  /\ visible' \in Valid
  /\ result' = "published"
  /\ UNCHANGED users

Fail ==
  /\ Quiet
  /\ result' = "failed"
  /\ UNCHANGED <<visible, users>>

Break ==
  /\ Quiet
  /\ visible' \in Valid \cup {NoTree}
  /\ result' = "broken"
  /\ UNCHANGED users

Next ==
  \/ \E p \in Procs : Lease(p) \/ Release(p)
  \/ Publish
  \/ Fail
  \/ Break

Spec == Init /\ [][Next]_vars
=============================================================================
