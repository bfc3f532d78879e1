---------------------------- MODULE Publication ----------------------------
(***************************************************************************)
(* publication.replace_directory on one producer artifact, under the lease *)
(* of that artifact: the staged tree is put in place of the destination    *)
(* through a hidden backup, validated where it now is, and rolled back if  *)
(* anything raises.  Readers hold the shared lease (an flock) and validate *)
(* what they open.  A process may be killed anywhere: the kernel drops its *)
(* lease and the directories stay as they are.  A path holds a tree or     *)
(* NoTree; the contents of a tree matter only as far as its validator      *)
(* accepts it.                                                             *)
(***************************************************************************)
CONSTANTS Procs,    \* processes that read or publish the artifact
          Trees,    \* directory trees a publisher can stage
          Valid,    \* the trees the artifact's validator accepts
          NoTree    \* the path does not exist

ASSUME TreesAssumption == Valid \subseteq Trees /\ NoTree \notin Trees

VARIABLES
  dest,      \* the destination path
  staging,   \* the sibling staging path; it survives a crash
  backup,    \* the hidden backup the running publisher made, if any
  orphans,   \* backups no running process knows of any more
  readers,   \* holders of the shared lease
  writer,    \* holder of the exclusive lease: at most one element
  pc,        \* where each process is
  seen,      \* the tree each reader validated, NoTree otherwise
  prev,      \* destination when the exclusive lease was taken
  stable,    \* the last tree that passed its final-path validation
  disturbed, \* a crash or failed restore since that validation
  result     \* how the last publication ended

paths == <<dest, staging, backup, orphans>>
leases == <<readers, writer>>
history == <<prev, stable, disturbed>>
vars == <<paths, leases, pc, seen, history, result>>

PublisherPoints ==
  {"locked", "staged", "aside", "installed", "validated", "unwinding", "restoring"}
Points == {"idle", "reading", "using"} \cup PublisherPoints

TypeOK ==
  /\ dest \in Trees \cup {NoTree}
  /\ staging \in Trees \cup {NoTree}
  /\ backup \in Trees \cup {NoTree}
  /\ orphans \subseteq Trees
  /\ readers \subseteq Procs
  /\ writer \subseteq Procs
  /\ pc \in [Procs -> Points]
  /\ seen \in [Procs -> Trees \cup {NoTree}]
  /\ prev \in Trees \cup {NoTree}
  /\ stable \in Trees \cup {NoTree}
  /\ disturbed \in BOOLEAN
  /\ result \in {"none", "published", "failed", "broken"}

Init ==
  /\ dest = NoTree /\ staging = NoTree /\ backup = NoTree /\ orphans = {}
  /\ readers = {} /\ writer = {}
  /\ pc = [p \in Procs |-> "idle"]
  /\ seen = [p \in Procs |-> NoTree]
  /\ prev = NoTree /\ stable = NoTree /\ disturbed = FALSE
  /\ result = "none"

Goto(p, point) == pc' = [pc EXCEPT ![p] = point]

-----------------------------------------------------------------------------
(* Readers: a shared lease, then validation of what is there.              *)

\* Mutant: LOCK_SH taken without waiting for the writer.
MutLockShared(p) ==
  /\ pc[p] = "idle"
  /\ readers' = readers \cup {p}
  /\ Goto(p, "reading")
  /\ UNCHANGED <<paths, writer, seen, history, result>>

LockShared(p) ==
  /\ pc[p] = "idle"
  /\ writer = {}
  /\ readers' = readers \cup {p}
  /\ Goto(p, "reading")
  /\ UNCHANGED <<paths, writer, seen, history, result>>

\* Mutant: an artifact that exists is accepted as it is.
MutLoad(p) ==
  /\ pc[p] = "reading"
  /\ dest # NoTree
  /\ seen' = [seen EXCEPT ![p] = dest]
  /\ Goto(p, "using")
  /\ UNCHANGED <<paths, leases, history, result>>

Load(p) ==
  /\ pc[p] = "reading"
  /\ dest \in Valid
  /\ seen' = [seen EXCEPT ![p] = dest]
  /\ Goto(p, "using")
  /\ UNCHANGED <<paths, leases, history, result>>

\* The end of the with block, or the validator's exception.
UnlockShared(p) ==
  /\ \/ pc[p] = "using"
     \/ pc[p] = "reading" /\ dest \notin Valid
  /\ readers' = readers \ {p}
  /\ seen' = [seen EXCEPT ![p] = NoTree]
  /\ Goto(p, "idle")
  /\ UNCHANGED <<paths, writer, history, result>>

-----------------------------------------------------------------------------
(* The publisher.                                                          *)

LockExclusive(p) ==
  /\ pc[p] = "idle"
  /\ readers = {} /\ writer = {}
  /\ writer' = {p}
  /\ prev' = dest
  /\ Goto(p, "locked")
  /\ UNCHANGED <<paths, readers, seen, stable, disturbed, result>>

\* Callers remove a staging tree a crash left behind and stage their own.
Stage(p, tree) ==
  /\ pc[p] = "locked"
  /\ staging' = tree
  /\ Goto(p, "staged")
  /\ UNCHANGED <<dest, backup, orphans, leases, seen, history, result>>

\* Mutant: the destination is removed instead of renamed.
MutSetAside(p) ==
  /\ pc[p] = "staged"
  /\ dest' = NoTree
  /\ Goto(p, "aside")
  /\ UNCHANGED <<staging, backup, orphans, leases, seen, history, result>>

\* mkdtemp, rmdir, os.replace(destination, backup); nothing without a tree.
SetAside(p) ==
  /\ pc[p] = "staged"
  /\ backup' = dest
  /\ dest' = NoTree
  /\ Goto(p, "aside")
  /\ UNCHANGED <<staging, orphans, leases, seen, history, result>>

Install(p) ==
  /\ pc[p] = "aside"
  /\ dest' = staging
  /\ staging' = NoTree
  /\ Goto(p, "installed")
  /\ UNCHANGED <<backup, orphans, leases, seen, history, result>>

Validate(p) ==
  /\ pc[p] = "installed"
  /\ dest \in Valid
  /\ stable' = dest
  /\ disturbed' = FALSE
  /\ Goto(p, "validated")
  /\ UNCHANGED <<paths, leases, seen, prev, result>>

\* Any BaseException inside the try: an OSError of a rename, a validator that
\* rejects the tree or cannot read it, KeyboardInterrupt.
Raise(p) ==
  /\ pc[p] \in {"staged", "aside", "installed"}
  /\ Goto(p, "unwinding")
  /\ UNCHANGED <<paths, leases, seen, history, result>>

\* The new tree goes back to staging, but only if it ever left it.
Unwind(p) ==
  /\ pc[p] = "unwinding"
  /\ IF dest # NoTree /\ staging = NoTree
       THEN staging' = dest /\ dest' = NoTree
       ELSE UNCHANGED <<dest, staging>>
  /\ Goto(p, "restoring")
  /\ UNCHANGED <<backup, orphans, leases, seen, history, result>>

\* Mutant: the lease is given back only by a publication that went as planned.
MutEndPublication(p, outcome) ==
  /\ writer' = IF outcome = "failed" THEN writer ELSE writer \ {p}
  /\ result' = outcome
  /\ Goto(p, "idle")
  /\ UNCHANGED <<readers, seen, prev>>

\* Leaving the with block of the exclusive lease.
EndPublication(p, outcome) ==
  /\ writer' = writer \ {p}
  /\ result' = outcome
  /\ Goto(p, "idle")
  /\ UNCHANGED <<readers, seen, prev>>

\* Mutant: the previous tree is left in the backup.
MutRestore(p) ==
  /\ pc[p] = "restoring"
  /\ orphans' = orphans \cup ({backup} \ {NoTree})
  /\ backup' = NoTree
  /\ EndPublication(p, "failed")
  /\ UNCHANGED <<dest, staging, stable, disturbed>>

Restore(p) ==
  /\ pc[p] = "restoring"
  /\ dest' = IF backup # NoTree THEN backup ELSE dest
  /\ backup' = NoTree
  /\ EndPublication(p, "failed")
  /\ UNCHANGED <<staging, orphans, stable, disturbed>>

\* An OSError of one of the two renames back: "cannot publish ... or restore
\* its previous version".  A backup stays where it is.
RestoreFails(p) ==
  /\ pc[p] \in {"unwinding", "restoring"}
  /\ orphans' = orphans \cup ({backup} \ {NoTree})
  /\ backup' = NoTree
  /\ disturbed' = TRUE
  /\ EndPublication(p, "broken")
  /\ UNCHANGED <<dest, staging, stable>>

\* A failed or interrupted rmtree raises, but the replacement stands; the
\* backup may be left behind.  The caller sees "published" either way.
Discard(p) ==
  /\ pc[p] = "validated"
  /\ orphans' \in {orphans, orphans \cup ({backup} \ {NoTree})}
  /\ backup' = NoTree
  /\ EndPublication(p, "published")
  /\ UNCHANGED <<dest, staging, stable, disturbed>>

\* A publisher gives up before it touches the destination.
Abandon(p) ==
  /\ pc[p] = "locked"
  /\ EndPublication(p, "failed")
  /\ UNCHANGED <<paths, stable, disturbed>>

-----------------------------------------------------------------------------
(* SIGKILL or power loss: flock locks vanish, files stay.                  *)

CrashReader(p) ==
  /\ pc[p] \in {"reading", "using"}
  /\ readers' = readers \ {p}
  /\ seen' = [seen EXCEPT ![p] = NoTree]
  /\ Goto(p, "idle")
  /\ UNCHANGED <<paths, writer, history, result>>

CrashPublisher(p) ==
  /\ pc[p] \in PublisherPoints
  /\ orphans' = orphans \cup ({backup} \ {NoTree})
  /\ backup' = NoTree
  /\ disturbed' = TRUE
  /\ EndPublication(p, "broken")
  /\ UNCHANGED <<dest, staging, stable>>

Step(p) ==
  \/ Load(p) \/ UnlockShared(p)
  \/ \E tree \in Trees : Stage(p, tree)
  \/ Abandon(p)
  \/ SetAside(p) \/ Install(p) \/ Validate(p) \/ Raise(p)
  \/ Unwind(p) \/ Restore(p) \/ RestoreFails(p) \/ Discard(p)

Next ==
  \E p \in Procs :
    \/ LockShared(p) \/ LockExclusive(p)
    \/ Step(p)
    \/ CrashReader(p) \/ CrashPublisher(p)

\* A process that holds a lease keeps running until it lets it go.
Spec == Init /\ [][Next]_vars /\ \A p \in Procs : WF_vars(Step(p))

-----------------------------------------------------------------------------
(* Properties.                                                             *)

\* docs/architecture.md:79: while a reader holds its shared lease, the tree it
\* validated stays in place, whatever publishers and crashes do.
ReadersKeepTheirTree ==
  \A p \in Procs : pc[p] = "using" => seen[p] = dest /\ dest \in Valid

\* publication.py:162-177: a publication that ends in an ordinary error leaves
\* the destination as it found it.
OrdinaryRollback ==
  [][\A p \in Procs :
       p \in writer /\ p \notin writer' /\ result' = "failed" => dest' = prev]_vars

\* The last tree that passed final validation is never destroyed before its
\* successor has passed: it is at the destination, in the publisher's backup,
\* or in a backup left on disk.
LastValidatedTreeSurvives ==
  stable # NoTree => stable \in {dest, backup} \cup orphans

\* architecture.md:81: outside publications, the destination is the last
\* validated tree unless a crash or a failed restore intervened since.
QuietDestinationIsStable ==
  writer = {} /\ ~disturbed => dest = stable

\* The lease of a publisher is free again some time, so nobody waits on it
\* forever: no path of replace_directory stops half way without an exception.
PublicationEnds == [](writer # {} => <>(writer = {}))

\* A tree that readers would accept, or nothing.
Visible(tree) == IF tree \in Valid THEN tree ELSE NoTree

Promise == INSTANCE StableTree WITH
  visible <- IF writer = {} THEN Visible(dest) ELSE Visible(prev),
  users <- seen

\* Publication implements StableTree.
ImplementsStableTree == Promise!Spec
=============================================================================
