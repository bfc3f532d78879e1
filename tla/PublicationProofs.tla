------------------------- MODULE PublicationProofs -------------------------
(***************************************************************************)
(* The safety properties of Publication, for every set of processes and    *)
(* trees, and of ManagedEvidence, for every catalog, specification, SDK and *)
(* product: how an artifact gets to its place, and what it proves there.    *)
(*                                                                          *)
(* Of the directory: IInv says, for each point of replace_directory, where  *)
(* the previous tree and the new tree are; everything else follows from it. *)
(*                                                                          *)
(* Of the evidence: RecordInv says that what an action records was true of  *)
(* the product it was recorded for, and so whoever accepts the action later *)
(* accepts no more than the audit of the build did.  That work is refused   *)
(* for a cause rests on the other side, InputInv: the lock is valid and of  *)
(* releases that were pinned, and a running build has passed the preflight. *)
(* Between the two is the order of versions, in which a finite set has a    *)
(* last one, and the lock that a specification resolves to, which is valid. *)
(***************************************************************************)
EXTENDS Publication, ManagedEvidence, FiniteSetTheorems, TLAPS

-----------------------------------------------------------------------------
(* Publication of a directory.                                             *)

\* Who holds which lease, and what readers hold.
LeaseInv ==
  /\ \A p \in Procs : p \in writer <=> pc[p] \in PublisherPoints
  /\ \A p \in Procs : p \in readers <=> pc[p] \in {"reading", "using"}
  /\ \A p, q \in writer : p = q
  /\ readers = {} \/ writer = {}
  /\ \A p \in Procs : pc[p] = "using" => seen[p] = dest /\ dest \in Valid
  /\ \A p \in Procs : pc[p] # "using" => seen[p] = NoTree

\* The previous tree is at the destination, or in the backup with nothing at
\* the destination.
Kept == \/ dest = prev /\ backup = NoTree
        \/ dest = NoTree /\ backup = prev

\* Where the trees are at each point of the publisher.
PathInv(p) ==
  /\ pc[p] = "locked" => dest = prev /\ backup = NoTree
  /\ pc[p] = "staged" => dest = prev /\ backup = NoTree /\ staging # NoTree
  /\ pc[p] = "aside" => dest = NoTree /\ backup = prev /\ staging # NoTree
  /\ pc[p] = "installed" => dest # NoTree /\ backup = prev /\ staging = NoTree
  /\ pc[p] = "validated" => dest = stable /\ dest \in Valid
  /\ pc[p] = "unwinding" =>
       \/ staging # NoTree /\ Kept
       \/ staging = NoTree /\ dest # NoTree /\ backup = prev
  /\ pc[p] = "restoring" => Kept
  /\ pc[p] \in PublisherPoints \ {"validated"} =>
       /\ ~disturbed => prev = stable
       /\ stable # NoTree => stable \in {prev} \cup orphans

\* Between publications.
QuietInv ==
  writer = {} =>
    /\ backup = NoTree
    /\ ~disturbed => dest = stable
    /\ stable # NoTree => stable \in {dest} \cup orphans

IInv == TypeOK /\ LeaseInv /\ (\A p \in Procs : PathInv(p)) /\ QuietInv

-----------------------------------------------------------------------------
LEMMA InitIInv == Init => IInv
BY DEF Init, IInv, TypeOK, LeaseInv, PathInv, QuietInv, Kept, Points,
       PublisherPoints

\* The steps of readers leave every path and the writer alone.
LEMMA ReaderStep ==
  ASSUME IInv, NEW p \in Procs,
         LockShared(p) \/ Load(p) \/ UnlockShared(p) \/ CrashReader(p)
  PROVE  IInv'
<1> USE TreesAssumption DEF TreesAssumption
<1>1. paths' = paths /\ history' = history /\ writer' = writer /\ result' = result
  BY DEF LockShared, Load, UnlockShared, CrashReader, paths, history, leases
<1>2. /\ dest' = dest /\ staging' = staging /\ backup' = backup /\ orphans' = orphans
      /\ prev' = prev /\ stable' = stable /\ disturbed' = disturbed
  BY <1>1 DEF paths, history
<1>3. TypeOK'
  <2>1. /\ pc' \in [Procs -> Points]
        /\ seen' \in [Procs -> Trees \cup {NoTree}]
        /\ readers' \subseteq Procs
    <3> USE DEF IInv, TypeOK, Goto, Points
    <3>1. CASE LockShared(p)
      BY <3>1 DEF LockShared
    <3>2. CASE Load(p)
      BY <3>2 DEF Load, leases
    <3>3. CASE UnlockShared(p)
      BY <3>3 DEF UnlockShared
    <3>4. CASE CrashReader(p)
      BY <3>4 DEF CrashReader
    <3> QED BY <3>1, <3>2, <3>3, <3>4
  <2> QED BY <1>1, <1>2, <2>1 DEF IInv, TypeOK
<1>4. LeaseInv'
  <2>1. CASE LockShared(p)
    BY <1>1, <1>2, <2>1 DEF IInv, TypeOK, LeaseInv, LockShared, Goto, PublisherPoints
  <2>2. CASE Load(p)
    BY <1>1, <1>2, <2>2 DEF IInv, TypeOK, LeaseInv, Load, Goto, PublisherPoints, leases
  <2>3. CASE UnlockShared(p)
    BY <1>1, <1>2, <2>3 DEF IInv, TypeOK, LeaseInv, UnlockShared, Goto, PublisherPoints
  <2>4. CASE CrashReader(p)
    BY <1>1, <1>2, <2>4 DEF IInv, TypeOK, LeaseInv, CrashReader, Goto, PublisherPoints
  <2> QED BY <2>1, <2>2, <2>3, <2>4
<1>5. ASSUME NEW q \in Procs PROVE PathInv(q)'
  <2>1. pc'[q] \in PublisherPoints => pc'[q] = pc[q]
    BY DEF IInv, TypeOK, LockShared, Load, UnlockShared, CrashReader, Goto,
       PublisherPoints
  <2> QED
    BY <1>2, <2>1 DEF IInv, PathInv, Kept, PublisherPoints
<1>6. QuietInv'
  BY <1>1, <1>2 DEF IInv, QuietInv
<1> QED BY <1>3, <1>4, <1>5, <1>6 DEF IInv

\* The exclusive lease is taken: nobody reads, nothing has moved yet.
LEMMA LockExclusiveStep ==
  ASSUME IInv, NEW p \in Procs, LockExclusive(p)
  PROVE  IInv'
<1> USE TreesAssumption DEF TreesAssumption, LockExclusive, Goto, paths
<1>1. TypeOK'
  BY DEF IInv, TypeOK, Points, PublisherPoints
<1>2. LeaseInv'
  BY DEF IInv, TypeOK, LeaseInv, PublisherPoints
<1>3. ASSUME NEW q \in Procs PROVE PathInv(q)'
  <2>1. q # p => pc'[q] \notin PublisherPoints
    BY DEF IInv, TypeOK, LeaseInv
  <2>2. pc'[p] = "locked"
    BY DEF IInv, TypeOK
  <2> QED
    BY <2>1, <2>2 DEF IInv, QuietInv, PathInv, PublisherPoints
<1>4. QuietInv'
  BY DEF QuietInv
<1> QED BY <1>1, <1>2, <1>3, <1>4 DEF IInv

\* While p publishes, no other process is at a publisher's point.
LEMMA OnePublisher ==
  ASSUME IInv, NEW p \in Procs, pc[p] \in PublisherPoints
  PROVE  /\ p \in writer
         /\ readers = {}
         /\ \A q \in Procs \ {p} : pc[q] \notin PublisherPoints
         /\ \A q \in Procs : pc[q] # "using" /\ pc[q] # "reading"
BY DEF IInv, LeaseInv, TypeOK

\* Steps inside replace_directory that keep the lease.
LEMMA PublisherStep ==
  ASSUME IInv, NEW p \in Procs,
         \/ \E tree \in Trees : Stage(p, tree)
         \/ SetAside(p) \/ Install(p) \/ Validate(p) \/ Raise(p) \/ Unwind(p)
  PROVE  IInv'
<1> USE TreesAssumption DEF TreesAssumption
<1>1. pc[p] \in PublisherPoints /\ readers' = readers /\ writer' = writer /\ seen' = seen
  BY DEF Stage, SetAside, Install, Validate, Raise, Unwind, PublisherPoints, leases
<1>2. TypeOK'
  BY DEF IInv, TypeOK, Stage, SetAside, Install, Validate, Raise, Unwind, Goto,
     paths, leases, history, Points, PublisherPoints
<1>3. /\ \A q \in Procs \ {p} : pc'[q] = pc[q]
      /\ pc'[p] \in PublisherPoints
  BY DEF IInv, TypeOK, Stage, SetAside, Install, Validate, Raise, Unwind, Goto,
     PublisherPoints
<1>4. LeaseInv'
  BY <1>1, <1>3, OnePublisher DEF IInv, LeaseInv, TypeOK, PublisherPoints
<1>5. PathInv(p)'
  <2> USE DEF IInv, TypeOK, PathInv, Kept, Goto, PublisherPoints
  <2>1. CASE \E tree \in Trees : Stage(p, tree)
    BY <2>1 DEF Stage, history
  <2>2. CASE SetAside(p)
    BY <2>2 DEF SetAside, history
  <2>3. CASE Install(p)
    BY <2>3 DEF Install, history
  <2>4. CASE Validate(p)
    BY <2>4 DEF Validate, paths
  <2>5. CASE Raise(p)
    BY <2>5 DEF Raise, paths, history
  <2>6. CASE Unwind(p)
    BY <2>6 DEF Unwind, history
  <2> QED BY <2>1, <2>2, <2>3, <2>4, <2>5, <2>6
<1>6. ASSUME NEW q \in Procs PROVE PathInv(q)'
  BY <1>1, <1>3, <1>5, OnePublisher DEF PathInv, PublisherPoints
<1>7. QuietInv'
  BY <1>1, OnePublisher DEF QuietInv
<1> QED BY <1>2, <1>4, <1>6, <1>7 DEF IInv

\* Steps that let the exclusive lease go.
LEMMA EndStep ==
  ASSUME IInv, NEW p \in Procs,
         \/ Abandon(p) \/ Restore(p) \/ RestoreFails(p) \/ Discard(p)
         \/ CrashPublisher(p)
  PROVE  IInv'
<1> USE TreesAssumption DEF TreesAssumption
<1>1. /\ pc[p] \in PublisherPoints
      /\ readers' = readers /\ writer' = writer \ {p} /\ seen' = seen
      /\ pc' = [pc EXCEPT ![p] = "idle"]
  BY DEF Abandon, Restore, RestoreFails, Discard, CrashPublisher, EndPublication,
     Goto, PublisherPoints
<1>2. writer' = {}
  BY <1>1, OnePublisher DEF IInv, LeaseInv
<1>3. TypeOK'
  BY <1>1 DEF IInv, TypeOK, Abandon, Restore, RestoreFails, Discard, CrashPublisher,
     EndPublication, Points, paths
<1>4. LeaseInv'
  BY <1>1, <1>2, OnePublisher DEF IInv, LeaseInv, TypeOK, PublisherPoints
<1>5. ASSUME NEW q \in Procs PROVE PathInv(q)'
  <2>1. pc'[q] \notin PublisherPoints
    BY <1>2, <1>4 DEF LeaseInv
  <2> QED BY <2>1 DEF PathInv, PublisherPoints
<1>6. QuietInv'
  <2> USE DEF IInv, TypeOK, PathInv, Kept, QuietInv, EndPublication, PublisherPoints
  <2>1. CASE Abandon(p)
    BY <2>1 DEF Abandon, paths
  <2>2. CASE Restore(p)
    BY <2>2 DEF Restore
  <2>3. CASE RestoreFails(p)
    BY <2>3 DEF RestoreFails
  <2>4. CASE Discard(p)
    BY <2>4 DEF Discard
  <2>5. CASE CrashPublisher(p)
    BY <2>5 DEF CrashPublisher
  <2> QED BY <2>1, <2>2, <2>3, <2>4, <2>5
<1> QED BY <1>3, <1>4, <1>5, <1>6 DEF IInv

LEMMA NextIInv == IInv /\ [Next]_vars => IInv'
<1> SUFFICES ASSUME IInv, [Next]_vars PROVE IInv'
  OBVIOUS
<1>1. CASE UNCHANGED vars
  BY <1>1 DEF vars, paths, leases, history, IInv, TypeOK, LeaseInv, PathInv, Kept,
     QuietInv
<1>2. ASSUME NEW p \in Procs,
             \/ LockShared(p) \/ LockExclusive(p) \/ Step(p)
             \/ CrashReader(p) \/ CrashPublisher(p)
      PROVE  IInv'
  BY <1>2, ReaderStep, LockExclusiveStep, PublisherStep, EndStep DEF Step
<1> QED BY <1>1, <1>2 DEF Next

THEOREM Invariance == Spec => []IInv
BY InitIInv, NextIInv, PTL DEF Spec

-----------------------------------------------------------------------------
\* Publication never leaves the declared types (publication.py:118-186).
THEOREM TypeCorrect == Spec => []TypeOK
<1>1. IInv => TypeOK
  BY DEF IInv
<1> QED BY <1>1, Invariance, PTL

\* A reader's validated tree stays in place while it holds the shared lease
\* (publication.py:21-49, docs/architecture.md:79).
THEOREM ReadersSafe == Spec => []ReadersKeepTheirTree
<1>1. IInv => ReadersKeepTheirTree
  BY DEF IInv, LeaseInv, ReadersKeepTheirTree
<1> QED BY <1>1, Invariance, PTL

\* The last validated tree is on disk somewhere until a successor has been
\* validated (publication.py:147-185).
THEOREM NothingValidatedIsLost == Spec => []LastValidatedTreeSurvives
<1>1. IInv => LastValidatedTreeSurvives
  <2> SUFFICES ASSUME IInv, stable # NoTree
               PROVE  stable \in {dest, backup} \cup orphans
    BY DEF LastValidatedTreeSurvives
  <2>1. CASE writer = {}
    BY <2>1 DEF IInv, QuietInv
  <2>2. CASE writer # {}
    <3>1. PICK p \in Procs : p \in writer
      BY <2>2 DEF IInv, TypeOK
    <3>2. pc[p] \in PublisherPoints
      BY <3>1 DEF IInv, LeaseInv
    <3> QED
      BY <3>2 DEF IInv, PathInv, Kept, PublisherPoints
  <2> QED BY <2>1, <2>2
<1> QED BY <1>1, Invariance, PTL

\* Between publications the destination is the last validated tree, unless a
\* crash or a failed restore came since (docs/architecture.md:81).
THEOREM QuietSafe == Spec => []QuietDestinationIsStable
<1>1. IInv => QuietDestinationIsStable
  BY DEF IInv, QuietInv, QuietDestinationIsStable
<1> QED BY <1>1, Invariance, PTL

\* An ordinary failure restores what was there (publication.py:162-177).
THEOREM RollbackRestores == Spec => OrdinaryRollback
<1>1. ASSUME IInv, [Next]_vars, NEW p \in Procs,
             p \in writer, p \notin writer', result' = "failed"
      PROVE  dest' = prev
  <2>1. Abandon(p) \/ Restore(p)
    <3>1. pc[p] \in PublisherPoints
      BY <1>1 DEF IInv, LeaseInv
    <3>2. PICK q \in Procs :
            \/ LockShared(q) \/ LockExclusive(q) \/ Step(q)
            \/ CrashReader(q) \/ CrashPublisher(q)
      BY <1>1 DEF Next, vars, leases
    <3>3. \/ Abandon(q) \/ Restore(q) \/ RestoreFails(q) \/ Discard(q)
          \/ CrashPublisher(q)
      BY <1>1, <3>2 DEF Step, LockShared, LockExclusive, Load, UnlockShared, Stage,
         SetAside, Install, Validate, Raise, Unwind, CrashReader, leases
    <3>4. q = p
      BY <1>1, <3>3 DEF Abandon, Restore, RestoreFails, Discard, CrashPublisher,
         EndPublication
    <3> QED
      BY <1>1, <3>3, <3>4 DEF RestoreFails, Discard, CrashPublisher, EndPublication
  <2>2. CASE Abandon(p)
    BY <1>1, <2>2 DEF IInv, PathInv, Abandon, paths
  <2>3. CASE Restore(p)
    BY <1>1, <2>3 DEF IInv, PathInv, Kept, Restore
  <2> QED BY <2>1, <2>2, <2>3
<1>2. IInv /\ [Next]_vars =>
        [\A p \in Procs :
           p \in writer /\ p \notin writer' /\ result' = "failed" => dest' = prev]_vars
  BY <1>1
<1> QED BY <1>2, Invariance, PTL DEF Spec, OrdinaryRollback

-----------------------------------------------------------------------------
(* Publication implements StableTree.                                      *)

Looks == IF writer = {} THEN Visible(dest) ELSE Visible(prev)

\* No reader holds a tree while a publisher is at work.
LEMMA PublisherAlone ==
  ASSUME IInv, NEW p \in Procs, pc[p] \in PublisherPoints
  PROVE  Promise!Quiet /\ writer # {} /\ \A q \in writer : q = p
BY OnePublisher DEF IInv, LeaseInv, Promise!Quiet

LEMMA ReaderImplements ==
  ASSUME IInv, NEW p \in Procs,
         LockShared(p) \/ Load(p) \/ UnlockShared(p) \/ CrashReader(p)
  PROVE  [Promise!Next]_Promise!vars
<1> USE TreesAssumption DEF TreesAssumption
<1>1. dest' = dest /\ prev' = prev /\ writer' = writer /\ result' = result
  BY DEF LockShared, Load, UnlockShared, CrashReader, paths, history, leases
<1>2. Looks' = Looks
  BY <1>1 DEF Looks
<1>3. CASE Load(p)
  <2>1. writer = {} /\ seen[p] = NoTree
    BY <1>3 DEF Load, IInv, LeaseInv
  <2>2. Promise!Lease(p)
    BY <1>1, <1>2, <1>3, <2>1 DEF Load, Promise!Lease, Visible, Looks
  <2> QED BY <2>2 DEF Promise!Next
<1>4. CASE (UnlockShared(p) \/ CrashReader(p)) /\ pc[p] = "using"
  <2>1. seen[p] # NoTree
    BY <1>4 DEF IInv, LeaseInv
  <2>2. Promise!Release(p)
    BY <1>1, <1>2, <1>4, <2>1 DEF UnlockShared, CrashReader, Promise!Release, Looks
  <2> QED BY <2>2 DEF Promise!Next
<1>5. CASE (UnlockShared(p) \/ CrashReader(p)) /\ pc[p] # "using"
  <2>1. seen' = seen
    BY <1>5 DEF IInv, TypeOK, LeaseInv, UnlockShared, CrashReader
  <2> QED BY <1>1, <1>2, <2>1 DEF Promise!vars, Looks
<1>6. CASE LockShared(p)
  BY <1>1, <1>2, <1>6 DEF LockShared, Promise!vars, Looks
<1> QED BY <1>3, <1>4, <1>5, <1>6

LEMMA LockExclusiveImplements ==
  ASSUME IInv, NEW p \in Procs, LockExclusive(p)
  PROVE  [Promise!Next]_Promise!vars
BY DEF LockExclusive, Promise!vars, Visible, paths

LEMMA PublisherImplements ==
  ASSUME IInv, NEW p \in Procs,
         \/ \E tree \in Trees : Stage(p, tree)
         \/ SetAside(p) \/ Install(p) \/ Validate(p) \/ Raise(p) \/ Unwind(p)
  PROVE  [Promise!Next]_Promise!vars
<1>1. pc[p] \in PublisherPoints /\ prev' = prev /\ writer' = writer
      /\ seen' = seen /\ result' = result
  BY DEF Stage, SetAside, Install, Validate, Raise, Unwind, PublisherPoints, leases,
     history, paths
<1>2. writer # {}
  BY <1>1, PublisherAlone
<1> QED BY <1>1, <1>2 DEF Promise!vars

LEMMA EndImplements ==
  ASSUME IInv, NEW p \in Procs,
         \/ Abandon(p) \/ Restore(p) \/ RestoreFails(p) \/ Discard(p)
         \/ CrashPublisher(p)
  PROVE  Promise!Next
<1> USE TreesAssumption DEF TreesAssumption
<1>1. pc[p] \in PublisherPoints /\ writer' = writer \ {p} /\ seen' = seen
  BY DEF Abandon, Restore, RestoreFails, Discard, CrashPublisher, EndPublication,
     PublisherPoints
<1>2. Promise!Quiet /\ writer # {} /\ writer' = {}
  BY <1>1, PublisherAlone
<1>3. CASE Abandon(p) \/ Restore(p)
  <2>1. result' = "failed"
    BY <1>3 DEF Abandon, Restore, EndPublication
  <2>2. dest' = prev
    BY <1>3 DEF Abandon, Restore, paths, IInv, PathInv, Kept
  <2>3. Promise!Fail
    BY <1>1, <1>2, <2>1, <2>2 DEF Promise!Fail, Visible
  <2> QED BY <2>3 DEF Promise!Next
<1>4. CASE Discard(p)
  <2>1. result' = "published" /\ dest' = dest /\ dest \in Valid
    BY <1>4 DEF Discard, EndPublication, IInv, PathInv
  <2>2. Promise!Publish
    BY <1>1, <1>2, <2>1 DEF Promise!Publish, Visible
  <2> QED BY <2>2 DEF Promise!Next
<1>5. CASE RestoreFails(p) \/ CrashPublisher(p)
  <2>1. result' = "broken"
    BY <1>5 DEF RestoreFails, CrashPublisher, EndPublication
  <2>2. Promise!Break
    BY <1>1, <1>2, <2>1 DEF Promise!Break, Visible
  <2> QED BY <2>2 DEF Promise!Next
<1> QED BY <1>3, <1>4, <1>5

\* replace_directory under the artifact's lease keeps the promise of
\* docs/architecture.md:79-84: one validated tree per reader, success means a
\* validated tree, an ordinary failure changes nothing a reader can see.
THEOREM PublicationImplementsStableTree == Spec => ImplementsStableTree
<1>1. Init => Promise!Init
  BY DEF Init, Promise!Init, Visible
<1>2. IInv /\ [Next]_vars => [Promise!Next]_Promise!vars
  <2> SUFFICES ASSUME IInv, [Next]_vars PROVE [Promise!Next]_Promise!vars
    OBVIOUS
  <2>1. CASE UNCHANGED vars
    BY <2>1 DEF vars, paths, leases, history, Promise!vars, Visible
  <2>2. ASSUME NEW p \in Procs,
               \/ LockShared(p) \/ LockExclusive(p) \/ Step(p)
               \/ CrashReader(p) \/ CrashPublisher(p)
        PROVE  [Promise!Next]_Promise!vars
    BY <2>2, ReaderImplements, LockExclusiveImplements, PublisherImplements,
       EndImplements DEF Step
  <2> QED BY <2>1, <2>2 DEF Next
<1> QED BY <1>1, <1>2, Invariance, PTL DEF Spec, ImplementsStableTree, Promise!Spec

-----------------------------------------------------------------------------
(* What an action says of the files it was recorded with.                  *)

ArtifactFields == {"kind", "host", "arch", "floor"}

\* The audit that the artifact of an action passes.
AuditedFor(action, product) ==
  LET a == action.artifact
  IN IF a.kind = "compiler-kit" THEN HostAuditPasses(product, a.host.arch, a.host.floor)
     ELSE RuntimeAuditPasses(product.files, a.arch, a.floor)

ProducedFiles == {product.files : product \in Products}

\* The manifest of a running build is that of its selection and inputs.
RunningInv ==
  running # None =>
    /\ ArtifactFields \subseteq DOMAIN running.selection
    /\ running.manifest.input =
         Action(Programs[running.program], running.selection, running.sdk, running.backend)

ArtifactInv ==
  artifact # NoArtifact =>
    /\ artifact.product \in Products /\ AuditedFor(artifact.action, artifact.product)
    /\ artifact.action.source = artifact.source.sha512
    /\ artifact.undisturbed =>
         artifact.sdk = artifact.action.sdk /\ artifact.backend = artifact.action.backend

PublicationInv ==
  publication # None =>
    /\ publication.product \in Products
    /\ AuditedFor(publication.action, publication.product)

RecordInv == RunningInv /\ ArtifactInv /\ PublicationInv

LEMMA SelectionFields ==
  ASSUME NEW l, NEW sel \in Artifacts(l)
  PROVE  ArtifactFields \subseteq DOMAIN sel
<1>1. \A k : ArtifactFields \subseteq DOMAIN SelectKit(l, k)
  BY DEF SelectKit, ArtifactFields
<1>2. \A r : ArtifactFields \subseteq DOMAIN SelectRuntime(l, r)
  BY DEF SelectRuntime, ArtifactFields
<1> QED BY <1>1, <1>2 DEF Artifacts

\* An action of a selection records its kind, host, architecture and floor.
LEMMA ActionOfSelection ==
  ASSUME NEW p, NEW sel, ArtifactFields \subseteq DOMAIN sel, NEW s, NEW b
  PROVE  LET action == Action(p, sel, s, b) IN
         /\ action.artifact.kind = sel.kind /\ action.artifact.host = sel.host
         /\ action.artifact.arch = sel.arch /\ action.artifact.floor = sel.floor
         /\ action.source = sel.source.sha512 /\ action.sdk = s /\ action.backend = b
<1> DEFINE recorded == [f \in DOMAIN sel \ {"source", "platform", "build_host"} |-> sel[f]]
<1>1. \A f \in ArtifactFields : recorded[f] = sel[f]
  BY DEF ArtifactFields
<1>2. /\ recorded.kind = sel.kind /\ recorded.host = sel.host
      /\ recorded.arch = sel.arch /\ recorded.floor = sel.floor
  BY <1>1 DEF ArtifactFields
<1> HIDE DEF recorded
<1>3. Action(p, sel, s, b) =
        [artifact |-> recorded, source |-> sel.source.sha512, sdk |-> s, backend |-> b,
         builder |-> <<p.pins, sel.platform>>, script |-> p.scripts]
  BY DEF Action, recorded
<1> QED BY <1>2, <1>3

\* What is accepted for a selection has passed the audit of that selection.
LEMMA AuditedForSelection ==
  ASSUME NEW p, NEW l, NEW sel \in Artifacts(l), NEW action, ActionValid(p, sel, action),
         NEW product, AuditedFor(action, product)
  PROVE  IF sel.kind = "compiler-kit" THEN HostAuditPasses(product, sel.host.arch, sel.host.floor)
         ELSE RuntimeAuditPasses(product.files, sel.arch, sel.floor)
<1> DEFINE b == SdkIdentity(p, Recipe(p, sel.build_host.arch, sel.build_host.floor))
           s == SdkIdentity(p, action.sdk.spec)
<1>1. action = Action(p, sel, s, b)
  BY DEF ActionValid, PinnedAction
<1>2. /\ action.artifact.kind = sel.kind /\ action.artifact.host = sel.host
      /\ action.artifact.arch = sel.arch /\ action.artifact.floor = sel.floor
  <2> HIDE DEF s, b
  <2> QED BY <1>1, SelectionFields, ActionOfSelection
<1> QED BY <1>2 DEF AuditedFor

-----------------------------------------------------------------------------
(* The steps.                                                              *)

LEMMA NextRecordInv == RecordInv /\ [EvidenceNext]_evidenceVars => RecordInv'
<1> SUFFICES ASSUME RecordInv, [EvidenceNext]_evidenceVars PROVE RecordInv'
  OBVIOUS
<1>1. CASE UNCHANGED <<artifact, publication, running>>
  BY <1>1 DEF RecordInv, RunningInv, ArtifactInv, PublicationInv
<1>2. ASSUME NEW sel \in Locked, Render(sel) PROVE RecordInv'
  BY <1>2 DEF Render, RecordInv, RunningInv, ArtifactInv, PublicationInv
<1>3. ASSUME NEW sel \in Locked, StartBuild(sel) PROVE RecordInv'
  <2>1. /\ InputsValid(Current, sel, workspace) /\ UNCHANGED <<artifact, publication>>
        /\ running' = [selection |-> sel, lock |-> lock, program |-> program,
                       manifest |-> workspace, sdk |-> sdk, backend |-> backend]
    BY <1>3 DEF StartBuild
  <2>2. sel \in Artifacts(lock)
    BY DEF Locked
  <2>3. RunningInv'
    BY <2>1, <2>2, SelectionFields DEF RunningInv, InputsValid, Current
  <2> QED BY <2>1, <2>3 DEF RecordInv, ArtifactInv, PublicationInv
<1>4. ASSUME NEW sel \in Locked, Publish(sel) PROVE RecordInv'
  <2>1. /\ UNCHANGED <<artifact, running>> /\ artifact # NoArtifact
        /\ \/ publication' = publication
           \/ publication' = [action |-> artifact.action,
                              manifest |-> <<sel.runtime_kind, sel.version, sel.arch, sel.floor>>,
                              product |-> artifact.product,
                              made |-> [selection |-> sel, program |-> program]]
    BY <1>4 DEF Publish, Loads
  <2>2. PublicationInv'
    BY <2>1 DEF RecordInv, ArtifactInv, PublicationInv
  <2> QED BY <2>1, <2>2 DEF RecordInv, RunningInv, ArtifactInv
<1>5. CASE RemoveWorkspace
  BY <1>5 DEF RemoveWorkspace, RecordInv, RunningInv, ArtifactInv, PublicationInv
<1>6. ASSUME NEW product \in Products, RefuseProduct(product) PROVE RecordInv'
  BY <1>6 DEF RefuseProduct, RecordInv, RunningInv, ArtifactInv, PublicationInv
<1>7. ASSUME NEW product \in Products, FinishBuild(product) PROVE RecordInv'
  <2>1. /\ running # None /\ running' = None /\ publication' = publication
        /\ artifact' \in {artifact, Finalized(product)}
        /\ ProductPasses(running.selection, product)
    BY <1>7 DEF FinishBuild
  <2>2. CASE artifact' = artifact
    BY <2>1, <2>2 DEF RecordInv, RunningInv, ArtifactInv, PublicationInv
  <2>3. CASE artifact' = Finalized(product)
    <3> DEFINE sel == running.selection  action == running.manifest.input
    <3>1. /\ artifact'.product = product /\ artifact'.action = action
          /\ artifact'.source = sel.source
          /\ artifact'.sdk = sdk /\ artifact'.backend = backend
          /\ artifact'.undisturbed = (sdk = running.sdk /\ backend = running.backend)
      BY <2>3 DEF Finalized
    <3>2. /\ ArtifactFields \subseteq DOMAIN sel
          /\ action = Action(Programs[running.program], sel, running.sdk, running.backend)
      BY <2>1 DEF RecordInv, RunningInv
    <3> HIDE DEF sel, action
    <3>3. /\ action.artifact.kind = sel.kind /\ action.artifact.host = sel.host
          /\ action.artifact.arch = sel.arch /\ action.artifact.floor = sel.floor
          /\ action.source = sel.source.sha512
          /\ action.sdk = running.sdk /\ action.backend = running.backend
      BY <3>2, ActionOfSelection
    <3>4. AuditedFor(action, product)
      BY <2>1, <3>3 DEF ProductPasses, AuditedFor, sel
    <3>5. ArtifactInv'
      BY <3>1, <3>3, <3>4 DEF ArtifactInv
    <3> QED BY <2>1, <3>5 DEF RecordInv, RunningInv, PublicationInv
  <2> QED BY <2>1, <2>2, <2>3
<1>8. CASE StopBuild
  BY <1>8 DEF StopBuild, RecordInv, RunningInv, ArtifactInv, PublicationInv
<1>9. CASE EvidenceNext
  <2>1. CASE (\E s \in Specs : WriteLock(s)) \/ EditLock \/ Upgrade
    BY <1>1, <2>1 DEF WriteLock, EditLock, Upgrade
  <2>2. CASE \E spec \in SdkSpecs : BuildSdk(spec) \/ BuildBackend(spec)
    BY <1>1, <2>2 DEF BuildSdk, BuildBackend
  <2> QED BY <1>2, <1>3, <1>4, <1>5, <1>6, <1>7, <1>8, <1>9, <2>1, <2>2 DEF EvidenceNext
<1> QED BY <1>1, <1>9 DEF evidenceVars

LEMMA InitRecordInv == EvidenceInit => RecordInv
BY DEF EvidenceInit, RecordInv, RunningInv, ArtifactInv, PublicationInv

-----------------------------------------------------------------------------
(* What is accepted serves the selection.                                  *)

\* The audits and the loader agree.
LEMMA AuditedIsUsable ==
  ASSUME NEW sel, NEW product \in Products,
         IF sel.kind = "compiler-kit" THEN HostAuditPasses(product, sel.host.arch, sel.host.floor)
         ELSE RuntimeAuditPasses(product.files, sel.arch, sel.floor)
  PROVE  Usable(sel, product)
<1>1. CASE sel.kind = "compiler-kit"
  <2> DEFINE machine == sel.host.arch  floor == sel.host.floor
  <2>1. HostAuditPasses(product, machine, floor)
    BY <1>1
  <2> HIDE DEF machine, floor
  <2>2. ASSUME NEW f \in product.files PROVE Starts(f, machine, floor)
    BY <2>1 DEF HostAuditPasses, Starts, DtRelrCompatible, VersionsAllowed, AtMost
  <2>3. ASSUME NEW f \in product.files, NEW n \in f.needed, ~TakenOnTrust(product, f, n)
        PROVE  Linked(product, f, n, machine)
    <3>1. n.path = "plain" /\ \A place \in Leads(product, f, n) : place.file # None
      BY <2>3 DEF TakenOnTrust
    <3>2. /\ Found(product, f, n) /\ \A e \in f.search : e.kind = "origin"
          /\ \A g \in product.files : g.machine = machine
      BY <2>1, <2>3 DEF HostAuditPasses
    <3>3. CASE n \in SystemLibraries
      BY <3>1, <3>3 DEF Linked
    <3>4. CASE n \notin SystemLibraries
      <4>1. PICK place \in Leads(product, f, n) : TRUE
        BY <3>1, <3>2, <3>4 DEF Found, Leads
      <4>2. place \in Places(product) /\ place.file # None
        BY <3>1, <4>1 DEF Leads
      <4>3. place.file \in product.files
        BY <4>2, ProductsAssumption DEF ProductsAssumption, Places, Place
      <4> QED BY <3>1, <3>2, <4>1, <4>2, <4>3 DEF Linked
    <3> QED BY <3>3, <3>4
  <2> QED BY <1>1, <2>2, <2>3 DEF Usable, machine, floor
<1>2. CASE sel.kind # "compiler-kit"
  <2>1. RuntimeAuditPasses(product.files, sel.arch, sel.floor)
    BY <1>2
  <2>2. ASSUME NEW f \in product.files
        PROVE  Starts([f EXCEPT !.interpreter = None], sel.arch, sel.floor) /\ f.search = {}
    <3> DEFINE g == [f EXCEPT !.interpreter = None]
    <3>1. {"machine", "interpreter", "needs", "relr", "search"} \subseteq DOMAIN f
      BY ProductsAssumption DEF ProductsAssumption
    <3>2. g.machine = f.machine /\ g.interpreter = None /\ g.needs = f.needs /\ g.relr = f.relr
      BY <3>1
    <3> HIDE DEF g
    <3>3. Starts(g, sel.arch, sel.floor)
      BY <2>1, <3>2 DEF RuntimeAuditPasses, Starts, DtRelrCompatible, VersionsAllowed, AtMost
    <3> QED BY <2>1, <3>3 DEF RuntimeAuditPasses, g
  <2> QED BY <1>2, <2>2 DEF Usable
<1> QED BY <1>1, <1>2

\* Whatever became of lock, SDK, backend and program since the build: what is
\* accepted for a selection serves its floor and comes of its inputs.
THEOREM AcceptedServes == EvidenceSpec => []AcceptedServesTheLock
<1>1. RecordInv => AcceptedServesTheLock
  <2> SUFFICES ASSUME RecordInv, NEW sel \in Locked
               PROVE  /\ Loads(Current, lock, sel, artifact) =>
                           /\ Usable(sel, artifact.product)
                           /\ artifact.source.sha512 = sel.source.sha512
                           /\ artifact.undisturbed =>
                                /\ artifact.sdk.pins = Current.pins
                                /\ sel.floor # None => artifact.sdk.spec.floor = sel.floor
                                /\ artifact.backend = SdkIdentity(Current, Recipe(Current, sel.build_host.arch,
                                                                                 sel.build_host.floor))
                      /\ PublicationLoads(Current, lock, sel, publication) => Usable(sel, publication.product)
    BY DEF AcceptedServesTheLock
  <2>0. sel \in Artifacts(lock)
    BY DEF Locked
  <2>1. ASSUME Loads(Current, lock, sel, artifact)
        PROVE  /\ Usable(sel, artifact.product)
               /\ artifact.source.sha512 = sel.source.sha512
               /\ artifact.undisturbed =>
                    /\ artifact.sdk.pins = Current.pins
                    /\ sel.floor # None => artifact.sdk.spec.floor = sel.floor
                    /\ artifact.backend = SdkIdentity(Current, Recipe(Current, sel.build_host.arch,
                                                                     sel.build_host.floor))
    <3> DEFINE action == artifact.action  s == SdkIdentity(Current, action.sdk.spec)
               b == SdkIdentity(Current, Recipe(Current, sel.build_host.arch, sel.build_host.floor))
    <3>1. ActionValid(Current, sel, action) /\ artifact # NoArtifact
      BY <2>1 DEF Loads
    <3>2. /\ artifact.product \in Products /\ AuditedFor(action, artifact.product)
          /\ action.source = artifact.source.sha512
          /\ artifact.undisturbed =>
               artifact.sdk = action.sdk /\ artifact.backend = action.backend
      BY <3>1 DEF RecordInv, ArtifactInv
    <3>3. Usable(sel, artifact.product)
      <4> HIDE DEF action
      <4> QED BY <2>0, <3>1, <3>2, AuditedForSelection, AuditedIsUsable
    <3>4. /\ action = Action(Current, sel, s, b) /\ action.sdk = s
          /\ sel.floor # None => action.sdk.spec.floor = sel.floor
      BY <3>1 DEF ActionValid, PinnedAction
    <3>5. action.source = sel.source.sha512 /\ action.backend = b
      <4> HIDE DEF action, s, b
      <4> QED BY <2>0, <3>4, SelectionFields, ActionOfSelection
    <3>6. s.pins = Current.pins
      BY DEF SdkIdentity
    <3> HIDE DEF action, s
    <3> QED BY <3>2, <3>3, <3>4, <3>5, <3>6
  <2>2. ASSUME PublicationLoads(Current, lock, sel, publication)
        PROVE  Usable(sel, publication.product)
    <3>1. ActionValid(Current, sel, publication.action) /\ publication # None
      BY <2>2 DEF PublicationLoads
    <3>2. publication.product \in Products /\ AuditedFor(publication.action, publication.product)
      BY <3>1 DEF RecordInv, PublicationInv
    <3> QED BY <2>0, <3>1, <3>2, AuditedForSelection, AuditedIsUsable
  <2> QED BY <2>1, <2>2
<1> QED BY <1>1, InitRecordInv, NextRecordInv, PTL DEF EvidenceSpec

\* A user who audits what is accepted under the policy of its floor finds nothing
\* that the audit of the build looks for too.
THEOREM AuditsAgree == EvidenceSpec => []AuditorsAgree
<1>1. RecordInv => AuditorsAgree
  <2> SUFFICES ASSUME RecordInv, NEW sel \in Locked, Loads(Current, lock, sel, artifact),
                      NEW f \in artifact.product.files
               PROVE  Violations(f, PolicyForFloor(MachineOf(sel), FloorOf(sel))) \cap CommonCodes = {}
    BY DEF AuditorsAgree
  <2> DEFINE machine == MachineOf(sel)  floor == FloorOf(sel)  policy == PolicyForFloor(machine, floor)
  <2>0. sel \in Artifacts(lock)
    BY DEF Locked
  <2>1. ActionValid(Current, sel, artifact.action) /\ AuditedFor(artifact.action, artifact.product)
    BY DEF Loads, RecordInv, ArtifactInv
  <2>2. /\ f.machine = machine /\ DtRelrCompatible(f, floor) /\ VersionsAllowed(f, floor)
        /\ \A e \in f.search : e.kind = "origin"
    <3>1. CASE sel.kind = "compiler-kit"
      <4>1. HostAuditPasses(artifact.product, machine, floor)
        BY <2>0, <2>1, <3>1, AuditedForSelection DEF MachineOf, FloorOf
      <4> QED BY <4>1 DEF HostAuditPasses
    <3>2. CASE sel.kind # "compiler-kit"
      <4>1. RuntimeAuditPasses(artifact.product.files, machine, floor)
        BY <2>0, <2>1, <3>2, AuditedForSelection DEF MachineOf, FloorOf
      <4> QED BY <4>1 DEF RuntimeAuditPasses
    <3> QED BY <3>1, <3>2
  <2> HIDE DEF machine, floor
  <2>3. /\ policy.machine = machine /\ policy.forbidden = {Private}
        /\ policy.limits["GLIBC"] = floor
    <3>1. {} \cup {Private} = {Private}
      OBVIOUS
    <3> QED BY <3>1 DEF PolicyForFloor, Policy, Namespaces
  <2> HIDE DEF policy
  <2>4. VersionViolations(f, policy) \cap CommonCodes = {}
    <3>1. f.needs \cap policy.forbidden = {}
      BY <2>2, <2>3 DEF VersionsAllowed
    <3>2. \A n \in f.needs : n.ns = "GLIBC" => n.version # None /\ ~Older(floor, n.version)
      BY <2>2 DEF VersionsAllowed, AtMost
    <3>3. Older(floor, DtRelrMinimum) => ~f.relr /\ AbiDtRelr \notin f.needs
      BY <2>2 DEF DtRelrCompatible, AtMost
    <3> QED BY <2>3, <3>1, <3>2, <3>3 DEF VersionViolations, Violation, CommonCodes
  <2>5. PathViolations(f) \cap CommonCodes = {}
    <3>1. ~ \E e \in f.search : e.kind \notin {"origin", "token"}
      BY <2>2
    <3> QED BY <3>1 DEF PathViolations, Violation, CommonCodes
  <2> QED BY <2>2, <2>3, <2>4, <2>5 DEF Violations, Violation, CommonCodes, policy, machine, floor
<1> QED BY <1>1, InitRecordInv, NextRecordInv, PTL DEF EvidenceSpec

-----------------------------------------------------------------------------
(* The order of versions.                                                  *)

Versions == Seq(Nat) \ {<<>>}

\* Sets of natural numbers have a least element.
LEMMA SetSmallest ==
  ASSUME NEW S, S \subseteq Nat, S # {}
  PROVE  \E m \in S : \A k \in S : m <= k
<1> DEFINE Less == OpToRel(<, Nat)
<1>1. IsWellFoundedOn(Less, Nat)
  BY NatLessThanWellFounded
<1>2. PICK m \in S : \A k \in S : <<k, m>> \notin Less
  <2> HIDE DEF Less
  <2> QED BY <1>1, WFMin
<1>3. ASSUME NEW k \in S, k < m PROVE <<k, m>> \in Less
  BY <1>3 DEF OpToRel
<1>4. ASSUME NEW k \in S PROVE m <= k
  <2>1. ~(k < m)
    BY <1>2, <1>3
  <2> QED BY <2>1
<1> QED BY <1>4

LEMMA ParseType ==
  ASSUME NEW v \in Versions
  PROVE  Parse(v) \in Seq(Nat)
<1> DEFINE Last(i) == /\ i = 1 \/ v[i] # 0
                      /\ \A j \in i + 1 .. Len(v) : v[j] = 0
           S == {i \in 1 .. Len(v) : \A j \in i + 1 .. Len(v) : v[j] = 0}
<1>1. v \in Seq(Nat) /\ Len(v) \in Nat /\ Len(v) >= 1
  BY DEF Versions
<1>2. S \subseteq Nat /\ Len(v) \in S
  BY <1>1
<1>3. PICK m \in S : \A k \in S : m <= k
  <2> HIDE DEF S
  <2> QED BY <1>2, SetSmallest
<1>4. Last(m)
  <2> SUFFICES ASSUME m # 1, v[m] = 0 PROVE FALSE
    BY <1>3
  <2>1. m - 1 \in 1 .. Len(v) /\ m \in 1 .. Len(v) /\ ~(m <= m - 1)
    BY <1>1, <1>3
  <2>2. \A j \in (m - 1) + 1 .. Len(v) : j = m \/ j \in m + 1 .. Len(v)
    BY <2>1
  <2>3. m - 1 \in S
    BY <1>3, <2>1, <2>2
  <2> QED BY <1>3, <2>1, <2>3
<1>5. PICK last : last = CHOOSE i \in 1 .. Len(v) : Last(i)
  OBVIOUS
<1>6. last \in 1 .. Len(v)
  BY <1>3, <1>4, <1>5
<1>7. Parse(v) = SubSeq(v, 1, last)
  BY <1>5 DEF Parse
<1> QED BY <1>1, <1>6, <1>7

\* The number of a sequence at a place, or less than any when it has ended.
At(s, i) == IF i <= Len(s) THEN s[i] ELSE -1

Positions == Nat \ {0}

\* The first place where b is less than a.
Before(b, a, i) == At(b, i) < At(a, i) /\ \A j \in Positions : j < i => At(b, j) = At(a, j)

LEMMA AtType ==
  ASSUME NEW s \in Seq(Nat), NEW i \in Positions
  PROVE  At(s, i) \in Int /\ At(s, i) >= -1 /\ (At(s, i) >= 0 <=> i <= Len(s))
BY DEF At, Positions

\* Older compares at the first place where two versions differ.
LEMMA OlderMeans ==
  ASSUME NEW v \in Versions, NEW w \in Versions
  PROVE  Older(v, w) <=> \E i \in Positions : Before(Parse(v), Parse(w), i)
<1> DEFINE a == Parse(v)  b == Parse(w)
           Equal(n) == \A i \in 1 .. n : a[i] = b[i]
<1>1. a \in Seq(Nat) /\ b \in Seq(Nat)
  BY ParseType
<1>2. Older(v, w) <=> \/ \E i \in 1 .. Len(a) : i <= Len(b) /\ Equal(i - 1) /\ a[i] < b[i]
                      \/ Len(a) < Len(b) /\ Equal(Len(a))
  BY DEF Older
<1> HIDE DEF a, b
<1>3. ASSUME NEW i \in 1 .. Len(a), i <= Len(b), Equal(i - 1), a[i] < b[i]
      PROVE  \E k \in Positions : Before(a, b, k)
  <2>1. i \in Positions /\ Before(a, b, i)
    BY <1>1, <1>3 DEF Before, At, Positions
  <2> QED BY <2>1
<1>4. ASSUME Len(a) < Len(b), Equal(Len(a)) PROVE \E k \in Positions : Before(a, b, k)
  <2>1. Len(a) + 1 \in Positions /\ Before(a, b, Len(a) + 1)
    BY <1>1, <1>4 DEF Before, At, Positions
  <2> QED BY <2>1
<1>5. ASSUME NEW i \in Positions, Before(a, b, i)
      PROVE  \/ \E k \in 1 .. Len(a) : k <= Len(b) /\ Equal(k - 1) /\ a[k] < b[k]
             \/ Len(a) < Len(b) /\ Equal(Len(a))
  <2>1. i <= Len(b) /\ i \in Nat /\ i # 0 /\ Len(a) \in Nat /\ Len(b) \in Nat
    BY <1>1, <1>5, AtType DEF Before, Positions
  <2>2. ASSUME NEW j \in Positions, j < i PROVE j <= Len(a) /\ j <= Len(b) /\ a[j] = b[j]
    <3>1. At(a, j) = At(b, j) /\ j <= Len(b)
      BY <1>5, <2>1, <2>2 DEF Before, Positions
    <3>2. j <= Len(a)
      BY <1>1, <3>1, AtType
    <3> QED BY <3>1, <3>2 DEF At
  <2>3. CASE i <= Len(a)
    <3>1. i \in 1 .. Len(a) /\ Equal(i - 1) /\ a[i] < b[i]
      BY <1>5, <2>1, <2>2, <2>3 DEF Before, At, Positions
    <3> QED BY <2>1, <3>1
  <2>4. CASE ~(i <= Len(a))
    <3>1. Len(a) < Len(b) /\ Equal(Len(a))
      BY <2>1, <2>2, <2>4 DEF Positions
    <3> QED BY <3>1
  <2> QED BY <2>3, <2>4
<1> QED BY <1>2, <1>3, <1>4, <1>5 DEF a, b

LEMMA AtMostTotal ==
  ASSUME NEW v \in Versions, NEW w \in Versions
  PROVE  AtMost(v, w) \/ AtMost(w, v)
<1> DEFINE a == Parse(v)  b == Parse(w)
<1>1. a \in Seq(Nat) /\ b \in Seq(Nat)
  BY ParseType
<1>2. ASSUME NEW i \in Positions, NEW k \in Positions, Before(a, b, i), Before(b, a, k) PROVE FALSE
  <2> HIDE DEF a, b
  <2>1. i < k \/ k < i \/ i = k
    BY DEF Positions
  <2> QED BY <1>1, <1>2, <2>1, AtType DEF Before
<1> QED BY <1>2, OlderMeans DEF AtMost

LEMMA AtMostTransitive ==
  ASSUME NEW u \in Versions, NEW v \in Versions, NEW w \in Versions, AtMost(u, v), AtMost(v, w)
  PROVE  AtMost(u, w)
<1> DEFINE a == Parse(u)  b == Parse(v)  c == Parse(w)
<1>1. a \in Seq(Nat) /\ b \in Seq(Nat) /\ c \in Seq(Nat)
  BY ParseType
<1>2. SUFFICES ASSUME NEW i \in Positions, Before(c, a, i)
               PROVE  \E k \in Positions : Before(b, a, k) \/ Before(c, b, k)
  BY OlderMeans DEF AtMost
<1> HIDE DEF a, b, c
<1> DEFINE D == {k \in Positions : At(b, k) # At(a, k) \/ At(b, k) # At(c, k)}
<1>t. \A k \in Positions : At(a, k) \in Int /\ At(b, k) \in Int /\ At(c, k) \in Int
  BY <1>1, AtType
<1>3. i \in D /\ D \subseteq Nat
  BY <1>t, <1>2 DEF Before, Positions
<1>4. PICK m \in D : \A k \in D : m <= k
  <2> HIDE DEF D
  <2> QED BY <1>3, SetSmallest
<1>5. m \in Positions /\ m <= i /\ \A j \in Positions : j < m => At(b, j) = At(a, j) /\ At(b, j) = At(c, j)
  BY <1>3, <1>4 DEF Positions
<1>6. At(c, m) <= At(a, m)
  BY <1>t, <1>2, <1>5 DEF Before, Positions
<1>7. At(b, m) < At(a, m) \/ At(c, m) < At(b, m)
  BY <1>t, <1>4, <1>5, <1>6
<1> QED BY <1>5, <1>7 DEF Before

\* Finitely many versions have a last one.
LEMMA LastVersion ==
  ASSUME NEW S, S \subseteq Versions, IsFiniteSet(S), S # {}
  PROVE  \E v \in S : \A w \in S : AtMost(w, v)
<1> DEFINE HasLast(R) == \E v \in R : \A w \in R : AtMost(w, v)
           Without == {n \in Nat : \E R \in SUBSET Versions : /\ IsFiniteSet(R) /\ R # {}
                                                              /\ Cardinality(R) = n /\ ~HasLast(R)}
<1>1. SUFFICES ASSUME ~HasLast(S) PROVE FALSE
  OBVIOUS
<1>2. Without \subseteq Nat /\ Without # {}
  <2>1. Cardinality(S) \in Nat
    BY FS_CardinalityType
  <2>2. Cardinality(S) \in Without
    BY <1>1, <2>1
  <2> QED BY <2>2
<1>3. PICK m \in Without : \A k \in Without : m <= k
  <2> HIDE DEF Without
  <2> QED BY <1>2, SetSmallest
<1>4. PICK R \in SUBSET Versions : IsFiniteSet(R) /\ R # {} /\ Cardinality(R) = m /\ ~HasLast(R)
  BY <1>3
<1>5. PICK x \in R : TRUE
  BY <1>4
<1> DEFINE Q == R \ {x}
<1>6. IsFiniteSet(Q) /\ Cardinality(Q) = m - 1 /\ m - 1 \in Nat
  <2>1. IsFiniteSet(Q) /\ Cardinality(Q) = Cardinality(R) - 1
    BY <1>4, <1>5, FS_RemoveElement
  <2>2. Cardinality(Q) \in Nat
    BY <2>1, FS_CardinalityType
  <2> QED BY <1>4, <2>1, <2>2
<1>r. R = Q \cup {x} /\ Q \subseteq Versions /\ x \in Versions
  BY <1>4, <1>5
<1> HIDE DEF Q
<1>7. CASE Q = {}
  <2>1. AtMost(x, x)
    BY <1>r, AtMostTotal
  <2> QED BY <1>4, <1>7, <1>r, <2>1
<1>8. CASE Q # {}
  <2>1. HasLast(Q)
    <3>1. ~(m <= m - 1)
      BY <1>6, <1>3
    <3>2. m - 1 \notin Without
      BY <1>3, <3>1
    <3> QED BY <1>6, <1>8, <1>r, <3>2
  <2>2. PICK v \in Q : \A w \in Q : AtMost(w, v)
    BY <2>1
  <2>3. CASE AtMost(x, v)
    BY <1>4, <1>r, <2>2, <2>3
  <2>4. CASE AtMost(v, x)
    <3>1. \A w \in Q : AtMost(w, x)
      BY <1>r, <2>2, <2>4, AtMostTransitive
    <3>2. AtMost(x, x)
      BY <1>r, AtMostTotal
    <3> QED BY <1>4, <1>r, <3>1, <3>2
  <2> QED BY <1>r, <2>2, <2>3, <2>4, AtMostTotal
<1> QED BY <1>7, <1>8

LEMMA FiniteImage ==
  ASSUME NEW S, IsFiniteSet(S), NEW f, DOMAIN f = S
  PROVE  IsFiniteSet({f[x] : x \in S})
<1> DEFINE T == {f[x] : x \in S}  g == [x \in S |-> f[x]]
<1>1. g \in Surjection(S, T)
  BY DEF Surjection
<1> HIDE DEF T, g
<1>2. IsFiniteSet(T)
  BY <1>1, FS_Surjection
<1> QED BY <1>2 DEF T

\* What an audit records is one of the versions that the files need.
LEMMA RecordedIsNeeded ==
  ASSUME NEW files \in ProducedFiles
  PROVE  MaxRequired(files) = None
           \/ \E f \in files : \E n \in f.needs : n.ns = "GLIBC" /\ n.version = MaxRequired(files)
<1> DEFINE all == UNION {f.needs : f \in files}
           needed == {n.version : n \in {m \in all : m.ns = "GLIBC" /\ m.version # None}}
<1>1. /\ IsFiniteSet(files)
      /\ \A f \in files : /\ IsFiniteSet(f.needs)
                          /\ \A n \in f.needs : n.version = None \/ n.version \in Versions
  BY ProductsAssumption DEF ProductsAssumption, ProducedFiles, Versions
<1>2. CASE needed = {}
  BY <1>2 DEF MaxRequired
<1>3. CASE needed # {}
  <2>1. IsFiniteSet({f.needs : f \in files})
    <3> DEFINE of == [f \in files |-> f.needs]
    <3>1. IsFiniteSet({of[f] : f \in files})
      <4>1. DOMAIN of = files
        OBVIOUS
      <4> HIDE DEF of
      <4> QED BY <1>1, <4>1, FiniteImage
    <3>2. {of[f] : f \in files} = {f.needs : f \in files}
      OBVIOUS
    <3> HIDE DEF of
    <3> QED BY <3>1, <3>2
  <2>2. IsFiniteSet(all)
    BY <1>1, <2>1, FS_UNION
  <2>3. IsFiniteSet({m \in all : m.ns = "GLIBC" /\ m.version # None})
    BY <2>2, FS_Subset
  <2>4. IsFiniteSet(needed)
    <3> DEFINE named == {m \in all : m.ns = "GLIBC" /\ m.version # None}
               of == [n \in named |-> n.version]
    <3>1. IsFiniteSet({of[n] : n \in named})
      <4>1. DOMAIN of = named
        OBVIOUS
      <4> HIDE DEF of, named
      <4> QED BY <2>3, <4>1, FiniteImage DEF named
    <3>2. {of[n] : n \in named} = needed
      OBVIOUS
    <3> QED BY <3>1, <3>2, Zenon
  <2>5. needed \subseteq Versions
    BY <1>1
  <2>6. MaxRequired(files) = CHOOSE v \in needed : \A w \in needed : AtMost(w, v)
    BY <1>3 DEF MaxRequired
  <2>7. \E v \in needed : \A w \in needed : AtMost(w, v)
    <3> HIDE DEF needed
    <3> QED BY <1>3, <2>4, <2>5, LastVersion
  <2>8. MaxRequired(files) \in needed
    <3> HIDE DEF needed
    <3> QED BY <2>6, <2>7
  <2> QED BY <2>8
<1> QED BY <1>2, <1>3

-----------------------------------------------------------------------------
(* The lock of a specification.                                            *)

IsCatalog(catalog) == \A x, y \in catalog :
  /\ x = [family |-> x.family, version |-> x.version, sha512 |-> x.sha512]
  /\ x.family \in Families /\ Len(x.version) > 1
  /\ SourceId(x) = SourceId(y) => x = y

LEMMA ResolvedRelease ==
  ASSUME NEW catalog, NEW family, NEW selector, Resolves(catalog, family, selector)
  PROVE  LET x == ResolveRelease(catalog, family, selector) IN x \in catalog /\ x.family = family
<1>1. Matches(catalog, family, selector) # {}
  BY FS_EmptySet DEF Resolves
<1> QED BY <1>1 DEF ResolveRelease, Matches

\* A compiler entry, its release and a target that a specification asks for.
LEMMA SelectionIs ==
  ASSUME NEW catalog, NEW s, ValidSpec(s), SelectorsResolve(catalog, s), NEW x \in Selections(catalog, s)
  PROVE  /\ x[1] \in s.compilers /\ ValidCompiler(x[1])
         /\ x[2] \in catalog /\ x[2].family = x[1].family /\ x[2].family \in Families
         /\ x[3] \in s.targets /\ ValidTarget(x[3])
<1>1. x[1] \in s.compilers /\ x[2] \in catalog /\ x[3] \in s.targets
  BY DEF Selections
<1>2. PICK v \in x[1].versions : x[2] = ResolveRelease(catalog, x[1].family, v)
  BY DEF Selections
<1>3. Resolves(catalog, x[1].family, v)
  BY <1>1, <1>2 DEF SelectorsResolve, ReleasesResolve
<1>4. x[2].family = x[1].family
  BY <1>2, <1>3, ResolvedRelease
<1> QED BY <1>1, <1>4 DEF ValidSpec, ValidCompiler

\* The release of a runtime is one of the family that provides it.
LEMMA RuntimeReleaseIs ==
  ASSUME NEW catalog, NEW s, ValidSpec(s), SelectorsResolve(catalog, s),
         NEW x \in Selections(catalog, s), NEW r \in x[1].runtimes
  PROVE  LET release == RuntimeRelease(catalog, x[2], r)
             provider == RuntimeProvider(x[2], r)
         IN /\ release \in catalog
            /\ provider \in {"gcc", "llvm"}
            /\ release.family = IF provider = "gcc" THEN "gcc" ELSE "clang"
            /\ r.kind \in {"libstdc++", "libc++"}
            /\ provider = "gcc" <=> r.kind = "libstdc++"
            /\ x[2].family = "gcc" => (release = x[2] /\ r.kind = "libstdc++")
            /\ r.kind = "libc++" => (release = x[2] /\ x[2].family = "clang")
<1>1. /\ x[1] \in s.compilers /\ ValidCompiler(x[1]) /\ x[2] \in catalog
      /\ x[2].family = x[1].family /\ x[2].family \in Families
  BY SelectionIs
<1>2. r.kind \in {"libstdc++", "libc++"}
  BY <1>1 DEF ValidCompiler
<1>3. CASE x[2].family = "gcc"
  <2>1. r.kind = "libstdc++"
    BY <1>1, <1>3 DEF ValidCompiler
  <2> QED BY <1>1, <1>3, <2>1 DEF RuntimeRelease, RuntimeProvider
<1>4. CASE x[2].family = "clang" /\ r.kind = "libstdc++"
  <2>1. r.gcc # None
    BY <1>1, <1>4 DEF ValidCompiler
  <2>2. Resolves(catalog, "gcc", r.gcc)
    BY <1>1, <2>1 DEF SelectorsResolve
  <2> QED BY <1>4, <2>2, ResolvedRelease DEF RuntimeRelease, RuntimeProvider
<1>5. CASE x[2].family = "clang" /\ r.kind = "libc++"
  BY <1>1, <1>5 DEF RuntimeRelease, RuntimeProvider
<1> QED BY <1>1, <1>2, <1>3, <1>4, <1>5 DEF Families

\* The releases that need a kit are in the catalog.
LEMMA ProviderIs ==
  ASSUME NEW catalog, NEW s, ValidSpec(s), SelectorsResolve(catalog, s), NEW p \in Providers(catalog, s)
  PROVE  p[1] \in catalog /\ p[2] \in s.targets /\ ValidTarget(p[2])
<1>1. PICK x \in Selections(catalog, s) :
        p = <<x[2], x[3]>> \/ \E r \in x[1].runtimes : p = <<RuntimeRelease(catalog, x[2], r), x[3]>>
  BY DEF Providers
<1> QED BY <1>1, SelectionIs, RuntimeReleaseIs

LEMMA ProvidersOf ==
  ASSUME NEW catalog, NEW s, NEW x \in Selections(catalog, s)
  PROVE  /\ <<x[2], x[3]>> \in Providers(catalog, s)
         /\ \A r \in x[1].runtimes : <<RuntimeRelease(catalog, x[2], r), x[3]>> \in Providers(catalog, s)
BY DEF Providers

\* A kit of a resolved lock for each provider, and no other of the same name.
LEMMA KitsOfLock ==
  ASSUME NEW catalog, NEW s, NEW k \in Resolve(catalog, s).kits
  PROVE  /\ k = [family |-> k.family, version |-> k.version, host |-> s.host, arch |-> k.arch]
         /\ k.host = s.host
         /\ \E p \in Providers(catalog, s) : k = KitOf(p[1], s.host, p[2].arch)
<1>1. PICK p \in Providers(catalog, s) : k = KitOf(p[1], s.host, p[2].arch)
  BY DEF Resolve
<1> QED BY <1>1 DEF KitOf

\* What is resolved is not empty.
LEMMA SomethingSelected ==
  ASSUME NEW catalog, NEW s, ValidSpec(s), SelectorsResolve(catalog, s)
  PROVE  Selections(catalog, s) # {}
<1>1. PICK c \in s.compilers, t \in s.targets : TRUE
  BY DEF ValidSpec
<1>2. PICK v \in c.versions : TRUE
  BY DEF ValidSpec, ValidCompiler
<1>3. Resolves(catalog, c.family, v)
  BY DEF SelectorsResolve, ReleasesResolve
<1>4. ResolveRelease(catalog, c.family, v) \in catalog
  BY <1>3, ResolvedRelease
<1> DEFINE x == <<c, ResolveRelease(catalog, c.family, v), t>>
<1>5. x \in Selections(catalog, s)
  BY <1>4 DEF Selections
<1> QED BY <1>5

\* Every runtime of a resolved lock has one kit that can build it.
LEMMA RuntimeOfLock ==
  ASSUME NEW catalog, NEW s, ValidSpec(s), SelectorsResolve(catalog, s),
         NEW x \in Selections(catalog, s), NEW q \in x[1].runtimes
  PROVE  ValidRuntime(Resolve(catalog, s),
                      RuntimeOf(RuntimeProvider(x[2], q), RuntimeRelease(catalog, x[2], q), x[3]))
<1> DEFINE l == Resolve(catalog, s)  release == RuntimeRelease(catalog, x[2], q)
           r == RuntimeOf(RuntimeProvider(x[2], q), release, x[3])
           kit == KitOf(release, s.host, x[3].arch)
<1>1. /\ r.provider = RuntimeProvider(x[2], q) /\ r.version = release.version /\ r.target = x[3]
      /\ l.host = s.host /\ l.sources = {p[1] : p \in Providers(catalog, s)}
      /\ l.kits = {KitOf(p[1], s.host, p[2].arch) : p \in Providers(catalog, s)}
  BY DEF Resolve, RuntimeOf
<1>2. ProviderFamily(r) = release.family
  <2> HIDE DEF r, release
  <2> QED BY <1>1, RuntimeReleaseIs DEF ProviderFamily, release
<1>3. <<release, x[3]>> \in Providers(catalog, s)
  BY ProvidersOf
<1>4. kit \in l.kits /\ kit.family = release.family /\ kit.version = release.version
      /\ kit.host = s.host /\ kit.arch = x[3].arch
  <2>1. <<release, x[3]>>[1] = release /\ <<release, x[3]>>[2] = x[3]
    OBVIOUS
  <2> HIDE DEF l, release
  <2>2. kit \in l.kits
    BY <1>1, <1>3, <2>1
  <2> QED BY <2>2 DEF KitOf
<1>5. \E y \in l.sources : SourceId(y) = <<release.family, release.version>>
  <2>1. <<release, x[3]>>[1] = release
    OBVIOUS
  <2> HIDE DEF l, release
  <2> QED BY <1>1, <1>3, <2>1 DEF SourceId
<1>6. ValidTarget(x[3])
  BY SelectionIs
<1>7. ProviderKits(l, r) = {kit}
  <2>1. kit \in ProviderKits(l, r)
    <3> HIDE DEF l, r, release, kit
    <3> QED BY <1>1, <1>2, <1>4 DEF ProviderKits
  <2>2. ASSUME NEW k \in ProviderKits(l, r) PROVE k = kit
    <3>1. /\ k \in l.kits /\ k.family = release.family /\ k.version = release.version
          /\ k.arch = x[3].arch
      <4> HIDE DEF l, r, release
      <4> QED BY <1>1, <1>2 DEF ProviderKits
    <3>2. k = [family |-> k.family, version |-> k.version, host |-> s.host, arch |-> k.arch]
      BY <3>1, KitsOfLock
    <3> HIDE DEF release
    <3> QED BY <3>1, <3>2 DEF KitOf
  <2> QED BY <2>1, <2>2
<1>8. Cardinality(ProviderKits(l, r)) = 1
  BY <1>7, FS_Singleton
<1> HIDE DEF l, r, release
<1> QED BY <1>1, <1>2, <1>5, <1>6, <1>8 DEF ValidRuntime, l, r, release

\* A variant of a resolved lock refers to what the lock has.
LEMMA VariantOfLock ==
  ASSUME NEW catalog, NEW s, ValidSpec(s), SelectorsResolve(catalog, s), ~TwoOfAKind(s),
         NEW v \in Resolve(catalog, s).variants
  PROVE  ValidVariant(Resolve(catalog, s), v)
<1> DEFINE l == Resolve(catalog, s)
<1>1. PICK x \in Selections(catalog, s) :
        v = [family |-> x[2].family, version |-> x[2].version, target |-> x[3],
             kit |-> KitOf(x[2], s.host, x[3].arch), runtimes |-> VariantRuntimes(catalog, x),
             default |-> DefaultRuntime(VariantRuntimes(catalog, x))]
  BY DEF Resolve
<1> DEFINE Release(q) == RuntimeRelease(catalog, x[2], q)
           Entry(q) == [kind |-> q.kind, runtime |-> RuntimeOf(RuntimeProvider(x[2], q), Release(q), x[3])]
<1>2. /\ v.family = x[2].family /\ v.version = x[2].version /\ v.target = x[3]
      /\ v.kit = KitOf(x[2], s.host, x[3].arch)
      /\ v.runtimes = {Entry(q) : q \in x[1].runtimes}
      /\ v.default = DefaultRuntime(v.runtimes)
  BY <1>1 DEF VariantRuntimes
<1>3. /\ x[1] \in s.compilers /\ ValidCompiler(x[1]) /\ x[2] \in catalog
      /\ x[2].family = x[1].family /\ x[2].family \in Families /\ ValidTarget(x[3])
  BY SelectionIs
<1>4. ASSUME NEW q \in x[1].runtimes
      PROVE  /\ Entry(q).kind = q.kind /\ Entry(q).runtime.target = x[3]
             /\ Entry(q).runtime.provider = RuntimeProvider(x[2], q)
             /\ Entry(q).runtime.version = Release(q).version
             /\ Entry(q).runtime \in l.runtimes
  <2>1. /\ Entry(q).kind = q.kind
        /\ Entry(q).runtime = RuntimeOf(RuntimeProvider(x[2], q), Release(q), x[3])
    OBVIOUS
  <2>2. Entry(q) \in VariantRuntimes(catalog, x)
    BY DEF VariantRuntimes
  <2>3. l.runtimes = UNION {{w.runtime : w \in VariantRuntimes(catalog, y)} : y \in Selections(catalog, s)}
    BY DEF Resolve
  <2>4. Entry(q).runtime \in l.runtimes
    <3> HIDE DEF Entry, l
    <3> QED BY <2>2, <2>3
  <2> QED BY <2>1, <2>4 DEF RuntimeOf
<1>5. \A q, y \in x[1].runtimes : q.kind = y.kind => q = y
  BY <1>3 DEF TwoOfAKind
<1>6. \A q \in x[1].runtimes :
        /\ RuntimeProvider(x[2], q) = "gcc" <=> q.kind = "libstdc++"
        /\ RuntimeProvider(x[2], q) \in {"gcc", "llvm"} /\ q.kind \in {"libstdc++", "libc++"}
        /\ x[2].family = "gcc" => (Release(q) = x[2] /\ q.kind = "libstdc++")
        /\ q.kind = "libc++" => (Release(q) = x[2] /\ x[2].family = "clang")
  BY RuntimeReleaseIs
<1> HIDE DEF Entry, Release, l
<1>7. \A y, z \in v.runtimes : y.kind = z.kind \/ y.runtime = z.runtime => y = z
  <2> SUFFICES ASSUME NEW q \in x[1].runtimes, NEW u \in x[1].runtimes,
                      Entry(q).kind = Entry(u).kind \/ Entry(q).runtime = Entry(u).runtime
               PROVE  q = u
    BY <1>2
  <2>1. q.kind = u.kind
    BY <1>4, <1>6
  <2> QED BY <1>5, <2>1
<1>8. v.runtimes # {} /\ \E y \in v.runtimes : y.kind = v.default
  <2>1. x[1].runtimes # {}
    BY <1>3 DEF ValidCompiler
  <2>2. v.runtimes # {}
    BY <1>2, <2>1
  <2>3. \A y \in v.runtimes : y.kind \in {"libstdc++", "libc++"}
    BY <1>2, <1>4, <1>6
  <2> QED BY <1>2, <2>2, <2>3 DEF DefaultRuntime
<1>9. v.family = "gcc" => {y.kind : y \in v.runtimes} = {"libstdc++"}
  <2> SUFFICES ASSUME v.family = "gcc" PROVE \A y \in v.runtimes : y.kind = "libstdc++"
    BY <1>8
  <2> QED BY <1>2, <1>4, <1>6
<1>10. /\ v.kit \in l.kits
       /\ v.kit.family = v.family /\ v.kit.version = v.version /\ v.kit.arch = v.target.arch
  <2>1. <<x[2], x[3]>> \in Providers(catalog, s)
    BY ProvidersOf
  <2>2. l.kits = {KitOf(p[1], s.host, p[2].arch) : p \in Providers(catalog, s)}
    BY DEF Resolve, l
  <2>3. \A a, b : KitOf(<<a, b>>[1], s.host, <<a, b>>[2].arch) = KitOf(a, s.host, b.arch)
    OBVIOUS
  <2>4. v.kit \in l.kits
    BY <1>2, <2>1, <2>2, <2>3
  <2> QED BY <1>2, <2>4 DEF KitOf
<1>11. ASSUME NEW y \in v.runtimes
       PROVE  /\ y.runtime \in l.runtimes /\ y.runtime.target = v.target
              /\ IF y.kind = "libstdc++"
                 THEN /\ y.runtime.provider = "gcc"
                      /\ v.family = "gcc" => y.runtime.version = v.version
                 ELSE /\ v.family = "clang" /\ y.runtime.provider = "llvm"
                      /\ y.runtime.version = v.version
  <2>1. PICK q \in x[1].runtimes : y = Entry(q)
    BY <1>2
  <2> QED BY <1>2, <1>4, <1>6, <2>1
<1> QED BY <1>2, <1>3, <1>7, <1>8, <1>9, <1>10, <1>11 DEF ValidVariant, l

\* Every specification that is accepted has a valid lock, unless it asks for two
\* libstdc++ of one compiler.
THEOREM LockIsValid ==
  ASSUME NEW catalog, IsCatalog(catalog), NEW s, ValidSpec(s), SelectorsResolve(catalog, s), ~TwoOfAKind(s)
  PROVE  ValidLock(Resolve(catalog, s))
<1> DEFINE l == Resolve(catalog, s)  ps == Providers(catalog, s)
<1>1. /\ l.spec = s /\ l.host = s.host /\ l.platform = s.platform
      /\ l.sources = {p[1] : p \in ps}
      /\ l.kits = {KitOf(p[1], s.host, p[2].arch) : p \in ps}
      /\ l.runtimes = UNION {{v.runtime : v \in VariantRuntimes(catalog, x)} : x \in Selections(catalog, s)}
  BY DEF Resolve
<1>2. PICK x \in Selections(catalog, s) : TRUE
  BY SomethingSelected
<1>3. /\ {} \notin {l.sources, l.kits, l.runtimes, l.variants}
  <2>1. <<x[2], x[3]>> \in ps
    BY ProvidersOf
  <2>2. x[1].runtimes # {}
    BY SelectionIs DEF ValidCompiler
  <2>3. VariantRuntimes(catalog, x) # {}
    BY <2>2 DEF VariantRuntimes
  <2>4. l.variants # {}
    BY <1>2 DEF Resolve
  <2> HIDE DEF l, ps
  <2>5. l.sources # {} /\ l.kits # {}
    BY <1>1, <2>1
  <2>6. l.runtimes # {}
    BY <1>1, <1>2, <2>3
  <2> QED BY <2>4, <2>5, <2>6
<1>4. \A y, z \in l.sources : SourceId(y) = SourceId(z) => y = z
  <2> HIDE DEF l, ps
  <2>1. l.sources \subseteq catalog
    BY <1>1, ProviderIs DEF ps
  <2> QED BY <2>1 DEF IsCatalog
<1>5. ASSUME NEW k \in l.kits
      PROVE  /\ {k.arch, k.host.arch} \subseteq Architectures
             /\ \E y \in l.sources : SourceId(y) = SourceId(k)
  <2>1. PICK p \in ps : k = KitOf(p[1], s.host, p[2].arch)
    BY KitsOfLock
  <2>2. k.arch = p[2].arch /\ k.host = s.host /\ SourceId(k) = SourceId(p[1])
    BY <2>1 DEF KitOf, SourceId
  <2>3. p[2].arch \in Architectures /\ s.host.arch \in Architectures
    BY ProviderIs DEF ValidTarget, ValidSpec
  <2> HIDE DEF l, ps
  <2> QED BY <1>1, <2>1, <2>2, <2>3
<1>6. ASSUME NEW r \in l.runtimes PROVE ValidRuntime(l, r)
  <2>0. PICK y \in Selections(catalog, s) : \E v \in VariantRuntimes(catalog, y) : r = v.runtime
    BY <1>1
  <2>1. PICK v \in VariantRuntimes(catalog, y) : r = v.runtime
    BY <2>0
  <2>2. PICK q \in y[1].runtimes :
          v = [kind |-> q.kind,
               runtime |-> RuntimeOf(RuntimeProvider(y[2], q), RuntimeRelease(catalog, y[2], q), y[3])]
    BY DEF VariantRuntimes
  <2> QED BY <2>1, <2>2, RuntimeOfLock
<1>7. \A v \in l.variants : ValidVariant(l, v)
  BY VariantOfLock
<1> HIDE DEF l
<1> QED BY <1>1, <1>3, <1>4, <1>5, <1>6, <1>7 DEF ValidLock, ValidSpec, l

-----------------------------------------------------------------------------
(* What is refused.                                                        *)

LockFields == {"spec", "host", "platform", "sources", "kits", "runtimes", "variants"}

\* A lock is valid, and of releases that the programs so far have pinned.
LockInv ==
  lock # None =>
    /\ ValidLock(lock) /\ DOMAIN lock = LockFields
    /\ \A x \in lock.sources : \E i \in 1 .. program : x \in Programs[i].catalog

\* A backend is of a glibc that some program pinned.
BackendInv ==
  backend # None =>
    \E i \in DOMAIN Programs : /\ backend.pins = Programs[i].pins
                               /\ backend.spec.floor \in Programs[i].glibcs

\* A running build has passed the preflight.
StartInv ==
  running # None =>
    LET p == Programs[running.program]
        sel == running.selection
    IN /\ running.program \in DOMAIN Programs
       /\ ValidLock(running.lock) /\ sel \in Artifacts(running.lock)
       /\ SdkEvidence(p, sel, running.sdk) /\ BackendEvidence(p, sel, running.backend)
       /\ running.backend.spec.floor \in p.glibcs

InputInv == program \in DOMAIN Programs /\ LockInv /\ BackendInv /\ StartInv

LEMMA Releases == DOMAIN Programs = 1 .. Len(Programs) /\ Len(Programs) \in Nat /\ 1 \in DOMAIN Programs
BY ProgramsAssumption DEF ProgramsAssumption

LEMMA CurrentCatalog ==
  ASSUME program \in DOMAIN Programs
  PROVE  IsCatalog(Current.catalog)
BY CatalogAssumption DEF CatalogAssumption, IsCatalog, Current

\* The sources of a resolved lock are releases of the catalog.
LEMMA ResolvedSources ==
  ASSUME NEW catalog, NEW s, ValidSpec(s), SelectorsResolve(catalog, s)
  PROVE  Resolve(catalog, s).sources \subseteq catalog /\ DOMAIN Resolve(catalog, s) = LockFields
<1>1. Resolve(catalog, s).sources = {p[1] : p \in Providers(catalog, s)}
  BY DEF Resolve
<1>2. DOMAIN Resolve(catalog, s) = LockFields
  BY DEF Resolve, LockFields
<1> QED BY <1>1, <1>2, ProviderIs

LEMMA EditedLock ==
  ASSUME NEW l \in Edits(lock), DOMAIN lock = LockFields
  PROVE  DOMAIN l = LockFields /\ l.sources \subseteq lock.sources \cup Current.catalog
<1>1. ASSUME NEW k, l = WithoutKit(lock, k) \/ l = WithoutVariant(lock, k)
      PROVE  DOMAIN l = LockFields /\ l.sources = lock.sources
  BY <1>1 DEF LockFields, WithoutKit, WithoutVariant
<1>2. ASSUME NEW k, NEW h, l = WithKitFor(lock, k, h)
      PROVE  DOMAIN l = LockFields /\ l.sources = lock.sources
  <2>1. PICK kits, variants : l = [lock EXCEPT !.kits = kits, !.variants = variants]
    BY <1>2, Zenon DEF WithKitFor
  <2> QED BY <2>1 DEF LockFields
<1>3. ASSUME NEW s \in Resolvable, l = Joined(lock, Resolve(Current.catalog, s))
      PROVE  DOMAIN l = LockFields /\ l.sources \subseteq lock.sources \cup Current.catalog
  <2> DEFINE m == Resolve(Current.catalog, s)
  <2>1. m.sources \subseteq Current.catalog
    BY ResolvedSources DEF Resolvable
  <2> HIDE DEF m
  <2>2. l = Joined(lock, m)
    BY <1>3 DEF m
  <2>3. PICK kits, runtimes, variants :
          l = [lock EXCEPT !.sources = @ \cup m.sources, !.kits = kits, !.runtimes = runtimes,
                           !.variants = variants]
    BY <2>2, Zenon DEF Joined
  <2> QED BY <2>1, <2>3 DEF LockFields
<1> QED BY <1>1, <1>2, <1>3 DEF Edits

LEMMA NextInputInv == InputInv /\ [EvidenceNext]_evidenceVars => InputInv'
<1> SUFFICES ASSUME InputInv, [EvidenceNext]_evidenceVars PROVE InputInv'
  OBVIOUS
<1>1. CASE UNCHANGED <<program, lock, backend, running>>
  BY <1>1 DEF InputInv, LockInv, BackendInv, StartInv
<1>2. CASE UNCHANGED <<program, lock, backend>> /\ running' = None
  BY <1>2 DEF InputInv, LockInv, BackendInv, StartInv
<1>3. ASSUME UNCHANGED <<program, backend, running>>, lock' # None => ValidLock(lock') /\ DOMAIN lock' = LockFields,
             lock' # None => \A x \in lock'.sources : \E i \in 1 .. program : x \in Programs[i].catalog
      PROVE  InputInv'
  BY <1>3 DEF InputInv, LockInv, BackendInv, StartInv
<1>c. program \in 1 .. program /\ program \in Nat
  BY Releases DEF InputInv
<1>4. ASSUME NEW s \in Specs, WriteLock(s) PROVE InputInv'
  <2>1. CASE lock' = lock
    BY <1>1, <1>4, <2>1 DEF WriteLock
  <2>2. CASE lock' = Resolve(Current.catalog, s) /\ ValidLock(lock')
    <3>1. \A x \in lock'.sources : x \in Programs[program].catalog
      BY <1>4, <2>2, ResolvedSources DEF WriteLock, Current
    <3>2. DOMAIN lock' = LockFields
      BY <1>4, <2>2, ResolvedSources DEF WriteLock
    <3> QED BY <1>3, <1>4, <1>c, <2>2, <3>1, <3>2 DEF WriteLock
  <2> QED BY <1>4, <2>1, <2>2 DEF WriteLock
<1>5. CASE EditLock
  <2>1. /\ lock # None /\ lock' \in Edits(lock) /\ ValidLock(lock')
        /\ UNCHANGED <<program, backend, running>>
    BY <1>5 DEF EditLock
  <2>2. DOMAIN lock' = LockFields /\ lock'.sources \subseteq lock.sources \cup Current.catalog
    BY <2>1, EditedLock DEF InputInv, LockInv
  <2>3. \A x \in lock'.sources : \E i \in 1 .. program : x \in Programs[i].catalog
    BY <1>c, <2>1, <2>2 DEF InputInv, LockInv, Current
  <2> QED BY <1>3, <2>1, <2>2, <2>3
<1>6. CASE Upgrade
  <2>1. /\ program' = program + 1 /\ program' \in DOMAIN Programs
        /\ UNCHANGED <<lock, backend, running>>
    BY <1>6, <1>c, Releases DEF Upgrade
  <2>2. 1 .. program \subseteq 1 .. program'
    BY <1>c, <2>1
  <2> QED BY <2>1, <2>2 DEF InputInv, LockInv, BackendInv, StartInv
<1>7. ASSUME NEW spec \in SdkSpecs, BuildBackend(spec) PROVE InputInv'
  <2>1. /\ backend'.pins = Programs[program].pins
        /\ backend'.spec.floor \in Programs[program].glibcs
        /\ UNCHANGED <<program, lock, running>>
    BY <1>7 DEF BuildBackend, SdkIdentity, Current
  <2> QED BY <2>1 DEF InputInv, LockInv, BackendInv, StartInv
<1>8. ASSUME NEW sel \in Locked, StartBuild(sel) PROVE InputInv'
  <2>1. /\ InputsValid(Current, sel, workspace) /\ UNCHANGED <<program, lock, backend>>
        /\ running' = [selection |-> sel, lock |-> lock, program |-> program,
                       manifest |-> workspace, sdk |-> sdk, backend |-> backend]
    BY <1>8 DEF StartBuild
  <2>2. sel \in Artifacts(lock) /\ lock # None
    BY DEF Locked
  <2>3. SdkEvidence(Current, sel, sdk) /\ BackendEvidence(Current, sel, backend)
    BY <2>1 DEF InputsValid
  <2>4. backend.spec.floor \in Current.glibcs
    <3>1. backend # None /\ backend.pins = Current.pins
      BY <2>3 DEF BackendEvidence, ProducedBy, SdkIdentity
    <3> QED BY <3>1, ProgramsAssumption DEF InputInv, BackendInv, ProgramsAssumption, Current
  <2>5. StartInv'
    BY <2>1, <2>2, <2>3, <2>4 DEF StartInv, InputInv, LockInv, Current
  <2> QED BY <2>1, <2>5 DEF InputInv, LockInv, BackendInv
<1>9. CASE EvidenceNext
  <2>1. ASSUME NEW spec \in SdkSpecs, BuildSdk(spec) PROVE InputInv'
    BY <1>1, <2>1 DEF BuildSdk
  <2>2. ASSUME NEW sel \in Locked, Render(sel) \/ Publish(sel) PROVE InputInv'
    BY <1>1, <2>2 DEF Render, Publish
  <2>3. CASE RemoveWorkspace
    BY <1>1, <2>3 DEF RemoveWorkspace
  <2>4. ASSUME NEW product \in Products, RefuseProduct(product) \/ FinishBuild(product) PROVE InputInv'
    BY <1>2, <2>4 DEF RefuseProduct, FinishBuild
  <2>5. CASE StopBuild
    BY <1>2, <2>5 DEF StopBuild
  <2> QED BY <1>4, <1>5, <1>6, <1>7, <1>8, <1>9, <2>1, <2>2, <2>3, <2>4, <2>5 DEF EvidenceNext
<1> QED BY <1>1, <1>9 DEF evidenceVars

LEMMA InitInputInv == EvidenceInit => InputInv
BY Releases DEF EvidenceInit, InputInv, LockInv, BackendInv, StartInv

\* What a lock has in common with each of its selections.
LEMMA SelectionOfLock ==
  ASSUME NEW l, ValidLock(l), NEW sel \in Artifacts(l)
  PROVE  sel.platform = sel.build_host.arch
<1>1. l.platform = l.host.arch
  BY DEF ValidLock, ValidSpec
<1>2. \A k : SelectKit(l, k).platform = l.platform /\ SelectKit(l, k).build_host = l.host
  BY DEF SelectKit
<1>3. \A r : SelectRuntime(l, r).platform = l.platform /\ SelectRuntime(l, r).build_host = l.host
  BY DEF SelectRuntime
<1> QED BY <1>1, <1>2, <1>3 DEF Artifacts

\* The backend that the preflight accepts is of the pinned glibc.
LEMMA BackendIsPinned ==
  ASSUME NEW i \in DOMAIN Programs, NEW sel, NEW w, BackendEvidence(Programs[i], sel, w),
         w.spec.floor \in Programs[i].glibcs
  PROVE  LET pinned == Recipe(Programs[i], sel.build_host.arch, sel.build_host.floor)
         IN /\ Pinned(Programs[i], sel.build_host.floor)
            /\ <<w.spec.arch, w.spec.floor>> = <<pinned.arch, pinned.floor>>
<1> DEFINE p == Programs[i]  floor == sel.build_host.floor
           g == CHOOSE h \in p.glibcs : Same(h, floor)
<1>1. w.spec.arch = sel.build_host.arch /\ Same(w.spec.floor, floor)
  BY DEF BackendEvidence
<1>2. Pinned(p, floor)
  BY <1>1 DEF Pinned
<1>3. g \in p.glibcs /\ Same(g, floor)
  BY <1>2 DEF Pinned
<1>4. g = w.spec.floor
  <2> HIDE DEF g
  <2> QED BY <1>1, <1>3, ProgramsAssumption DEF ProgramsAssumption, Same
<1> QED BY <1>1, <1>2, <1>4 DEF Recipe

\* What passed the preflight and the audit is loaded, where the two checks compare
\* alike.
LEMMA LoadsUnlessLax ==
  ASSUME RunningInv, StartInv, running # None, ~PreflightIsLax(running),
         NEW product \in Products, ProductPasses(running.selection, product)
  PROVE  Loads(Programs[running.program], running.lock, running.selection, Finalized(product))
<1> DEFINE p == Programs[running.program]  sel == running.selection  s == running.sdk
           b == running.backend  a == Finalized(product)
           pinned == Recipe(p, sel.build_host.arch, sel.build_host.floor)
<1>1. /\ running.program \in DOMAIN Programs
      /\ ValidLock(running.lock) /\ sel \in Artifacts(running.lock)
      /\ SdkEvidence(p, sel, s) /\ BackendEvidence(p, sel, b)
      /\ b.spec.floor \in p.glibcs
      /\ ArtifactFields \subseteq DOMAIN sel
      /\ running.manifest.input = Action(p, sel, s, b)
  BY DEF StartInv, RunningInv
<1>2. /\ a.action = Action(p, sel, s, b) /\ a.audit = MaxRequired(product.files)
      /\ a.platform = sel.platform /\ a.payload = product.payload
      /\ a.kit = <<sel.family, sel.version, sel.host, sel.arch>>
  BY <1>1 DEF Finalized
<1>3. s = SdkIdentity(p, s.spec) /\ s.spec.arch = sel.arch
      /\ (sel.floor # None => s.spec.floor = sel.floor)
  BY <1>1 DEF SdkEvidence, ProducedBy, PreflightIsLax
<1>4. Pinned(p, sel.build_host.floor) /\ <<b.spec.arch, b.spec.floor>> = <<pinned.arch, pinned.floor>>
  <2> HIDE DEF b, sel
  <2> QED BY <1>1, BackendIsPinned
<1>5. b = SdkIdentity(p, pinned)
  <2>1. b.spec = pinned
    BY <1>4 DEF PreflightIsLax
  <2> QED BY <1>1, <2>1 DEF BackendEvidence, ProducedBy
<1>6. ActionValid(p, sel, a.action)
  <2>1. a.action.sdk = s
    <3> HIDE DEF p, sel, s, b, a
    <3> QED BY <1>1, <1>2, ActionOfSelection
  <2>2. a.action = PinnedAction(p, sel, s.spec)
    <3>1. PinnedAction(p, sel, s.spec) = Action(p, sel, SdkIdentity(p, s.spec), SdkIdentity(p, pinned))
      BY DEF PinnedAction
    <3> HIDE DEF p, sel, s, b, a, pinned
    <3> QED BY <1>2, <1>3, <1>5, <3>1
  <2> HIDE DEF p, sel, s, b, a, pinned
  <2> QED BY <1>3, <1>4, <2>1, <2>2 DEF ActionValid
<1>7. a.audit # None => AtMost(a.audit, FloorOf(sel))
  <2>1. \A f \in product.files : VersionsAllowed(f, FloorOf(sel))
    BY DEF ProductPasses, HostAuditPasses, RuntimeAuditPasses, FloorOf
  <2>2. product.files \in ProducedFiles
    BY DEF ProducedFiles
  <2> HIDE DEF a, sel
  <2> QED BY <1>2, <2>1, <2>2, RecordedIsNeeded DEF VersionsAllowed
<1>8. a.payload = PayloadName(sel) /\ a # NoArtifact
  <2>1. a.payload = PayloadName(sel)
    BY <1>2 DEF ProductPasses
  <2>2. PayloadName(sel) # "none" /\ NoArtifact.payload = "none"
    BY DEF PayloadName, NoArtifact
  <2> HIDE DEF a, sel
  <2> QED BY <2>1, <2>2
<1>9. ProvenanceValid(sel, a)
  <2> HIDE DEF a, sel
  <2> QED BY <1>1, <1>2, SelectionOfLock DEF ProvenanceValid
<1> HIDE DEF p, sel, s, b, a
<1>10. Loads(p, running.lock, sel, a)
  BY <1>1, <1>2, <1>6, <1>7, <1>8, <1>9 DEF Loads
<1> QED BY <1>10 DEF p, sel, a

\* The release of a selected LLVM runtime, if it is still pinned, is found.
LEMMA PinnedReleaseIsFound ==
  ASSUME InputInv, NEW sel \in Locked, sel.kind = "runtime", ~SourceEvidence(Current, sel)
  PROVE  /\ program > 1
         /\ [family |-> "clang", version |-> sel.version, sha512 |-> sel.source.sha512]
              \notin Current.catalog
<1>1. lock # None /\ ValidLock(lock) /\ sel \in Artifacts(lock)
  BY DEF Locked, InputInv, LockInv
<1>2. \A k : SelectKit(lock, k).kind # "runtime"
  BY DEF SelectKit
<1>3. PICK r \in lock.runtimes : sel = SelectRuntime(lock, r)
  BY <1>1, <1>2 DEF Artifacts
<1> DEFINE x == sel.source
<1>4. /\ sel.runtime_kind = (IF r.provider = "gcc" THEN "gcc-runtime" ELSE "llvm-runtime")
      /\ x = SourceOf(lock, <<ProviderFamily(r), r.version>>) /\ sel.version = r.version
  BY <1>3 DEF SelectRuntime
<1>5. r.provider # "gcc" /\ ProviderFamily(r) = "clang"
  BY <1>4 DEF SourceEvidence, ProviderFamily
<1>6. x \in lock.sources /\ SourceId(x) = <<"clang", sel.version>>
  <2>1. \E y \in lock.sources : SourceId(y) = <<"clang", r.version>>
    BY <1>1, <1>5 DEF ValidLock, ValidRuntime
  <2> QED BY <1>4, <1>5, <2>1 DEF SourceOf
<1>7. PICK i \in 1 .. program : x \in Programs[i].catalog
  BY <1>1, <1>6 DEF InputInv, LockInv
<1>8. program \in Nat /\ i \in DOMAIN Programs
  BY Releases DEF InputInv
<1>9. /\ x = [family |-> "clang", version |-> sel.version, sha512 |-> x.sha512]
      /\ x.family = "clang" /\ x.version = sel.version /\ Len(sel.version) > 1
  <2>1. /\ x = [family |-> x.family, version |-> x.version, sha512 |-> x.sha512]
        /\ Len(x.version) > 1
    BY <1>7, <1>8, CatalogAssumption DEF CatalogAssumption
  <2>2. x.family = "clang" /\ x.version = sel.version
    BY <1>6 DEF SourceId
  <2> HIDE DEF x
  <2> QED BY <2>1, <2>2
<1>10. x \notin Current.catalog
  <2> SUFFICES ASSUME x \in Current.catalog PROVE FALSE
    OBVIOUS
  <2>1. IsCatalog(Current.catalog)
    BY CurrentCatalog DEF InputInv
  <2>0. \A y : y \in Matches(Current.catalog, "clang", sel.version)
               <=> y \in Current.catalog /\ y.family = "clang" /\ y.version = sel.version
    <3> DEFINE n == Len(sel.version)
    <3>1. n # 1
      <4>1. n > 1
        BY <1>9
      <4>2. ~(1 > 1)
        OBVIOUS
      <4> HIDE DEF n
      <4> QED BY <4>1, <4>2, Zenon
    <3> QED BY <3>1, Zenon DEF Matches
  <2>2. x \in Matches(Current.catalog, "clang", sel.version)
    <3> HIDE DEF x
    <3> QED BY <1>9, <2>0
  <2>3. ASSUME NEW y \in Matches(Current.catalog, "clang", sel.version) PROVE y = x
    <3>1. y \in Current.catalog /\ y.family = "clang" /\ y.version = sel.version
      BY <2>0
    <3> HIDE DEF x
    <3>2. SourceId(y) = SourceId(x)
      BY <1>9, <3>1 DEF SourceId
    <3> QED BY <2>1, <3>1, <3>2 DEF IsCatalog
  <2>4. Matches(Current.catalog, "clang", sel.version) = {x}
    BY <2>2, <2>3
  <2>5. Resolves(Current.catalog, "clang", sel.version)
    BY <2>4, FS_Singleton DEF Resolves
  <2>6. ResolveRelease(Current.catalog, "clang", sel.version) = x
    BY <2>4 DEF ResolveRelease
  <2> QED BY <2>5, <2>6 DEF SourceEvidence
<1>11. program > 1
  <2>1. i # program
    BY <1>7, <1>10 DEF Current
  <2> QED BY <1>8, <2>1
<1> QED BY <1>9, <1>10, <1>11

\* A publication was valid for what it was made for.
MadeInv ==
  publication # None =>
    LET sel == publication.made.selection
    IN /\ publication.made.program \in DOMAIN Programs /\ sel.kind = "runtime"
       /\ ActionValid(Programs[publication.made.program], sel, publication.action)
       /\ publication.manifest = <<sel.runtime_kind, sel.version, sel.arch, sel.floor>>

LEMMA NextMadeInv ==
  ASSUME InputInv, MadeInv, [EvidenceNext]_evidenceVars
  PROVE  MadeInv'
<1>1. CASE publication' = publication
  BY <1>1 DEF MadeInv
<1>2. ASSUME NEW sel \in Locked, Publish(sel) PROVE MadeInv'
  <2>1. CASE publication' # publication
    <3>1. /\ publication'.action = artifact.action
          /\ publication'.manifest = <<sel.runtime_kind, sel.version, sel.arch, sel.floor>>
          /\ publication'.made = [selection |-> sel, program |-> program]
          /\ sel.kind = "runtime" /\ Loads(Current, lock, sel, artifact)
      BY <1>2, <2>1 DEF Publish
    <3>2. ActionValid(Programs[program], sel, artifact.action) /\ program \in DOMAIN Programs
      BY <3>1 DEF Loads, Current, InputInv
    <3> QED BY <3>1, <3>2 DEF MadeInv
  <2> QED BY <1>1, <2>1
<1>3. CASE EvidenceNext /\ ~ \E sel \in Locked : Publish(sel)
  BY <1>1, <1>3 DEF EvidenceNext, WriteLock, EditLock, BuildSdk, BuildBackend, Upgrade, Render,
     StartBuild, RemoveWorkspace, RefuseProduct, FinishBuild, StopBuild
<1> QED BY <1>1, <1>2, <1>3 DEF evidenceVars

\* Two releases that pin and script alike accept the same actions.
LEMMA AlikeReleases ==
  ASSUME NEW i \in DOMAIN Programs, NEW j \in DOMAIN Programs, NEW sel, NEW action,
         Programs[i].pins = Programs[j].pins, Programs[i].scripts = Programs[j].scripts,
         ActionValid(Programs[i], sel, action)
  PROVE  ActionValid(Programs[j], sel, action)
<1> DEFINE p == Programs[i]  q == Programs[j]
<1>1. p.glibcs = q.glibcs /\ p.pins = q.pins /\ p.scripts = q.scripts
  BY ProgramsAssumption DEF ProgramsAssumption
<1> HIDE DEF p, q
<1>2. \A arch, floor : Recipe(p, arch, floor) = Recipe(q, arch, floor)
  BY <1>1, Zenon DEF Recipe
<1>3. \A spec : SdkIdentity(p, spec) = SdkIdentity(q, spec)
  BY <1>1 DEF SdkIdentity
<1>4. \A s, b : Action(p, sel, s, b) = Action(q, sel, s, b)
  BY <1>1, Zenon DEF Action
<1>5. \A spec : PinnedAction(p, sel, spec) = PinnedAction(q, sel, spec)
  BY <1>2, <1>3, <1>4, Zenon DEF PinnedAction
<1>6. \A floor : Pinned(p, floor) <=> Pinned(q, floor)
  BY <1>1 DEF Pinned
<1>7. ActionValid(p, sel, action)
  BY DEF p
<1>8. ActionValid(q, sel, action)
  BY <1>3, <1>5, <1>6, <1>7 DEF ActionValid
<1> QED BY <1>8 DEF q

\* A publication that was not made otherwise loads.
LEMMA PublishedAlikeLoads ==
  ASSUME InputInv, MadeInv, publication # None, NEW sel, Loads(Current, lock, sel, artifact),
         ~PublishedOtherwise(publication.made, [selection |-> sel, program |-> program])
  PROVE  PublicationLoads(Current, lock, sel, publication)
<1> DEFINE i == publication.made.program
<1>1. /\ publication.made.selection = sel /\ Programs[i].pins = Programs[program].pins
      /\ Programs[i].scripts = Programs[program].scripts
  BY DEF PublishedOtherwise
<1>2. /\ i \in DOMAIN Programs /\ program \in DOMAIN Programs
      /\ ActionValid(Programs[i], sel, publication.action) /\ sel.kind = "runtime"
      /\ publication.manifest = <<sel.runtime_kind, sel.version, sel.arch, sel.floor>>
  BY <1>1 DEF MadeInv, InputInv
<1> HIDE DEF i
<1>3. ActionValid(Programs[program], sel, publication.action)
  BY <1>1, <1>2, AlikeReleases
<1> QED BY <1>2, <1>3 DEF PublicationLoads, Loads, Current

RefusalInv == RecordInv /\ InputInv /\ MadeInv /\ RefusedForACause

LEMMA NextRefused == RefusalInv /\ [EvidenceNext]_evidenceVars => RefusedForACause'
<1> SUFFICES ASSUME RefusalInv, [EvidenceNext]_evidenceVars PROVE RefusedForACause'
  OBVIOUS
<1>1. CASE UNCHANGED refusal
  BY <1>1 DEF RefusalInv, RefusedForACause, PreflightIsLax, TwoOfAKind, PublishedOtherwise
<1>2. ASSUME NEW s \in Specs, WriteLock(s) PROVE RefusedForACause'
  <2>1. CASE ValidLock(Resolve(Current.catalog, s))
    BY <1>1, <1>2, <2>1 DEF WriteLock
  <2>2. CASE ~ValidLock(Resolve(Current.catalog, s))
    <3>1. /\ refusal' = [why |-> "lock", about |-> s]
          /\ ValidSpec(s) /\ SelectorsResolve(Current.catalog, s)
      BY <1>2, <2>2 DEF WriteLock
    <3>2. TwoOfAKind(s)
      BY <2>2, <3>1, LockIsValid, CurrentCatalog DEF RefusalInv, InputInv
    <3> QED BY <3>1, <3>2 DEF RefusedForACause
  <2> QED BY <2>1, <2>2
<1>3. ASSUME NEW product \in Products, RefuseProduct(product) PROVE RefusedForACause'
  BY <1>3 DEF RefuseProduct, RefusedForACause
<1>4. ASSUME NEW product \in Products, FinishBuild(product) PROVE RefusedForACause'
  <2>1. /\ running # None /\ ProductPasses(running.selection, product)
        /\ \/ refusal' = refusal
           \/ /\ refusal' = [why |-> "action", about |-> running]
              /\ ~Loads(Programs[running.program], running.lock, running.selection, Finalized(product))
    BY <1>4 DEF FinishBuild
  <2>2. CASE refusal' = refusal
    BY <1>1, <2>2
  <2>3. CASE /\ refusal' = [why |-> "action", about |-> running]
             /\ ~Loads(Programs[running.program], running.lock, running.selection, Finalized(product))
    <3>1. PreflightIsLax(running)
      BY <2>1, <2>3, LoadsUnlessLax DEF RefusalInv, RecordInv, InputInv
    <3> QED BY <2>3, <3>1 DEF RefusedForACause
  <2> QED BY <2>1, <2>2, <2>3
<1>5. ASSUME NEW sel \in Locked, Publish(sel) PROVE RefusedForACause'
  <2> DEFINE made == [selection |-> sel, program |-> program]
             stale == publication # None /\ ~PublicationLoads(Current, lock, sel, publication)
  <2>0. /\ sel.kind = "runtime" /\ Loads(Current, lock, sel, artifact)
        /\ \/ stale /\ refusal' = [why |-> "publication", about |-> <<made, publication.made>>]
           \/ ~SourceEvidence(Current, sel) /\ refusal' = [why |-> "source", about |-> made]
           \/ refusal' = refusal
    BY <1>5 DEF Publish
  <2>1. CASE stale /\ refusal' = [why |-> "publication", about |-> <<made, publication.made>>]
    <3>1. PublishedOtherwise(publication.made, made)
      BY <2>0, <2>1, PublishedAlikeLoads DEF RefusalInv
    <3> HIDE DEF made
    <3>2. refusal'.why = "publication" /\ refusal'.about[1] = made /\ refusal'.about[2] = publication.made
      BY <2>1
    <3> QED BY <3>1, <3>2 DEF RefusedForACause
  <2>2. CASE ~SourceEvidence(Current, sel) /\ refusal' = [why |-> "source", about |-> made]
    BY <2>0, <2>2, PinnedReleaseIsFound DEF RefusalInv, RefusedForACause, Current
  <2> QED BY <1>1, <2>0, <2>1, <2>2
<1>6. CASE EvidenceNext
  <2>1. ASSUME NEW spec \in SdkSpecs, BuildSdk(spec) \/ BuildBackend(spec) PROVE RefusedForACause'
    BY <1>1, <2>1 DEF BuildSdk, BuildBackend
  <2>2. CASE EditLock \/ Upgrade \/ RemoveWorkspace \/ StopBuild
    BY <1>1, <2>2 DEF EditLock, Upgrade, RemoveWorkspace, StopBuild
  <2>3. ASSUME NEW sel \in Locked, Render(sel) \/ StartBuild(sel) PROVE RefusedForACause'
    BY <1>1, <2>3 DEF Render, StartBuild
  <2> QED BY <1>2, <1>3, <1>4, <1>5, <1>6, <2>1, <2>2, <2>3 DEF EvidenceNext
<1> QED BY <1>1, <1>6 DEF evidenceVars

\* Work that was accepted is refused only for what the container left, for two
\* runtimes of a kind, where the preflight is laxer than the load, for a release that
\* an upgrade moved, or for a publication made for another selection or by a release
\* that pins or scripts otherwise.
THEOREM RefusalsHaveCauses == EvidenceSpec => []RefusedForACause
<1>1. EvidenceInit => RefusalInv
  BY InitRecordInv, InitInputInv DEF EvidenceInit, RefusalInv, RefusedForACause, NoRefusal, MadeInv
<1>2. RefusalInv /\ [EvidenceNext]_evidenceVars => RefusalInv'
  BY NextRecordInv, NextInputInv, NextMadeInv, NextRefused DEF RefusalInv
<1>3. RefusalInv => RefusedForACause
  BY DEF RefusalInv
<1> QED BY <1>1, <1>2, <1>3, PTL DEF EvidenceSpec

-----------------------------------------------------------------------------
(* The kits and runtimes of two setups.                                    *)

\* A floor that is spelled as pinned is the floor of its recipe.
LEMMA RecipeOfPinned ==
  ASSUME NEW i \in DOMAIN Programs, NEW arch, NEW floor \in Programs[i].glibcs
  PROVE  Recipe(Programs[i], arch, floor) = [arch |-> arch, floor |-> floor, kernel |-> "default"]
<1>1. Same(floor, floor)
  BY DEF Same
<1>2. \A g \in Programs[i].glibcs : Same(g, floor) => g = floor
  BY ProgramsAssumption DEF ProgramsAssumption
<1>3. (CHOOSE g \in Programs[i].glibcs : Same(g, floor)) = floor
  BY <1>1, <1>2
<1> QED BY <1>3 DEF Recipe

\* The backend and the builder of a lock, for a program.
BuilderOf(p, l) == <<SdkIdentity(p, Recipe(p, l.host.arch, l.host.floor)), <<p.pins, l.platform>>>>

KitActionOf(p, k, source, spec, builder) ==
  [artifact |-> [kind |-> "compiler-kit", family |-> k.family, version |-> k.version,
                 host |-> k.host, arch |-> k.arch, floor |-> None, runtime_kind |-> None],
   source |-> source, sdk |-> SdkIdentity(p, spec), backend |-> builder[1],
   builder |-> builder[2], script |-> p.scripts]

RuntimeActionOf(p, r, source, spec, builder) ==
  [artifact |-> [kind |-> "runtime", family |-> ProviderFamily(r), version |-> r.version,
                 host |-> None, arch |-> r.target.arch, floor |-> r.target.floor,
                 runtime_kind |-> IF ProviderFamily(r) = "gcc" THEN "gcc-runtime" ELSE "llvm-runtime"],
   source |-> source, sdk |-> SdkIdentity(p, spec), backend |-> builder[1],
   builder |-> builder[2], script |-> p.scripts]

LEMMA KitAction ==
  ASSUME NEW p, NEW l, NEW k, NEW spec
  PROVE  PinnedAction(p, SelectKit(l, k), spec) =
           KitActionOf(p, k, SourceOf(l, <<k.family, k.version>>).sha512, spec, BuilderOf(p, l))
<1> DEFINE sel == SelectKit(l, k)
           recorded == [f \in DOMAIN sel \ {"source", "platform", "build_host"} |-> sel[f]]
<1>1. recorded = [kind |-> "compiler-kit", family |-> k.family, version |-> k.version,
                  host |-> k.host, arch |-> k.arch, floor |-> None, runtime_kind |-> None]
  BY DEF SelectKit
<1>2. /\ sel.source = SourceOf(l, <<k.family, k.version>>)
      /\ sel.platform = l.platform /\ sel.build_host = l.host
  BY DEF SelectKit, SourceId
<1>3. PinnedAction(p, sel, spec) =
        [artifact |-> recorded, source |-> sel.source.sha512, sdk |-> SdkIdentity(p, spec),
         backend |-> SdkIdentity(p, Recipe(p, sel.build_host.arch, sel.build_host.floor)),
         builder |-> <<p.pins, sel.platform>>, script |-> p.scripts]
  BY Zenon DEF PinnedAction, Action
<1> HIDE DEF sel, recorded
<1> QED BY <1>1, <1>2, <1>3 DEF KitActionOf, BuilderOf, sel

LEMMA RuntimeAction ==
  ASSUME NEW p, NEW l, NEW r, NEW spec
  PROVE  PinnedAction(p, SelectRuntime(l, r), spec) =
           RuntimeActionOf(p, r, SourceOf(l, <<ProviderFamily(r), r.version>>).sha512, spec, BuilderOf(p, l))
<1> DEFINE sel == SelectRuntime(l, r)
           recorded == [f \in DOMAIN sel \ {"source", "platform", "build_host"} |-> sel[f]]
<1>1. recorded = [kind |-> "runtime", family |-> ProviderFamily(r), version |-> r.version,
                  host |-> None, arch |-> r.target.arch, floor |-> r.target.floor,
                  runtime_kind |-> IF ProviderFamily(r) = "gcc" THEN "gcc-runtime" ELSE "llvm-runtime"]
  <2>1. r.provider = "gcc" <=> ProviderFamily(r) = "gcc"
    BY DEF ProviderFamily
  <2> QED BY <2>1 DEF SelectRuntime
<1>2. /\ sel.source = SourceOf(l, <<ProviderFamily(r), r.version>>)
      /\ sel.platform = l.platform /\ sel.build_host = l.host
  BY DEF SelectRuntime
<1>3. PinnedAction(p, sel, spec) =
        [artifact |-> recorded, source |-> sel.source.sha512, sdk |-> SdkIdentity(p, spec),
         backend |-> SdkIdentity(p, Recipe(p, sel.build_host.arch, sel.build_host.floor)),
         builder |-> <<p.pins, sel.platform>>, script |-> p.scripts]
  BY Zenon DEF PinnedAction, Action
<1> HIDE DEF sel, recorded
<1> QED BY <1>1, <1>2, <1>3 DEF RuntimeActionOf, BuilderOf, sel

\* Two kits of one action agree in all that can change them.
LEMMA SameKitAction ==
  ASSUME NEW p, NEW k, NEW j, NEW source, NEW other, NEW spec, NEW wanted, NEW builder, NEW maker,
         KitActionOf(p, k, source, spec, builder) =
           KitActionOf(p, j, other, wanted, maker)
  PROVE  /\ k.family = j.family /\ k.version = j.version /\ k.host = j.host /\ k.arch = j.arch
         /\ source = other /\ spec = wanted
         /\ builder[1] = maker[1] /\ builder[2] = maker[2]
<1> DEFINE a == KitActionOf(p, k, source, spec, builder)
           b == KitActionOf(p, j, other, wanted, maker)
<1>1. /\ a.artifact.family = k.family /\ a.artifact.version = k.version
      /\ a.artifact.host = k.host /\ a.artifact.arch = k.arch
      /\ a.source = source /\ a.sdk.spec = spec
      /\ a.backend = builder[1] /\ a.builder = builder[2]
  BY DEF KitActionOf, SdkIdentity
<1>2. /\ b.artifact.family = j.family /\ b.artifact.version = j.version
      /\ b.artifact.host = j.host /\ b.artifact.arch = j.arch
      /\ b.source = other /\ b.sdk.spec = wanted
      /\ b.backend = maker[1] /\ b.builder = maker[2]
  BY DEF KitActionOf, SdkIdentity
<1> HIDE DEF a, b
<1>3. a = b
  BY DEF a, b
<1> QED BY <1>1, <1>2, <1>3

ProviderKit(l, r) == CHOOSE k \in ProviderKits(l, r) : TRUE

LEMMA ProviderKitIs ==
  ASSUME NEW l, ValidLock(l), NEW r \in l.runtimes
  PROVE  LET k == ProviderKit(l, r) IN
         /\ k.family = ProviderFamily(r) /\ k.version = r.version
         /\ k.host = l.host /\ k.arch = r.target.arch
<1>1. Cardinality(ProviderKits(l, r)) = 1
  BY DEF ValidLock, ValidRuntime
<1>2. ProviderKits(l, r) # {}
  BY <1>1, FS_EmptySet
<1>3. ProviderKit(l, r) \in ProviderKits(l, r)
  BY <1>2 DEF ProviderKit
<1> QED BY <1>3 DEF ProviderKits

\* What a variant of a valid lock says of its runtimes.
LEMMA RuntimeOfVariant ==
  ASSUME NEW l, ValidLock(l), NEW x \in l.variants, NEW e \in x.runtimes
  PROVE  /\ e.runtime \in l.runtimes /\ e.runtime.target = x.target
         /\ x.kit.family = x.family /\ x.kit.version = x.version /\ x.kit.arch = x.target.arch
         /\ ProviderFamily(e.runtime) = "clang" =>
              x.family = "clang" /\ e.runtime.version = x.version
         /\ x.family = "gcc" => ProviderFamily(e.runtime) = "gcc" /\ e.runtime.version = x.version
<1>1. ValidVariant(l, x)
  BY DEF ValidLock
<1>2. /\ e.runtime \in l.runtimes /\ e.runtime.target = x.target
      /\ x.kit.family = x.family /\ x.kit.version = x.version /\ x.kit.arch = x.target.arch
      /\ IF e.kind = "libstdc++"
         THEN /\ e.runtime.provider = "gcc"
              /\ x.family = "gcc" => e.runtime.version = x.version
         ELSE /\ x.family = "clang" /\ e.runtime.provider = "llvm"
              /\ e.runtime.version = x.version
  BY <1>1 DEF ValidVariant
<1> QED BY <1>2 DEF ProviderFamily

\* Whatever locks two setups with one program resolve, the kits that provide their
\* runtimes are their own.
LEMMA OwnProvidersOfSetups ==
  ASSUME NEW i \in DOMAIN Programs, NEW l, ValidLock(l), NEW m, ValidLock(m),
         NEW x \in l.variants, NEW y \in m.variants, x.kit.host = l.host,
         x.target.floor \in Programs[i].glibcs, y.target.floor \in Programs[i].glibcs
  PROVE  OwnProviders(StoreOf(Programs[i], l, x), StoreOf(Programs[i], m, y))
<1> DEFINE p == Programs[i]
           spec == Recipe(p, x.target.arch, x.target.floor)
           wanted == Recipe(p, y.target.arch, y.target.floor)
           Kit(n, k, s) == PinnedAction(p, SelectKit(n, k), s)
           Runtime(n, r, s) == PinnedAction(p, SelectRuntime(n, r), s)
           v == StoreOf(p, l, x)
           w == StoreOf(p, m, y)
<1>1. /\ v.kit = Kit(l, x.kit, spec)
      /\ v.runtimes = {[provider |-> Kit(l, ProviderKit(l, e.runtime), spec),
                        itself |-> Runtime(l, e.runtime, spec)] : e \in x.runtimes}
  BY Zenon DEF StoreOf, ProviderKit
<1>2. /\ w.kit = Kit(m, y.kit, wanted)
      /\ w.runtimes = {[provider |-> Kit(m, ProviderKit(m, e.runtime), wanted),
                        itself |-> Runtime(m, e.runtime, wanted)] : e \in y.runtimes}
  BY Zenon DEF StoreOf, ProviderKit
<1>3. spec = wanted => x.target.arch = y.target.arch /\ x.target.floor = y.target.floor
  <2>1. /\ spec = [arch |-> x.target.arch, floor |-> x.target.floor, kernel |-> "default"]
        /\ wanted = [arch |-> y.target.arch, floor |-> y.target.floor, kernel |-> "default"]
    BY RecipeOfPinned
  <2>2. spec.arch = x.target.arch /\ spec.floor = x.target.floor
    <3> HIDE DEF spec
    <3> QED BY <2>1
  <2>3. wanted.arch = y.target.arch /\ wanted.floor = y.target.floor
    <3> HIDE DEF wanted
    <3> QED BY <2>1
  <2> HIDE DEF spec, wanted
  <2> QED BY <2>2, <2>3
\* Kits of one action, and runtimes that they provide.
<1>4. ASSUME NEW k, NEW j, Kit(l, k, spec) = Kit(m, j, wanted)
      PROVE  /\ k.family = j.family /\ k.version = j.version /\ k.host = j.host /\ k.arch = j.arch
             /\ SourceOf(l, <<k.family, k.version>>).sha512 = SourceOf(m, <<j.family, j.version>>).sha512
             /\ spec = wanted
             /\ BuilderOf(p, l)[1] = BuilderOf(p, m)[1] /\ BuilderOf(p, l)[2] = BuilderOf(p, m)[2]
  <2> DEFINE sha == SourceOf(l, <<k.family, k.version>>).sha512
             other == SourceOf(m, <<j.family, j.version>>).sha512
  <2> HIDE DEF p, spec, wanted
  <2>1. Kit(l, k, spec) = KitActionOf(p, k, sha, spec, BuilderOf(p, l))
    BY KitAction
  <2>2. Kit(m, j, wanted) = KitActionOf(p, j, other, wanted, BuilderOf(p, m))
    BY KitAction
  <2> HIDE DEF Kit, sha, other
  <2>3. KitActionOf(p, k, sha, spec, BuilderOf(p, l)) = KitActionOf(p, j, other, wanted, BuilderOf(p, m))
    BY <1>4, <2>1, <2>2
  <2>4. /\ k.family = j.family /\ k.version = j.version /\ k.host = j.host /\ k.arch = j.arch
        /\ sha = other /\ spec = wanted
        /\ BuilderOf(p, l)[1] = BuilderOf(p, m)[1] /\ BuilderOf(p, l)[2] = BuilderOf(p, m)[2]
    BY <2>3, SameKitAction
  <2> QED BY <2>4 DEF sha, other
<1>5. ASSUME NEW r, NEW q, ProviderFamily(r) = ProviderFamily(q), r.version = q.version,
             r.target = x.target, q.target = y.target, spec = wanted,
             SourceOf(l, <<ProviderFamily(r), r.version>>).sha512 =
               SourceOf(m, <<ProviderFamily(q), q.version>>).sha512,
             BuilderOf(p, l)[1] = BuilderOf(p, m)[1], BuilderOf(p, l)[2] = BuilderOf(p, m)[2]
      PROVE  Runtime(l, r, spec) = Runtime(m, q, wanted)
  <2> HIDE DEF p, spec, wanted
  <2>1. /\ r.target.arch = q.target.arch /\ r.target.floor = q.target.floor
    BY <1>3, <1>5
  <2> QED BY <1>5, <2>1, RuntimeAction DEF RuntimeActionOf
<1>6. ASSUME NEW e \in x.runtimes, Kit(l, ProviderKit(l, e.runtime), spec) = w.kit
      PROVE  \/ Kit(l, ProviderKit(l, e.runtime), spec) = v.kit
             \/ \E q \in w.runtimes : q.itself = Runtime(l, e.runtime, spec)
  <2> DEFINE r == e.runtime  k == ProviderKit(l, r)
  <2>1. /\ r \in l.runtimes /\ r.target = x.target
        /\ x.kit.family = x.family /\ x.kit.version = x.version /\ x.kit.arch = x.target.arch
        /\ ProviderFamily(r) = "clang" => x.family = "clang" /\ r.version = x.version
    BY RuntimeOfVariant
  <2>2. k.family = ProviderFamily(r) /\ k.version = r.version /\ k.host = l.host /\ k.arch = r.target.arch
    BY <2>1, ProviderKitIs
  <2>3. /\ k.family = y.kit.family /\ k.version = y.kit.version
        /\ SourceOf(l, <<k.family, k.version>>).sha512 = SourceOf(m, <<y.kit.family, y.kit.version>>).sha512
        /\ spec = wanted
        /\ BuilderOf(p, l)[1] = BuilderOf(p, m)[1] /\ BuilderOf(p, l)[2] = BuilderOf(p, m)[2]
    <3>1. Kit(l, k, spec) = Kit(m, y.kit, wanted)
      BY <1>2, <1>6
    <3> HIDE DEF k, Kit, spec, wanted, p
    <3> QED BY <1>4, <3>1
  <2>4. ProviderFamily(r) \in {"gcc", "clang"}
    BY DEF ProviderFamily
  <2>5. CASE ProviderFamily(r) = "clang"
    <3>1. /\ k.family = x.kit.family /\ k.version = x.kit.version
          /\ k.host = x.kit.host /\ k.arch = x.kit.arch
      <4> HIDE DEF k, r
      <4> QED BY <2>1, <2>2, <2>5
    <3>2. Kit(l, k, spec) = Kit(l, x.kit, spec)
      <4> DEFINE j == x.kit
                 sha == SourceOf(l, <<k.family, k.version>>).sha512
      <4> HIDE DEF k, j, p, spec
      <4>1. SourceOf(l, <<j.family, j.version>>).sha512 = sha
        BY <3>1 DEF j
      <4>2. Kit(l, k, spec) = KitActionOf(p, k, sha, spec, BuilderOf(p, l))
        BY KitAction
      <4>3. Kit(l, j, spec) = KitActionOf(p, j, sha, spec, BuilderOf(p, l))
        BY <4>1, KitAction
      <4> HIDE DEF Kit, sha
      <4>4. KitActionOf(p, k, sha, spec, BuilderOf(p, l)) = KitActionOf(p, j, sha, spec, BuilderOf(p, l))
        BY <3>1 DEF KitActionOf, j
      <4> QED BY <4>2, <4>3, <4>4 DEF j
    <3> QED BY <1>1, <3>2
  <2>6. CASE ProviderFamily(r) = "gcc"
    <3>0. ValidVariant(m, y)
      BY DEF ValidLock
    <3>1. y.runtimes # {} /\ y.kit.family = y.family /\ y.kit.version = y.version
      BY <3>0 DEF ValidVariant
    <3>2. y.family = "gcc"
      <4> HIDE DEF k, r
      <4> QED BY <2>2, <2>3, <2>6, <3>1
    <3>3. PICK z \in y.runtimes : TRUE
      BY <3>1
    <3> DEFINE q == z.runtime
    <3>4. q.target = y.target /\ ProviderFamily(q) = "gcc" /\ q.version = y.version
      BY <3>2, RuntimeOfVariant
    <3>5. Runtime(l, r, spec) = Runtime(m, q, wanted)
      <4> HIDE DEF k, r, q, p, spec, wanted, Runtime
      <4> QED BY <1>5, <2>1, <2>2, <2>3, <2>6, <3>1, <3>2, <3>4, ZenonT(40)
    <3>6. [provider |-> Kit(m, ProviderKit(m, q), wanted), itself |-> Runtime(m, q, wanted)] \in w.runtimes
      BY <1>2
    <3> QED BY <3>5, <3>6
  <2> QED BY <2>4, <2>5, <2>6
<1>7. ASSUME NEW e \in x.runtimes, NEW z \in y.runtimes,
             Kit(l, ProviderKit(l, e.runtime), spec) = Kit(m, ProviderKit(m, z.runtime), wanted)
      PROVE  Runtime(l, e.runtime, spec) = Runtime(m, z.runtime, wanted)
  <2> DEFINE r == e.runtime  k == ProviderKit(l, r)  q == z.runtime  j == ProviderKit(m, q)
  <2>1. r \in l.runtimes /\ r.target = x.target /\ q \in m.runtimes /\ q.target = y.target
    BY RuntimeOfVariant
  <2>2. /\ k.family = ProviderFamily(r) /\ k.version = r.version
        /\ j.family = ProviderFamily(q) /\ j.version = q.version
    BY <2>1, ProviderKitIs
  <2>3. /\ k.family = j.family /\ k.version = j.version
        /\ SourceOf(l, <<k.family, k.version>>).sha512 = SourceOf(m, <<j.family, j.version>>).sha512
        /\ spec = wanted
        /\ BuilderOf(p, l)[1] = BuilderOf(p, m)[1] /\ BuilderOf(p, l)[2] = BuilderOf(p, m)[2]
    <3> HIDE DEF k, j, Kit, spec, wanted, p
    <3> QED BY <1>4, <1>7 DEF k, j
  <2> HIDE DEF k, j, r, q, p, spec, wanted, Runtime
  <2>4. /\ ProviderFamily(r) = ProviderFamily(q) /\ r.version = q.version
        /\ SourceOf(l, <<ProviderFamily(r), r.version>>).sha512 =
             SourceOf(m, <<ProviderFamily(q), q.version>>).sha512
    BY <2>2, <2>3
  <2>5. Runtime(l, r, spec) = Runtime(m, q, wanted)
    BY <1>5, <2>1, <2>3, <2>4
  <2> QED BY <2>5 DEF r, q
<1>8. ASSUME NEW a \in v.runtimes
      PROVE  /\ a.provider = w.kit => a.provider = v.kit \/ \E q \in w.runtimes : q.itself = a.itself
             /\ \A q \in w.runtimes : a.provider = q.provider => a.itself = q.itself
  <2>1. PICK e \in x.runtimes :
          a = [provider |-> Kit(l, ProviderKit(l, e.runtime), spec), itself |-> Runtime(l, e.runtime, spec)]
    BY <1>1
  <2>2. a.provider = Kit(l, ProviderKit(l, e.runtime), spec) /\ a.itself = Runtime(l, e.runtime, spec)
    BY <2>1
  <2>3. ASSUME NEW q \in w.runtimes, a.provider = q.provider PROVE a.itself = q.itself
    <3>1. PICK z \in y.runtimes :
            q = [provider |-> Kit(m, ProviderKit(m, z.runtime), wanted), itself |-> Runtime(m, z.runtime, wanted)]
      BY <1>2
    <3>2. q.provider = Kit(m, ProviderKit(m, z.runtime), wanted) /\ q.itself = Runtime(m, z.runtime, wanted)
      BY <3>1
    <3> HIDE DEF Kit, Runtime, spec, wanted, p, w
    <3> QED BY <1>7, <2>2, <2>3, <3>2
  <2> HIDE DEF Kit, Runtime, spec, wanted, p, v, w
  <2> QED BY <1>6, <2>2, <2>3
<1> QED BY <1>8, Zenon DEF OwnProviders

\* For any two setups, the kits that provide their runtimes are their own: what the
\* leases of the producer store rest on.
THEOREM SetupsOwnProviders == EvidenceSpec => []ProvidersAreOwn
<1>1. InputInv => ProvidersAreOwn
  <2> SUFFICES ASSUME InputInv, NEW v \in SetupStores, NEW w \in SetupStores PROVE OwnProviders(v, w)
    BY DEF ProvidersAreOwn
  <2>0. program \in DOMAIN Programs
    BY DEF InputInv
  <2>1. ASSUME NEW a \in SetupStores
        PROVE  \E s \in Resolvable : \E x \in Resolve(Current.catalog, s).variants :
                 /\ ValidLock(Resolve(Current.catalog, s))
                 /\ a = StoreOf(Current, Resolve(Current.catalog, s), x)
                 /\ x.target.floor \in Current.glibcs
    BY DEF SetupStores, Stores
  <2>s. PICK s \in Resolvable : \E x \in Resolve(Current.catalog, s).variants :
          /\ ValidLock(Resolve(Current.catalog, s))
          /\ v = StoreOf(Current, Resolve(Current.catalog, s), x)
          /\ x.target.floor \in Current.glibcs
    BY <2>1
  <2>2. PICK x \in Resolve(Current.catalog, s).variants :
          /\ ValidLock(Resolve(Current.catalog, s))
          /\ v = StoreOf(Current, Resolve(Current.catalog, s), x)
          /\ x.target.floor \in Current.glibcs
    BY <2>s
  <2>u. PICK u \in Resolvable : \E y \in Resolve(Current.catalog, u).variants :
          /\ ValidLock(Resolve(Current.catalog, u))
          /\ w = StoreOf(Current, Resolve(Current.catalog, u), y)
          /\ y.target.floor \in Current.glibcs
    BY <2>1
  <2>3. PICK y \in Resolve(Current.catalog, u).variants :
          /\ ValidLock(Resolve(Current.catalog, u))
          /\ w = StoreOf(Current, Resolve(Current.catalog, u), y)
          /\ y.target.floor \in Current.glibcs
    BY <2>u
  <2>4. x.kit.host = Resolve(Current.catalog, s).host
    <3>1. x.kit \in Resolve(Current.catalog, s).kits
      BY <2>2 DEF ValidLock, ValidVariant
    <3>2. Resolve(Current.catalog, s).host = s.host
      BY DEF Resolve
    <3> QED BY <3>1, <3>2, KitsOfLock
  <2> QED BY <2>0, <2>2, <2>3, <2>4, OwnProvidersOfSetups DEF Current
<1> QED BY <1>1, InitInputInv, NextInputInv, PTL DEF EvidenceSpec
=============================================================================
