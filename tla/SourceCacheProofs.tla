-------------------------- MODULE SourceCacheProofs --------------------------
(***************************************************************************)
(* What is returned has the pinned bytes, for any number of processes,     *)
(* workspaces and servers.  Between its checks and its return a process     *)
(* relies on files others write too; what it relies on holds (PinnedAt,      *)
(* ManagedAt) since it has the lock all the while, and whoever is not idle   *)
(* is the one who has it.  Failures are accounted for as long as the servers  *)
(* stay as they are (TriedInv).                                              *)
(***************************************************************************)
EXTENDS SourceCache, TLAPS

PinnedAt(p) ==
  /\ pc[p] # "entry"
  /\ pc[p] # "idle" => locked.object = p
  /\ (pc[p] = "object" /\ ready[p]) => copy[Workspace[p]] = "good"
  /\ pc[p] \in {"fill", "return"} => copy[Workspace[p]] = "good"
  /\ pc[p] \in {"take", "return"} => object = "good"

ManagedAt(p) ==
  /\ pc[p] \notin {"copy", "object", "fill", "take"}
  /\ pc[p] # "idle" => locked.entry = p
  /\ pc[p] = "return" => entry = "good"

IInv == TypeOK /\ (\A p \in Pinned : PinnedAt(p)) /\ (\A p \in Managed : ManagedAt(p))

LEMMA InitIInv == Init => IInv
BY ProcsAssumption, SourcesAssumption, BoundsAssumption
   DEF ProcsAssumption, SourcesAssumption, BoundsAssumption, Init, IInv, TypeOK, PinnedAt,
       ManagedAt, Content, Procs

LEMMA WorkspaceOf == \A p \in Pinned : Workspace[p] \in Workspaces
BY DEF Workspaces

\* A step of one process keeps the types.
LEMMA StepTypes ==
  ASSUME IInv, NEW p \in Procs, Step(p) \/ Kill(p)
  PROVE  TypeOK'
<1> USE ProcsAssumption, SourcesAssumption, BoundsAssumption
    DEF ProcsAssumption, SourcesAssumption, BoundsAssumption, IInv, TypeOK, Content, Procs, Go,
        Same, files, local, PinnedAt
<1>w. p \in Pinned => Workspace[p] \in Workspaces
  BY WorkspaceOf, Zenon
<1>1. CASE Acquire(p)
  <2>1. CASE p \in Pinned
    <3>1. locked' = [object |-> p, entry |-> locked.entry] /\ locked.entry \in Managed \cup {None}
      BY <1>1, <2>1 DEF Acquire
    <3>2. locked' \in [object : Pinned \cup {None}, entry : Managed \cup {None}]
      BY <2>1, <3>1
    <3>3. 1 \in 1..Sources
      OBVIOUS
    <3> QED BY <1>1, <2>1, <3>2, <3>3 DEF Acquire
  <2>2. CASE p \notin Pinned
    <3>1. locked' = [object |-> locked.object, entry |-> p] /\ locked.object \in Pinned \cup {None}
      BY <1>1, <2>2 DEF Acquire
    <3>2. locked' \in [object : Pinned \cup {None}, entry : Managed \cup {None}]
      BY <2>2, <3>1
    <3>3. source' \in [Procs -> 1..Sources]
      BY <1>1 DEF Acquire
    <3>4. pc' = [pc EXCEPT ![p] = "entry"]
      BY <1>1, <2>2 DEF Acquire
    <3> QED BY <1>1, <2>2, <3>2, <3>3, <3>4 DEF Acquire
  <2> QED BY <2>1, <2>2
<1>2. CASE End(p)
  BY <1>2 DEF End, Released
<1>3. CASE p \in Pinned /\ CheckCopy(p)
  BY <1>3 DEF CheckCopy
<1>4. CASE p \in Pinned /\ CheckObject(p)
  BY <1>4 DEF CheckObject
<1>5. CASE p \in Pinned /\ Fill(p)
  BY <1>5, <1>w DEF Fill
<1>6. CASE p \in Pinned /\ Take(p)
  BY <1>6, <1>w DEF Take
<1>7. CASE p \in Managed /\ CheckEntry(p)
  BY <1>7 DEF CheckEntry
<1>8. CASE Fetch(p)
  BY <1>8 DEF Fetch
<1>9. CASE NextSource(p)
  <2>1. source[p] < Sources => source[p] + 1 \in 1..Sources
    OBVIOUS
  <2>2. CASE source[p] < Sources
    <3>1. source' = [source EXCEPT ![p] = source[p] + 1]
      BY <1>9, <2>2 DEF NextSource
    <3>2. source' \in [Procs -> 1..Sources]
      BY <2>1, <2>2, <3>1
    <3>3. pc' = [pc EXCEPT ![p] = "fetch"]
      BY <1>9, <2>2 DEF NextSource
    <3> QED BY <1>9, <3>2, <3>3 DEF NextSource
  <2>3. CASE ~(source[p] < Sources)
    <3>1. source' = source /\ pc' = [pc EXCEPT ![p] = "error"]
      BY <1>9, <2>3 DEF NextSource
    <3> QED BY <1>9, <3>1 DEF NextSource
  <2> QED BY <2>2, <2>3
<1>10. CASE Publish(p)
  <2>1. /\ object' \in Content /\ entry' \in Content
        /\ pc' = [pc EXCEPT ![p] = "take"] \/ pc' = [pc EXCEPT ![p] = "return"]
    BY <1>10 DEF Publish
  <2>2. UNCHANGED <<copy, server, locked, ready, source, troubles>>
    BY <1>10 DEF Publish
  <2>3. pc' \in [Procs -> {"idle", "copy", "object", "fill", "entry", "fetch", "publish",
                           "take", "return", "error"}]
    <3>1. CASE pc' = [pc EXCEPT ![p] = "take"]
      BY <3>1
    <3>2. CASE pc' = [pc EXCEPT ![p] = "return"]
      BY <3>2
    <3> QED BY <2>1, <3>1, <3>2, Zenon
  <2> QED BY <2>1, <2>2, <2>3
<1>11. CASE Kill(p)
  BY <1>11 DEF Kill, Trouble, Released
<1> QED
  BY <1>1, <1>2, <1>3, <1>4, <1>5, <1>6, <1>7, <1>8, <1>9, <1>10, <1>11 DEF Step

\* A step of a pinned process: the others are idle, as it has the lock or takes it.
LEMMA PinnedStep ==
  ASSUME IInv, NEW p \in Pinned, Step(p) \/ Kill(p)
  PROVE  /\ \A q \in Pinned : PinnedAt(q)'
         /\ \A q \in Managed : ManagedAt(q)'
<1> USE ProcsAssumption DEF ProcsAssumption, IInv, TypeOK, Procs, Go, Same, files, local
<1>o. \A q \in Pinned \ {p} : pc[q] = "idle"
  <2>1. pc[p] # "idle" => locked.object = p
    BY DEF PinnedAt
  <2>2. pc[p] = "idle" => locked.object = None
    BY DEF Step, Acquire, End, CheckCopy, CheckObject, Fill, Take, Fetch, NextSource, Publish, Kill
  <2> QED BY <2>1, <2>2 DEF PinnedAt
<1>m. \A q \in Managed : /\ pc'[q] = pc[q] /\ locked'.entry = locked.entry
                         /\ entry' = entry
  BY DEF Step, Acquire, End, CheckCopy, CheckObject, Fill, Take, Fetch, NextSource, Publish, Kill,
         Released, ManagedAt
<1>2. \A q \in Managed : ManagedAt(q)'
  BY <1>m DEF ManagedAt
<1>3. \A q \in Pinned \ {p} : pc'[q] = "idle"
  BY <1>o DEF Step, Acquire, End, CheckCopy, CheckObject, Fill, Take, Fetch, NextSource, Publish,
         Kill
<1>4. PinnedAt(p)'
  <2> USE DEF PinnedAt
  <2>w. Workspace[p] \in Workspaces
    BY DEF Workspaces
  <2>1. CASE Acquire(p)
    BY <2>1 DEF Acquire
  <2>2. CASE End(p)
    BY <2>2 DEF End
  <2>3. CASE CheckCopy(p)
    <3>1. /\ pc'[p] = "object" /\ locked' = locked /\ copy' = copy /\ locked.object = p
          /\ ready' = [ready EXCEPT ![p] = (copy[Workspace[p]] = "good")]
      BY <2>3 DEF CheckCopy
    <3>2. ready'[p] <=> copy[Workspace[p]] = "good"
      BY <3>1
    <3> QED BY <3>1, <3>2
  <2>4. CASE CheckObject(p)
    BY <2>4 DEF CheckObject
  <2>5. CASE Fill(p)
    BY <2>5 DEF Fill
  <2>6. CASE Take(p)
    BY <2>6, <2>w DEF Take
  <2>8. CASE Fetch(p)
    BY <2>8 DEF Fetch
  <2>9. CASE NextSource(p)
    BY <2>9 DEF NextSource
  <2>10. CASE Publish(p)
    BY <2>10 DEF Publish
  <2>11. CASE Kill(p)
    BY <2>11 DEF Kill
  <2> QED
    BY <2>1, <2>2, <2>3, <2>4, <2>5, <2>6, <2>8, <2>9, <2>10, <2>11 DEF Step
<1> QED BY <1>2, <1>3, <1>4 DEF PinnedAt

\* A step of a managed process touches the entry only.
LEMMA ManagedStep ==
  ASSUME IInv, NEW p \in Managed, Step(p) \/ Kill(p)
  PROVE  /\ \A q \in Pinned : PinnedAt(q)'
         /\ \A q \in Managed : ManagedAt(q)'
<1> USE ProcsAssumption DEF ProcsAssumption, IInv, TypeOK, Procs, Go, Same, files, local
<1>o. \A q \in Managed \ {p} : pc[q] = "idle"
  <2>1. pc[p] # "idle" => locked.entry = p
    BY DEF ManagedAt
  <2>2. pc[p] = "idle" => locked.entry = None
    BY DEF Step, Acquire, End, CheckEntry, Fetch, NextSource, Publish, Kill
  <2> QED BY <2>1, <2>2 DEF ManagedAt
<1>m. \A q \in Pinned : /\ pc'[q] = pc[q] /\ locked'.object = locked.object /\ ready' = ready
                        /\ object' = object /\ copy' = copy
  BY DEF Step, Acquire, End, CheckEntry, Fetch, NextSource, Publish, Kill, Released, PinnedAt
<1>1. \A q \in Pinned : PinnedAt(q)'
  BY <1>m DEF PinnedAt
<1>3. \A q \in Managed \ {p} : pc'[q] = "idle"
  BY <1>o DEF Step, Acquire, End, CheckEntry, Fetch, NextSource, Publish, Kill
<1>4. ManagedAt(p)'
  <2> USE DEF ManagedAt
  <2>1. CASE Acquire(p)
    BY <2>1 DEF Acquire
  <2>2. CASE End(p)
    BY <2>2 DEF End
  <2>3. CASE CheckEntry(p)
    BY <2>3 DEF CheckEntry, Content
  <2>4. CASE Fetch(p)
    BY <2>4 DEF Fetch
  <2>5. CASE NextSource(p)
    BY <2>5 DEF NextSource
  <2>6. CASE Publish(p)
    BY <2>6 DEF Publish
  <2>7. CASE Kill(p)
    BY <2>7 DEF Kill
  <2> QED BY <2>1, <2>2, <2>3, <2>4, <2>5, <2>6, <2>7 DEF Step
<1> QED BY <1>1, <1>3, <1>4 DEF ManagedAt

\* A file goes bad only while nobody has its lock.
LEMMA DamageIInv == IInv /\ Damage => IInv'
<1> SUFFICES ASSUME IInv, Damage PROVE IInv'
  OBVIOUS
<1> USE ProcsAssumption, BoundsAssumption
    DEF ProcsAssumption, BoundsAssumption, IInv, TypeOK, Content, Damage, Trouble, local
<1>1. TypeOK'
  OBVIOUS
<1>2. ASSUME NEW p \in Pinned PROVE PinnedAt(p)'
  <2>1. CASE locked.object = None
    <3>1. pc[p] = "idle"
      BY <2>1 DEF PinnedAt, Procs
    <3> QED BY <3>1 DEF PinnedAt, Procs
  <2>2. CASE locked.object # None
    <3>1. object' = object /\ copy' = copy
      BY <2>2
    <3> QED BY <3>1 DEF PinnedAt
  <2> QED BY <2>1, <2>2
<1>3. ASSUME NEW p \in Managed PROVE ManagedAt(p)'
  <2>1. CASE locked.entry = None
    <3>1. pc[p] = "idle"
      BY <2>1 DEF ManagedAt, Procs
    <3> QED BY <3>1 DEF ManagedAt, Procs
  <2>2. CASE locked.entry # None
    <3>1. entry' = entry
      BY <2>2
    <3> QED BY <3>1 DEF ManagedAt
  <2> QED BY <2>1, <2>2
<1> QED BY <1>1, <1>2, <1>3

LEMMA ServerIInv == IInv /\ ServerChanges => IInv'
BY BoundsAssumption
   DEF BoundsAssumption, ServerChanges, Trouble, IInv, TypeOK, Content, PinnedAt, ManagedAt, files, local

LEMMA NextIInv == IInv /\ [Next]_vars => IInv'
<1> SUFFICES ASSUME IInv, [Next]_vars PROVE IInv'
  OBVIOUS
<1>1. ASSUME NEW p \in Procs, Step(p) \/ Kill(p) PROVE IInv'
  <2>1. TypeOK'
    BY <1>1, StepTypes
  <2>2. (\A q \in Pinned : PinnedAt(q))' /\ (\A q \in Managed : ManagedAt(q))'
    BY <1>1, PinnedStep, ManagedStep DEF Procs
  <2> QED BY <2>1, <2>2 DEF IInv
<1>2. CASE UNCHANGED vars
  BY <1>2 DEF vars, files, local, IInv, TypeOK, PinnedAt, ManagedAt
<1> QED BY <1>1, <1>2, DamageIInv, ServerIInv DEF Next

THEOREM IInvHolds == Spec => []IInv
BY InitIInv, NextIInv, PTL DEF Spec

\* Every variable keeps its type (SourceCache.TypeOK), for any processes.
THEOREM TypeCorrect == Spec => []TypeOK
BY IInvHolds, PTL DEF IInv

\* source_archive.download_pinned_archive, managed.sources.download_source_archive:
\* every path returned has the pinned bytes.
THEOREM ReturnsPinned == Spec => []ReturnedIsPinned
<1>1. IInv => ReturnedIsPinned
  BY DEF IInv, ReturnedIsPinned, PinnedAt, ManagedAt, Procs
<1> QED BY <1>1, IInvHolds, PTL

\* source_archive.publish_archive_file, download_verified_file: no acquisition
\* spoils or removes a good file.
THEOREM GoodFilesStay == Spec => GoodStaysGood
<1> DEFINE Keeps ==
      troubles' = troubles =>
       /\ object = "good" => object' = "good"
       /\ entry = "good" => entry' = "good"
       /\ \A w \in Workspaces : copy[w] = "good" => copy'[w] = "good"
<1>1. ASSUME IInv, [Next]_vars PROVE [Keeps]_vars
  <2> USE DEF IInv, TypeOK, Go, Same, files, local
  <2> SUFFICES ASSUME troubles' = troubles PROVE Keeps
    OBVIOUS
  <2>1. ASSUME NEW p \in Procs, Step(p) PROVE Keeps
    <3>1. ASSUME p \in Pinned, Fill(p) PROVE Keeps
      <4>1. object' = "good" /\ copy' = copy /\ entry' = entry
        BY <1>1, <3>1 DEF Fill, PinnedAt
      <4> QED BY <4>1
    <3>2. ASSUME p \in Pinned, Take(p) PROVE Keeps
      <4>1. object = "good" /\ object' = object /\ entry' = entry
            /\ copy' = [copy EXCEPT ![Workspace[p]] = "good"]
        BY <1>1, <3>2 DEF Take, PinnedAt
      <4> QED BY <1>1, <4>1
    <3>3. ASSUME Publish(p) PROVE Keeps
      BY <3>3 DEF Publish
    <3> QED
      BY <2>1, <3>1, <3>2, <3>3
         DEF Step, Acquire, End, CheckCopy, CheckObject, CheckEntry, Fetch, NextSource
  <2>2. ASSUME NEW p \in Procs, Kill(p) PROVE Keeps
    BY <2>2 DEF Kill
  <2>3. ASSUME Damage \/ ServerChanges PROVE Keeps
    <3>1. troubles' = troubles + 1 /\ troubles \in Nat
      BY <1>1, <2>3, BoundsAssumption DEF Damage, ServerChanges, Trouble, BoundsAssumption
    <3> QED BY <3>1
  <2>4. CASE UNCHANGED vars
    BY <2>4 DEF vars
  <2> QED BY <1>1, <2>1, <2>2, <2>3, <2>4 DEF Next
<1> QED BY <1>1, IInvHolds, PTL DEF Spec, GoodStaysGood

-----------------------------------------------------------------------------
(* Failures.  Until the first trouble the servers stay as they are, so that the *)
(* ones before the one at hand still do not deliver, and no entry is bad.        *)

TriedAt(p) ==
  /\ pc[p] \in {"copy", "object", "entry"} => source[p] = 1
  /\ pc[p] = "fetch" => \A s \in 1..Sources : s < source[p] => server[s] # "good"
  /\ pc[p] = "error" => \A s \in 1..Sources : server[s] # "good"

TriedInv == troubles = 0 => entry # "bad" /\ \A p \in Procs : TriedAt(p)

LEMMA InitTried == Init => TriedInv
BY DEF Init, TriedInv, TriedAt

LEMMA StepTried ==
  ASSUME IInv, entry # "bad", \A p \in Procs : TriedAt(p), NEW p \in Procs, Step(p)
  PROVE  entry' # "bad" /\ \A q \in Procs : TriedAt(q)'
<1> USE SourcesAssumption DEF SourcesAssumption, IInv, TypeOK, Go, Same, files, local
<1>1. server' = server /\ entry' # "bad"
  BY DEF Step, Acquire, End, CheckCopy, CheckObject, Fill, Take, CheckEntry, Fetch, NextSource, Publish
<1>2. ASSUME NEW q \in Procs \ {p} PROVE TriedAt(q)'
  <2>1. pc'[q] = pc[q] /\ source'[q] = source[q]
    BY DEF Step, Acquire, End, CheckCopy, CheckObject, Fill, Take, CheckEntry, Fetch, NextSource, Publish
  <2> QED BY <1>1, <2>1 DEF TriedAt
<1>3. TriedAt(p)'
  <2>1. CASE Acquire(p)
    BY <2>1 DEF Acquire, TriedAt
  <2>2. CASE End(p) \/ CheckCopy(p) \/ Fill(p) \/ Take(p) \/ Fetch(p) \/ Publish(p)
    BY <2>2 DEF End, CheckCopy, Fill, Take, Fetch, Publish, TriedAt
  <2>3. CASE CheckObject(p) \/ CheckEntry(p)
    <3>1. pc'[p] \in {"return", "take", "fill", "fetch"} /\ source[p] = 1 /\ source' = source
      BY <2>3 DEF CheckObject, CheckEntry, TriedAt, Content
    <3> QED BY <3>1 DEF TriedAt
  <2>4. CASE NextSource(p)
    <3>1. /\ pc[p] = "fetch" /\ server[source[p]] # "good" /\ source[p] \in 1..Sources
          /\ \/ source[p] < Sources /\ pc'[p] = "fetch" /\ source'[p] = source[p] + 1
             \/ ~(source[p] < Sources) /\ pc'[p] = "error"
      BY <2>4 DEF NextSource
    <3>2. \A s \in 1..Sources : s <= source[p] => server[s] # "good"
      BY <3>1 DEF TriedAt
    <3> QED BY <1>1, <3>1, <3>2 DEF TriedAt
  <2> QED BY <2>1, <2>2, <2>3, <2>4 DEF Step
<1> QED BY <1>1, <1>2, <1>3

LEMMA NextTried == IInv /\ TriedInv /\ [Next]_vars => TriedInv'
<1> SUFFICES ASSUME IInv, TriedInv, [Next]_vars, troubles' = 0
             PROVE  entry' # "bad" /\ \A p \in Procs : TriedAt(p)'
  BY DEF TriedInv
<1>1. troubles \in Nat
  BY BoundsAssumption DEF BoundsAssumption, IInv, TypeOK
<1>2. ~(Damage \/ ServerChanges \/ \E p \in Procs : Kill(p))
  BY <1>1 DEF Damage, ServerChanges, Kill, Trouble
<1>3. ASSUME NEW p \in Procs, Step(p) PROVE entry' # "bad" /\ \A q \in Procs : TriedAt(q)'
  <2>1. troubles' = troubles
    BY <1>3 DEF Step, Same, Acquire, End, CheckCopy, CheckObject, Fill, Take, CheckEntry, Fetch,
                NextSource, Publish
  <2> QED BY <1>3, <2>1, StepTried DEF TriedInv
<1>4. CASE UNCHANGED vars
  BY <1>4 DEF vars, files, local, TriedInv, TriedAt
<1> QED BY <1>2, <1>3, <1>4 DEF Next

\* source_archive.download_verified_file_from_sources: while nothing is damaged or
\* changed an acquisition fails only if no server delivers.
THEOREM UnservedAreRefused == Spec => []RefusedOnlyUnserved
<1>1. TriedInv => RefusedOnlyUnserved
  BY DEF TriedInv, TriedAt, RefusedOnlyUnserved
<1> QED BY <1>1, IInvHolds, InitTried, NextTried, PTL DEF Spec

\* source_archive.download_pinned_archive: a returned copy leaves a good object.
THEOREM ReturnsRepairTheObject == Spec => []ReturnsRepair
<1>1. IInv => ReturnsRepair
  BY DEF IInv, ReturnsRepair, PinnedAt
<1> QED BY <1>1, IInvHolds, PTL

=============================================================================
