--------------------------- MODULE SetupStateProofs ---------------------------
(***************************************************************************)
(* Nothing unverified is delivered, for any setups, bundle commands and     *)
(* releases.  The record is the witness: from the point where a setup         *)
(* starts to rebuild until it qualifies again the record is not qualified     *)
(* (SetupAt), and whoever uses the binding holds a lease under which the      *)
(* record stays as it is (one setup at work, and none while a bundle is       *)
(* copied).                                                                  *)
(*                                                                           *)
(* A forced setup gives up at a wreck or for inputs that were taken away:    *)
(* what it has made sure of (ForcedAt) the others leave alone (Spares).      *)
(***************************************************************************)
EXTENDS SetupState, TLAPS

Rebuilding == {"build", "lock", "assemble", "unbind", "bind", "leases", "smoke", "marker",
               "test", "qualify"}
\* Where a forced setup has withdrawn the qualification already.
Withdrawn == {"check", "claim", "write", "reuse"}

SetupAt(p) ==
  /\ pc[p] \notin {"relock", "copy"}
  /\ (p \in Forced /\ HoldsState(p) /\ pc[p] \in Withdrawn) => ~record.qualified
  /\ pc[p] \in Rebuilding => ~record.qualified
  /\ pc[p] = "qualify" => (binding = "tested" /\ result = "current")
  /\ pc[p] \in {"install", "publish"} => record.qualified
  /\ \A q \in Setups : HoldsState(p) /\ HoldsState(q) => p = q

BundleAt(b) ==
  /\ pc[b] \in {"idle", "lease", "relock", "copy"}
  /\ pc[b] = "relock" => loaded[b].qualified
  /\ pc[b] = "copy" => (record.qualified /\ \A p \in Setups : ~HoldsState(p))

IInv ==
  /\ TypeOK /\ QualifiedMeansVerified /\ DeliveredWasVerified
  /\ \A p \in Setups : SetupAt(p)
  /\ \A b \in Bundles : BundleAt(b)

-----------------------------------------------------------------------------
(* What requests ask for.                                                   *)

LEMMA Asks ==
  ASSUME TypeOK, NEW p \in Setups
  PROVE  /\ Selection(p) \in {r.selection : r \in Asked} /\ Lock(p) \in {r.lock : r \in Asked}
         /\ Project(p) \in {r.project : r \in Asked} /\ Inputs(p) \in Identities
<1>1. request[p] \in Asked
  BY DEF TypeOK, Asked, Procs
<1>2. request[p] \in UNION {Requests[q] : q \in Procs}
  BY DEF TypeOK, Procs
<1> QED BY <1>1, <1>2 DEF Selection, Lock, Project, Inputs, Identities

LEMMA RecordTypes ==
  /\ NoRecord \in Records /\ NoRecord.qualified = FALSE
  /\ \A r \in Records : [r EXCEPT !.qualified = FALSE] \in Records
                        /\ [r EXCEPT !.qualified = FALSE].qualified = FALSE
BY DEF NoRecord, Records

LEMMA InitIInv == Init => IInv
<1> SUFFICES ASSUME Init PROVE IInv
  OBVIOUS
<1> USE ProcsAssumption, BoundsAssumption DEF ProcsAssumption, BoundsAssumption, Init
<1>1. /\ request \in [Procs -> UNION {Requests[p] : p \in Procs}]
      /\ \A p \in Procs : request[p] \in Requests[p]
  <2> SUFFICES ASSUME NEW p \in Procs PROVE request[p] \in Requests[p]
    OBVIOUS
  <2>1. request[p] = CHOOSE r \in Requests[p] : TRUE
    OBVIOUS
  <2>2. \E r \in Requests[p] : TRUE
    BY RequestsAssumption DEF RequestsAssumption
  <2> QED BY <2>1, <2>2
<1>2. TypeOK
  <2>1. loaded \in [Bundles -> Records] /\ record \in Records
    BY RecordTypes
  <2>2. pc \in [Procs -> Points]
    BY DEF Points
  <2>3. /\ dir \in [Procs -> 1..3] /\ runs \in [Procs -> 0..MaxRuns] /\ troubles \in 0..MaxTroubles
        /\ owner \in [{"root", "state", "store"} -> {None, Torn, "good"}]
    OBVIOUS
  <2> QED BY <1>1, <2>1, <2>2, <2>3 DEF TypeOK
<1>3. ~record.qualified
  BY RecordTypes
<1> QED BY <1>2, <1>3
       DEF IInv, QualifiedMeansVerified, DeliveredWasVerified, SetupAt, BundleAt,
           HoldsState, Leased, ProducerLeased, Rebuilding, Withdrawn, Procs

-----------------------------------------------------------------------------
(* Leases.                                                                  *)

\* A step of one process moves that process only.
Moves(p) ==
  /\ \A q \in Procs \ {p} : pc'[q] = pc[q] /\ dir'[q] = dir[q]
  /\ \A b \in Bundles \ {p} : loaded'[b] = loaded[b]

\* While one setup holds the state lease, the others are where the record does
\* not matter, and no bundle is being copied.
LEMMA HolderIsAlone ==
  ASSUME IInv, NEW p \in Setups, HoldsState(p), Moves(p)
  PROVE  /\ \A q \in Setups \ {p} : SetupAt(q)' /\ ~HoldsState(q)'
         /\ \A b \in Bundles : BundleAt(b)'
<1>1. ASSUME NEW q \in Setups \ {p} PROVE SetupAt(q)' /\ ~HoldsState(q)'
  <2>1. ~HoldsState(q)
    BY DEF IInv, SetupAt
  <2>2. ~HoldsState(q)' /\ pc'[q] = pc[q] /\ dir'[q] = dir[q]
    BY <2>1 DEF Moves, HoldsState, Procs
  <2>3. pc[q] \notin Rebuilding \cup {"install", "publish"}
    BY <2>1 DEF HoldsState, Leased, ProducerLeased, Rebuilding
  <2>4. pc[q] \notin {"relock", "copy"}
    BY DEF IInv, SetupAt
  <2> QED BY <2>2, <2>3, <2>4 DEF SetupAt, Rebuilding
<1>2. ASSUME NEW b \in Bundles PROVE BundleAt(b)'
  <2>1. pc'[b] = pc[b] /\ loaded'[b] = loaded[b]
    BY ProcsAssumption DEF Moves, Procs, ProcsAssumption
  <2>2. pc[b] # "copy"
    BY DEF IInv, BundleAt
  <2> QED BY <2>1, <2>2 DEF IInv, BundleAt
<1> QED BY <1>1, <1>2

\* A process that neither holds nor takes the lease leaves the record alone.
LEMMA OutsiderIsHarmless ==
  ASSUME IInv, NEW p \in Setups, Moves(p), ~HoldsState(p)', UNCHANGED work,
         pc'[p] \notin {"relock", "copy"}
  PROVE  /\ \A q \in Setups : SetupAt(q)'
         /\ \A b \in Bundles : BundleAt(b)'
<1> USE DEF IInv
<1>1. \A q \in Setups \ {p} : pc'[q] = pc[q] /\ dir'[q] = dir[q] /\ (HoldsState(q)' <=> HoldsState(q))
  BY DEF Moves, HoldsState, Procs
<1>2. pc'[p] \notin Rebuilding \cup {"install", "publish"}
  BY DEF HoldsState, Leased, ProducerLeased, Rebuilding
<1>3. ASSUME NEW q \in Setups PROVE SetupAt(q)'
  <2>1. \A r \in Setups : HoldsState(q)' /\ HoldsState(r)' => q = r
    BY <1>1 DEF SetupAt
  <2>2. CASE q = p
    BY <1>2, <2>1, <2>2 DEF SetupAt, Rebuilding
  <2>3. CASE q # p
    BY <1>1, <2>1, <2>3 DEF SetupAt, work
  <2> QED BY <2>2, <2>3
<1>4. ASSUME NEW b \in Bundles PROVE BundleAt(b)'
  <2>1. pc'[b] = pc[b] /\ loaded'[b] = loaded[b]
    BY ProcsAssumption DEF Moves, Procs, ProcsAssumption
  <2>2. \A q \in Setups : HoldsState(q)' => HoldsState(q)
    BY <1>1
  <2> QED BY <2>1, <2>2 DEF BundleAt, work
<1> QED BY <1>3, <1>4

-----------------------------------------------------------------------------
(* Steps of a setup.                                                        *)

\* While it prepares its directories.
LEMMA DirectorySteps ==
  ASSUME IInv, NEW p \in Setups,
         Own(p) \/ RefuseUnowned(p) \/ FindEmpty(p) \/ Claim(p) \/ WriteMarker(p)
  PROVE  IInv'
<1>1. /\ UNCHANGED <<config, work, valid, request, loaded, delivered, runs, troubles>>
      /\ pc[p] \in {"check", "claim", "write"}
      /\ \E x \in {"check", "claim", "write", "lease", "reuse", "idle"} : pc' = [pc EXCEPT ![p] = x]
      /\ \E d \in 1..3 : dir' = [dir EXCEPT ![p] = d]
      /\ owner' \in [{"root", "state", "store"} -> {None, Torn, "good"}]
  <2> USE DEF At, Goto, UnchangedBut, owned
  <2>0. /\ dir[p] \in 1..3 /\ dir \in [Procs -> 1..3] /\ dir = [dir EXCEPT ![p] = dir[p]]
        /\ Dir(p) \in {"root", "state", "store"}
        /\ owner \in [{"root", "state", "store"} -> {None, Torn, "good"}]
    BY DEF IInv, TypeOK, Procs, Dir, Dirs
  <2>1. Prepared(p) =>
          /\ UNCHANGED <<config, work, valid, request, loaded, delivered, runs, troubles>>
          /\ \E x \in {"check", "lease", "reuse"} : pc' = [pc EXCEPT ![p] = x]
          /\ \E d \in 1..3 : dir' = [dir EXCEPT ![p] = d]
    <3> SUFFICES ASSUME Prepared(p)
                 PROVE /\ \E x \in {"check", "lease", "reuse"} : pc' = [pc EXCEPT ![p] = x]
                       /\ \E d \in 1..3 : dir' = [dir EXCEPT ![p] = d]
      BY DEF Prepared
    <3>1. AfterDir(p) \in {"check", "lease", "reuse"}
      BY <2>0 DEF AfterDir
    <3>2. (IF dir[p] = 3 THEN 3 ELSE dir[p] + 1) \in 1..3
      BY <2>0
    <3> QED BY <3>1, <3>2 DEF Prepared
  <2>2. CASE Own(p)
    BY <2>0, <2>1, <2>2 DEF Own
  <2>3. CASE RefuseUnowned(p)
    BY <2>0, <2>3 DEF RefuseUnowned, Refuse
  <2>4. CASE FindEmpty(p)
    BY <2>0, <2>4 DEF FindEmpty
  <2>5. CASE Claim(p)
    BY <2>0, <2>5 DEF Claim
  <2>6. CASE WriteMarker(p)
    BY <2>0, <2>1, <2>6 DEF WriteMarker
  <2> QED BY <2>2, <2>3, <2>4, <2>5, <2>6
<1>2. TypeOK'
  <2>1. pc' \in [Procs -> Points]
    BY <1>1 DEF IInv, TypeOK, Points, Leased
  <2>2. dir' \in [Procs -> 1..3]
    BY <1>1 DEF IInv, TypeOK
  <2> QED BY <2>2, <1>1, <2>1 DEF IInv, TypeOK, work
<1>3. Moves(p)
  BY <1>1 DEF Moves, IInv, TypeOK
<1>4. QualifiedMeansVerified' /\ DeliveredWasVerified'
  BY <1>1 DEF IInv, QualifiedMeansVerified, DeliveredWasVerified, work
<1>5. pc'[p] \in {"check", "claim", "write", "lease", "reuse", "idle"}
  BY <1>1 DEF IInv, TypeOK, Procs
<1>6. CASE HoldsState(p)
  <2>1. SetupAt(p)'
    <3>1. p \in Forced => ~record.qualified
      BY <1>1, <1>6 DEF IInv, SetupAt, Withdrawn
    <3>2. \A q \in Setups \ {p} : ~HoldsState(q)'
      BY <1>3, <1>6, HolderIsAlone
    <3> QED BY <1>1, <1>5, <3>1, <3>2 DEF SetupAt, Rebuilding, work
  <2> QED BY <1>2, <1>3, <1>4, <1>6, <2>1, HolderIsAlone DEF IInv
<1>7. CASE ~HoldsState(p)
  <2>1. dir[p] \in {1, 2}
    BY <1>1, <1>7 DEF HoldsState, IInv, TypeOK, Procs
  <2>2. ~HoldsState(p)'
    <3> USE DEF HoldsState, IInv, TypeOK, Procs, At, Goto, UnchangedBut, owned, Leased, ProducerLeased
    <3>1. Prepared(p) => ~HoldsState(p)'
      BY <2>1 DEF Prepared, AfterDir
    <3>2. CASE Own(p)
      BY <3>1, <3>2 DEF Own
    <3>3. CASE RefuseUnowned(p)
      BY <3>3 DEF RefuseUnowned, Refuse
    <3>4. CASE FindEmpty(p)
      BY <2>1, <3>4 DEF FindEmpty
    <3>5. CASE Claim(p)
      BY <2>1, <3>5 DEF Claim
    <3>6. CASE WriteMarker(p)
      BY <3>1, <3>6 DEF WriteMarker
    <3> QED BY <3>2, <3>3, <3>4, <3>5, <3>6
  <2> QED BY <1>1, <1>2, <1>3, <1>4, <1>5, <2>2, OutsiderIsHarmless DEF IInv
<1> QED BY <1>6, <1>7

-----------------------------------------------------------------------------
\* A step of the setup that holds the lease, with what it does to the work.
LEMMA HolderStep ==
  ASSUME IInv, NEW p \in Setups, pc[p] \in Leased,
         NEW x \in Leased \cup {"idle", "check"}, pc' = [pc EXCEPT ![p] = x],
         UNCHANGED <<dir, loaded>>,
         TypeOK', QualifiedMeansVerified', DeliveredWasVerified',
         (x \in Rebuilding \/ (p \in Forced /\ x \in Withdrawn)) => ~record'.qualified,
         x = "qualify" => (binding' = "tested" /\ result' = "current"),
         x \in {"install", "publish"} => record'.qualified
  PROVE  IInv'
<1>1. HoldsState(p) /\ Moves(p)
  BY DEF HoldsState, Moves, IInv, TypeOK
<1>2. pc'[p] = x
  BY DEF IInv, TypeOK, Procs
<1>3. \A q \in Setups \ {p} : SetupAt(q)' /\ ~HoldsState(q)'
  BY <1>1, HolderIsAlone
<1>4. x \notin {"relock", "copy"}
  BY DEF Leased, ProducerLeased
<1>5. SetupAt(p)'
  BY <1>2, <1>3, <1>4 DEF SetupAt
<1> QED BY <1>1, <1>3, <1>5, HolderIsAlone DEF IInv

\* A forced setup withdraws; every setup with the lease comes to the store.
LEMMA SelectionSteps ==
  ASSUME IInv, NEW p \in Setups, WriteSelection(p) \/ RefuseSelection(p) \/ Withdraw(p)
  PROVE  IInv'
<1> USE DEF At, Goto, UnchangedBut, owned, work
<1>t. /\ pc \in [Procs -> Points] /\ TypeOK /\ QualifiedMeansVerified /\ DeliveredWasVerified
      /\ p \in Procs
  BY DEF IInv, TypeOK, Procs
<1>1. CASE WriteSelection(p)
  <2>1. TypeOK'
    BY <1>1, <1>t, Asks DEF WriteSelection, TypeOK, Points, Leased
  <2> QED
    BY <1>1, <1>t, <2>1, HolderStep
       DEF WriteSelection, QualifiedMeansVerified, DeliveredWasVerified, Leased, Rebuilding, Withdrawn
<1>2. CASE RefuseSelection(p)
  <2>1. TypeOK'
    BY <1>2, <1>t DEF RefuseSelection, Refuse, TypeOK, Points, Leased
  <2> QED
    BY <1>2, <1>t, <2>1, HolderStep
       DEF RefuseSelection, Refuse, QualifiedMeansVerified, DeliveredWasVerified, Leased, Rebuilding, Withdrawn
<1>3. CASE Withdraw(p)
  <2>1. record' \in Records /\ (record'.qualified => record.qualified)
        /\ (p \in Forced => ~record'.qualified)
    BY <1>3, <1>t, RecordTypes DEF Withdraw, TypeOK
  <2>2. TypeOK'
    BY <1>3, <1>t, <2>1 DEF Withdraw, TypeOK, Points, Leased
  <2> QED
    BY <1>3, <1>t, <2>1, <2>2, HolderStep
       DEF Withdraw, QualifiedMeansVerified, DeliveredWasVerified, Leased, Rebuilding
<1> QED BY <1>1, <1>2, <1>3

\* Steps that look, and go on or give up.
LEMMA LookingSteps ==
  ASSUME IInv, NEW p \in Setups,
         \/ Rebuild(p) \/ Reuse(p) \/ RefuseState(p) \/ RefuseLock(p) \/ Assemble(p)
         \/ RefuseInputs(p) \/ LeaseInputs(p) \/ RefuseSmoke(p) \/ Install(p) \/ RefuseInstall(p)
  PROVE  IInv'
<1> USE DEF At, Goto, UnchangedBut, Refuse
<1>t. /\ pc \in [Procs -> Points] /\ TypeOK /\ QualifiedMeansVerified /\ DeliveredWasVerified
      /\ p \in Procs /\ SetupAt(p) /\ record \in Records
  BY DEF IInv, TypeOK, Procs
<1>1. /\ UNCHANGED <<owned, work, valid, dir, request, loaded, delivered, runs, troubles>>
      /\ pc[p] \in Leased
      /\ \E x \in {"build", "install", "idle", "unbind", "smoke", "publish"} :
           /\ pc' = [pc EXCEPT ![p] = x]
           /\ x \in {"build", "unbind", "smoke"} => ~record.qualified
           /\ x \in {"install", "publish"} => record.qualified
  <2> USE <1>t DEF SetupAt, Leased, ProducerLeased, Rebuilding
  <2>1. CASE Rebuild(p)
    <3>1. ~record.qualified
      <4>1. CASE p \in Forced
        BY <2>1, <4>1 DEF Rebuild, HoldsState, Withdrawn
      <4>2. CASE record = NoRecord
        BY <4>2, RecordTypes
      <4> QED BY <2>1, <4>1, <4>2 DEF Rebuild
    <3> QED BY <2>1, <3>1 DEF Rebuild
  <2>2. CASE Reuse(p)
    <3>1. CASE record.qualified
      BY <2>2, <3>1 DEF Reuse
    <3>2. CASE ~record.qualified
      BY <2>2, <3>2 DEF Reuse
    <3> QED BY <3>1, <3>2
  <2>3. CASE RefuseState(p) \/ RefuseLock(p) \/ RefuseInputs(p) \/ RefuseSmoke(p) \/ RefuseInstall(p)
    BY <2>3 DEF RefuseState, RefuseLock, RefuseInputs, RefuseSmoke, RefuseInstall
  <2>4. CASE Assemble(p)
    BY <2>4 DEF Assemble
  <2>5. CASE LeaseInputs(p)
    BY <2>5 DEF LeaseInputs
  <2>6. CASE Install(p)
    BY <2>6 DEF Install
  <2> QED BY <2>1, <2>2, <2>3, <2>4, <2>5, <2>6
<1>2. PICK x \in {"build", "install", "idle", "unbind", "smoke", "publish"} :
        /\ pc' = [pc EXCEPT ![p] = x]
        /\ x \in {"build", "unbind", "smoke"} => ~record.qualified
        /\ x \in {"install", "publish"} => record.qualified
  BY <1>1
<1>3. TypeOK'
  BY <1>1, <1>2, <1>t DEF TypeOK, Points, Leased, ProducerLeased, owned, work
<1>4. QualifiedMeansVerified' /\ DeliveredWasVerified'
  BY <1>1, <1>t DEF QualifiedMeansVerified, DeliveredWasVerified, work
<1>5. /\ x \in Leased \cup {"idle", "check"}
      /\ (x \in Rebuilding \/ (p \in Forced /\ x \in Withdrawn)) => ~record'.qualified
      /\ x # "qualify" /\ (x \in {"install", "publish"} => record'.qualified)
  BY <1>1, <1>2 DEF Leased, ProducerLeased, Rebuilding, Withdrawn, work
<1> QED BY <1>1, <1>2, <1>3, <1>4, <1>5, HolderStep

\* Other producers: the qualification is withdrawn before anything is rebuilt.
LEMMA RefreshStep ==
  ASSUME IInv, NEW p \in Setups, Refresh(p)
  PROVE  IInv'
<1> USE DEF At, Goto, UnchangedBut, owned, work
<1>t. /\ pc \in [Procs -> Points] /\ TypeOK /\ DeliveredWasVerified /\ p \in Procs
  BY DEF IInv, TypeOK, Procs
<1>1. record' \in Records /\ ~record'.qualified
  BY <1>t, RecordTypes DEF Refresh, TypeOK
<1>2. TypeOK'
  BY <1>t, <1>1 DEF Refresh, TypeOK, Points, Leased, ProducerLeased
<1> QED
  BY <1>t, <1>1, <1>2, HolderStep
     DEF Refresh, QualifiedMeansVerified, DeliveredWasVerified, Leased, ProducerLeased,
         Rebuilding, Withdrawn

\* The steps that change the lock file, the binding or the verification
\* directory: all of them while the record is not qualified.
LEMMA RebuildingSteps ==
  ASSUME IInv, NEW p \in Setups,
         \/ Build(p) \/ WriteLock(p) \/ Unbind(p) \/ Bind(p) \/ ClearSmoke(p)
         \/ MarkSmoke(p) \/ Test(p)
  PROVE  IInv'
<1> USE DEF At, Goto, UnchangedBut
<1>t. /\ pc \in [Procs -> Points] /\ TypeOK /\ DeliveredWasVerified /\ p \in Procs /\ SetupAt(p)
      /\ record \in Records
  BY DEF IInv, TypeOK, Procs
<1>1. /\ UNCHANGED <<owned, dir, request, loaded, delivered, runs, troubles, record>>
      /\ pc[p] \in Rebuilding
      /\ \E x \in {"lock", "assemble", "bind", "leases", "marker", "test", "qualify"} :
           /\ pc' = [pc EXCEPT ![p] = x]
           /\ x = "qualify" => (binding' = "tested" /\ result' = "current")
  <2> USE DEF Rebuilding, work
  <2>1. CASE Build(p) BY <2>1 DEF Build
  <2>2. CASE WriteLock(p) BY <2>2 DEF WriteLock
  <2>3. CASE Unbind(p) BY <2>3 DEF Unbind
  <2>4. CASE Bind(p) BY <2>4 DEF Bind
  <2>5. CASE ClearSmoke(p) BY <2>5 DEF ClearSmoke
  <2>6. CASE MarkSmoke(p) BY <2>6 DEF MarkSmoke
  <2>7. CASE Test(p) BY <2>7 DEF Test
  <2> QED BY <2>1, <2>2, <2>3, <2>4, <2>5, <2>6, <2>7
<1>2. PICK x \in {"lock", "assemble", "bind", "leases", "marker", "test", "qualify"} :
        /\ pc' = [pc EXCEPT ![p] = x]
        /\ x = "qualify" => (binding' = "tested" /\ result' = "current")
  BY <1>1
<1>3. /\ valid' \subseteq Identities
      /\ lockfile' \in {r.lock : r \in Asked} \cup {None}
      /\ binding' \in {None, "untested", "tested"}
      /\ marker' \in {r.project : r \in Asked} \cup {None, Torn}
      /\ result' \in {None, "current", "stale"}
  <2> USE <1>t, Asks DEF TypeOK, work
  <2>1. CASE Build(p) BY <2>1 DEF Build
  <2>2. CASE WriteLock(p) BY <2>2 DEF WriteLock
  <2>3. CASE Unbind(p) BY <2>3 DEF Unbind
  <2>4. CASE Bind(p) BY <2>4 DEF Bind
  <2>5. CASE ClearSmoke(p) BY <2>5 DEF ClearSmoke
  <2>6. CASE MarkSmoke(p) BY <2>6 DEF MarkSmoke
  <2>7. CASE Test(p) BY <2>7 DEF Test
  <2> QED BY <2>1, <2>2, <2>3, <2>4, <2>5, <2>6, <2>7
<1>4. TypeOK'
  BY <1>1, <1>2, <1>3, <1>t DEF TypeOK, Points, Leased, ProducerLeased, owned
<1>5. ~record'.qualified
  BY <1>1, <1>t DEF SetupAt
<1>6. /\ x \in Leased \cup {"idle", "check"} /\ x \notin {"install", "publish"}
      /\ pc[p] \in Leased
  BY <1>1 DEF Leased, ProducerLeased, Rebuilding
<1>7. QualifiedMeansVerified' /\ DeliveredWasVerified'
  BY <1>1, <1>5, <1>t DEF QualifiedMeansVerified, DeliveredWasVerified
<1> QED BY <1>1, <1>2, <1>4, <1>5, <1>6, <1>7, HolderStep

LEMMA QualifyStep ==
  ASSUME IInv, NEW p \in Setups, Qualify(p)
  PROVE  IInv'
<1> USE DEF At, Goto, UnchangedBut, owned
<1>t. /\ pc \in [Procs -> Points] /\ TypeOK /\ DeliveredWasVerified /\ p \in Procs /\ SetupAt(p)
      /\ pc[p] = "qualify"
  BY DEF IInv, TypeOK, Procs, Qualify
<1>1. record' \in Records /\ record'.qualified
  BY <1>t, Asks DEF Qualify, Records
<1>2. TypeOK'
  BY <1>t, <1>1 DEF Qualify, TypeOK, Points, Leased, ProducerLeased
<1>3. QualifiedMeansVerified' /\ DeliveredWasVerified'
  BY <1>t DEF Qualify, QualifiedMeansVerified, DeliveredWasVerified, SetupAt
<1>4. pc[p] \in Leased /\ "install" \in Leased /\ "install" \notin Rebuilding \cup Withdrawn
  BY <1>t DEF Leased, ProducerLeased, Rebuilding, Withdrawn
<1> QED BY <1>t, <1>1, <1>2, <1>3, <1>4, HolderStep DEF Qualify

LEMMA AcquireStep ==
  ASSUME IInv, NEW p \in Setups, Acquire(p)
  PROVE  IInv'
<1> USE DEF At, Goto, UnchangedBut
<1>t. /\ pc \in [Procs -> Points] /\ TypeOK /\ QualifiedMeansVerified /\ DeliveredWasVerified
      /\ p \in Procs
  BY DEF IInv, TypeOK, Procs
<1>1. PICK x \in {"config", "idle"} : pc' = [pc EXCEPT ![p] = x]
  BY DEF Acquire
<1>2. UNCHANGED <<owned, work, valid, dir, request, loaded, delivered, runs, troubles>>
  BY DEF Acquire
<1>3. TypeOK' /\ QualifiedMeansVerified' /\ DeliveredWasVerified'
  BY <1>t, <1>1, <1>2
     DEF TypeOK, Points, Leased, QualifiedMeansVerified, DeliveredWasVerified, owned, work
<1>4. \A q \in Setups : ~HoldsState(q)
  BY DEF Acquire, SetupAtWork
<1>5. ASSUME NEW q \in Setups PROVE SetupAt(q)'
  <2>1. \A r \in Setups \ {p} : ~HoldsState(r)' /\ pc'[r] = pc[r]
    BY <1>t, <1>1, <1>2, <1>4 DEF HoldsState, Procs
  <2>2. CASE q = p
    BY <1>t, <1>1, <2>1, <2>2 DEF SetupAt, Rebuilding, Withdrawn
  <2>3. CASE q # p
    <3>1. pc[q] \notin Rebuilding \cup {"install", "publish", "relock", "copy"}
      BY <1>4 DEF HoldsState, Leased, ProducerLeased, Rebuilding, IInv, SetupAt
    <3> QED BY <2>1, <2>3, <3>1 DEF SetupAt, Rebuilding
  <2> QED BY <2>2, <2>3
<1>6. ASSUME NEW b \in Bundles PROVE BundleAt(b)'
  <2>1. pc'[b] = pc[b] /\ loaded'[b] = loaded[b]
    BY <1>t, <1>1, <1>2, ProcsAssumption DEF ProcsAssumption, Procs
  <2>2. pc[b] # "copy"
    BY DEF Acquire, BundleAtWork
  <2> QED BY <2>1, <2>2 DEF IInv, BundleAt
<1> QED BY <1>3, <1>5, <1>6 DEF IInv

\* A setup that stops, fails or begins is no holder, whatever it was.
LEMMA LeavingStep ==
  ASSUME IInv, NEW p \in Setups, Moves(p), UNCHANGED work, ~HoldsState(p)',
         pc'[p] \in {"idle", "check"}, TypeOK', DeliveredWasVerified'
  PROVE  IInv'
<1>1. QualifiedMeansVerified'
  BY DEF IInv, QualifiedMeansVerified, work
<1>2. CASE HoldsState(p)
  <2>1. SetupAt(p)'
    BY DEF SetupAt, Rebuilding
  <2> QED BY <1>1, <1>2, <2>1, HolderIsAlone DEF IInv
<1>3. CASE ~HoldsState(p)
  BY <1>1, <1>3, OutsiderIsHarmless DEF IInv
<1> QED BY <1>2, <1>3

\* A step of a bundle command.
LEMMA BundleStep ==
  ASSUME IInv, NEW b \in Bundles, Moves(b), UNCHANGED <<work, dir>>, TypeOK', DeliveredWasVerified',
         pc'[b] \in {"idle", "lease", "relock", "copy"},
         pc'[b] = "relock" => loaded'[b].qualified,
         pc'[b] = "copy" => (record.qualified /\ \A p \in Setups : ~HoldsState(p))
  PROVE  IInv'
<1> USE DEF IInv, work
<1>1. \A p \in Setups : pc'[p] = pc[p] /\ dir'[p] = dir[p] /\ (HoldsState(p)' <=> HoldsState(p))
  BY ProcsAssumption DEF Moves, HoldsState, Procs, ProcsAssumption
<1>2. \A p \in Setups : SetupAt(p)'
  BY <1>1 DEF SetupAt
<1>3. \A c \in Bundles : BundleAt(c)'
  BY <1>1 DEF BundleAt, Moves, Procs
<1>4. QualifiedMeansVerified'
  BY DEF QualifiedMeansVerified
<1> QED BY <1>2, <1>3, <1>4

LEMMA BundleSteps ==
  ASSUME IInv, NEW b \in Bundles, Load(b) \/ Relock(b)
  PROVE  IInv'
<1> USE DEF At, Goto, UnchangedBut
<1>t. /\ pc \in [Procs -> Points] /\ TypeOK /\ DeliveredWasVerified /\ b \in Procs
      /\ record \in Records /\ loaded \in [Bundles -> Records] /\ BundleAt(b)
  BY DEF IInv, TypeOK, Procs
<1>1. CASE Load(b)
  <2>1. PICK x \in {"relock", "idle"} :
          pc' = [pc EXCEPT ![b] = x] /\ (x = "relock" => record.qualified)
    BY <1>1 DEF Load
  <2>2. UNCHANGED <<owned, work, valid, dir, request, delivered, runs, troubles>>
        /\ loaded' = [loaded EXCEPT ![b] = record]
    BY <1>1 DEF Load
  <2>3. TypeOK' /\ DeliveredWasVerified' /\ Moves(b)
    BY <1>t, <2>1, <2>2 DEF TypeOK, Points, DeliveredWasVerified, Moves, owned, work
  <2>4. pc'[b] = x /\ loaded'[b] = record
    BY <1>t, <2>1, <2>2
  <2> QED BY <2>1, <2>2, <2>3, <2>4, BundleStep
<1>2. CASE Relock(b)
  <2>1. PICK x \in {"copy", "idle"} :
          pc' = [pc EXCEPT ![b] = x] /\ (x = "copy" => record = loaded[b])
    BY <1>2 DEF Relock
  <2>2. UNCHANGED <<owned, work, valid, dir, request, loaded, delivered, runs, troubles>>
        /\ \A p \in Setups : ~HoldsState(p)
    BY <1>2 DEF Relock, SetupAtWork
  <2>3. TypeOK' /\ DeliveredWasVerified' /\ Moves(b)
    BY <1>t, <2>1, <2>2 DEF TypeOK, Points, DeliveredWasVerified, Moves, owned, work
  <2>4. pc'[b] = x /\ (x = "copy" => record.qualified)
    BY <1>t, <1>2, <2>1 DEF BundleAt, Relock
  <2> QED BY <2>1, <2>2, <2>3, <2>4, BundleStep
<1> QED BY <1>1, <1>2

\* Only a qualified state is delivered, from the point "publish" of a setup or
\* the point "copy" of a bundle command.
LEMMA PublishStep ==
  ASSUME IInv, NEW p \in Procs, Publish(p)
  PROVE  IInv'
<1> USE DEF At, Goto
<1>t. /\ pc \in [Procs -> Points] /\ TypeOK /\ QualifiedMeansVerified /\ DeliveredWasVerified
  BY DEF IInv, TypeOK
<1>1. record.qualified
  BY DEF IInv, SetupAt, BundleAt, Publish, Procs
<1>2. delivered' \subseteq {"tested"}
  BY <1>t, <1>1 DEF Publish, QualifiedMeansVerified, DeliveredWasVerified
<1>3. TypeOK' /\ DeliveredWasVerified' /\ Moves(p) /\ pc'[p] = "idle"
  BY <1>t, <1>2 DEF Publish, TypeOK, Points, DeliveredWasVerified, Moves, owned, work
<1>4. UNCHANGED <<work, dir>>
  BY DEF Publish, work
<1>5. CASE p \in Setups
  BY <1>3, <1>4, <1>5, LeavingStep DEF HoldsState, Leased, ProducerLeased
<1>6. CASE p \in Bundles
  BY <1>3, <1>4, <1>6, BundleStep
<1> QED BY <1>5, <1>6 DEF Procs

LEMMA BeginStep ==
  ASSUME IInv, NEW p \in Procs, Begin(p)
  PROVE  IInv'
<1> USE DEF At, Goto
<1>t. /\ pc \in [Procs -> Points] /\ TypeOK /\ DeliveredWasVerified
      /\ dir \in [Procs -> 1..3] /\ runs \in [Procs -> 0..MaxRuns]
  BY DEF IInv, TypeOK
<1>1. PICK x \in {"check", "lease"} :
        pc' = [pc EXCEPT ![p] = x] /\ (p \in Setups => x = "check") /\ (p \notin Setups => x = "lease")
  BY DEF Begin
<1>2. /\ UNCHANGED <<owned, work, valid, loaded, delivered, troubles>>
      /\ dir' = [dir EXCEPT ![p] = 1] /\ \E r \in Requests[p] : request' = [request EXCEPT ![p] = r]
  BY DEF Begin
<1>3. runs' \in [Procs -> 0..MaxRuns]
  <2>1. CASE p \in Forced
    BY <1>t, <2>1 DEF Begin
  <2>2. CASE p \notin Forced
    BY <1>t, <2>2, BoundsAssumption DEF Begin, BoundsAssumption
  <2> QED BY <2>1, <2>2
<1>4. /\ request' \in [Procs -> UNION {Requests[q] : q \in Procs}]
      /\ \A q \in Procs : request'[q] \in Requests[q]
  <2>0. PICK r \in Requests[p] : request' = [request EXCEPT ![p] = r]
    BY <1>2
  <2>1. /\ request \in [Procs -> UNION {Requests[q] : q \in Procs}]
        /\ \A q \in Procs : request[q] \in Requests[q]
    BY DEF IInv, TypeOK
  <2>3. r \in UNION {Requests[q] : q \in Procs}
    OBVIOUS
  <2>2. \A q \in Procs : request'[q] = request[q] \/ (q = p /\ request'[q] = r)
    BY <2>0, <2>1
  <2> QED BY <2>0, <2>1, <2>2, <2>3
<1>5. TypeOK' /\ DeliveredWasVerified' /\ Moves(p) /\ pc'[p] = x /\ dir'[p] = 1
  BY <1>t, <1>1, <1>2, <1>3, <1>4 DEF TypeOK, Points, Leased, DeliveredWasVerified, Moves, owned, work
<1>6. CASE p \in Setups
  BY <1>1, <1>2, <1>5, <1>6, LeavingStep DEF HoldsState, Leased, ProducerLeased
<1>7. CASE p \in Bundles
  <2>1. p \notin Setups
    BY <1>7, ProcsAssumption DEF ProcsAssumption
  <2>2. \A q \in Setups : HoldsState(q)' <=> HoldsState(q)
    BY <1>5, <2>1 DEF Moves, HoldsState, Procs
  <2>3. \A q \in Setups : pc'[q] = pc[q] /\ SetupAt(q)'
    BY <1>2, <1>5, <2>1, <2>2 DEF Moves, IInv, SetupAt, Procs, work
  <2>4. \A c \in Bundles : BundleAt(c)'
    BY <1>1, <1>2, <1>5, <2>1, <2>2 DEF Moves, IInv, BundleAt, Procs, work
  <2>5. QualifiedMeansVerified'
    BY <1>2 DEF IInv, QualifiedMeansVerified, work
  <2> QED BY <1>5, <2>3, <2>4, <2>5 DEF IInv
<1> QED BY <1>6, <1>7 DEF Procs

LEMMA TroubleSteps ==
  ASSUME IInv, NEW p \in Procs, Stop(p) \/ Error(p)
  PROVE  IInv'
<1> USE DEF At, Goto
<1>t. /\ pc \in [Procs -> Points] /\ TypeOK /\ DeliveredWasVerified /\ troubles \in 0..MaxTroubles
  BY DEF IInv, TypeOK
<1>1. /\ pc' = [pc EXCEPT ![p] = "idle"] /\ troubles < MaxTroubles /\ troubles' = troubles + 1
      /\ UNCHANGED <<owned, work, valid, dir, request, loaded, delivered, runs>>
  BY DEF Stop, Error, Trouble
<1>2. troubles' \in 0..MaxTroubles
  BY <1>t, <1>1, BoundsAssumption DEF BoundsAssumption
<1>3. TypeOK' /\ DeliveredWasVerified' /\ Moves(p) /\ pc'[p] = "idle"
  BY <1>t, <1>1, <1>2 DEF TypeOK, Points, DeliveredWasVerified, Moves, owned, work
<1>4. CASE p \in Setups
  BY <1>1, <1>3, <1>4, LeavingStep DEF HoldsState, Leased, ProducerLeased
<1>5. CASE p \in Bundles
  BY <1>1, <1>3, <1>5, BundleStep
<1> QED BY <1>4, <1>5 DEF Procs

LEMMA LoseInputsStep ==
  ASSUME IInv, LoseInputs
  PROVE  IInv'
<1>1. /\ valid' \subseteq Identities
      /\ UNCHANGED <<owned, work, pc, dir, request, loaded, delivered, runs>>
  BY DEF LoseInputs, IInv, TypeOK
<1>2. troubles' \in 0..MaxTroubles
  BY BoundsAssumption DEF BoundsAssumption, LoseInputs, Trouble, IInv, TypeOK
<1>3. TypeOK' /\ QualifiedMeansVerified' /\ DeliveredWasVerified'
  BY <1>1, <1>2 DEF IInv, TypeOK, QualifiedMeansVerified, DeliveredWasVerified, owned, work
<1>4. \A q \in Setups : SetupAt(q)' /\ (HoldsState(q)' <=> HoldsState(q))
  BY <1>1 DEF IInv, SetupAt, HoldsState, work
<1>5. \A b \in Bundles : BundleAt(b)'
  BY <1>1, <1>4 DEF IInv, BundleAt, work
<1> QED BY <1>3, <1>4, <1>5 DEF IInv

-----------------------------------------------------------------------------
(* The bundle command takes none of the steps of a setup.                  *)

LEMMA BundlesDoNotSetUp ==
  ASSUME IInv, NEW b \in Bundles, SetupStep(b)
  PROVE  FALSE
<1>1. pc[b] \in {"idle", "lease", "relock", "copy"} /\ b \notin Setups
  BY ProcsAssumption DEF IInv, BundleAt, ProcsAssumption
<1>2. ~(Own(b) \/ RefuseUnowned(b) \/ FindEmpty(b) \/ Claim(b) \/ WriteMarker(b)
        \/ Acquire(b) \/ WriteSelection(b) \/ RefuseSelection(b) \/ Withdraw(b))
  BY <1>1 DEF Own, RefuseUnowned, FindEmpty, Claim, WriteMarker, Acquire, WriteSelection,
              RefuseSelection, Withdraw, At
<1>3. ~(Rebuild(b) \/ Reuse(b) \/ Refresh(b) \/ RefuseState(b) \/ Build(b) \/ WriteLock(b)
        \/ RefuseLock(b) \/ Assemble(b) \/ RefuseInputs(b) \/ Unbind(b) \/ Bind(b))
  BY <1>1 DEF Rebuild, Reuse, Refresh, RefuseState, Build, WriteLock, RefuseLock, Assemble,
              RefuseInputs, Unbind, Bind, At
<1>4. ~(LeaseInputs(b) \/ ClearSmoke(b) \/ RefuseSmoke(b) \/ MarkSmoke(b) \/ Test(b)
        \/ Qualify(b) \/ Install(b) \/ RefuseInstall(b))
  BY <1>1 DEF LeaseInputs, ClearSmoke, RefuseSmoke, MarkSmoke, Test, Qualify, Install,
              RefuseInstall, At
<1> QED BY <1>2, <1>3, <1>4 DEF SetupStep

LEMMA StepIInv ==
  ASSUME IInv, NEW p \in Procs, Step(p)
  PROVE  IInv'
<1>1. CASE p \in Setups /\ SetupStep(p)
  BY <1>1, DirectorySteps, SelectionSteps, LookingSteps, RefreshStep, RebuildingSteps,
     QualifyStep, AcquireStep DEF SetupStep
<1>2. CASE p \in Bundles /\ SetupStep(p)
  BY <1>2, BundlesDoNotSetUp
<1>3. CASE Publish(p)
  BY <1>3, PublishStep
<1>4. CASE Load(p) \/ Relock(p)
  <2>1. p \in Bundles
    BY <1>4 DEF Load, Relock, At, IInv, SetupAt, Procs
  <2> QED BY <1>4, <2>1, BundleSteps
<1> QED BY <1>1, <1>2, <1>3, <1>4 DEF Step, Procs

LEMMA NextIInv == IInv /\ [Next]_vars => IInv'
<1> SUFFICES ASSUME IInv, [Next]_vars PROVE IInv'
  OBVIOUS
<1>1. ASSUME NEW p \in Procs, Begin(p) \/ Step(p) \/ Stop(p) \/ Error(p) PROVE IInv'
  BY <1>1, BeginStep, StepIInv, TroubleSteps
<1>2. CASE LoseInputs
  BY <1>2, LoseInputsStep
<1>3. CASE UNCHANGED vars
  BY <1>3 DEF vars, owned, work, IInv, TypeOK, QualifiedMeansVerified, DeliveredWasVerified,
              SetupAt, BundleAt, HoldsState
<1> QED BY <1>1, <1>2, <1>3 DEF Next

THEOREM IInvHolds == Spec => []IInv
BY InitIInv, NextIInv, PTL DEF Spec

-----------------------------------------------------------------------------
\* Every variable of the model keeps to its type.
THEOREM TypeCorrect == Spec => []TypeOK
<1>1. IInv => TypeOK
  BY DEF IInv
<1> QED BY <1>1, IInvHolds, PTL

\* A record is qualified only while the binding is the one that passed, for any
\* setups, releases, stops and errors.
THEOREM QualifiedIsVerified == Spec => []QualifiedMeansVerified
<1>1. IInv => QualifiedMeansVerified
  BY DEF IInv
<1> QED BY <1>1, IInvHolds, PTL

\* No installation and no bundle is made of a binding that has not passed.
THEOREM DeliveredIsVerified == Spec => []DeliveredWasVerified
<1>1. IInv => DeliveredWasVerified
  BY DEF IInv
<1> QED BY <1>1, IInvHolds, PTL

\* What setup.json says is never another selection.
THEOREM SelectionKept == Spec => SelectionIsKept
<1>1. Next => (config # None => config' = config)
  <2> SUFFICES ASSUME Next, config # None PROVE config' = config
    OBVIOUS
  <2> USE DEF owned, work, Refuse, UnchangedBut, Prepared
  <2>1. CASE LoseInputs
    BY <2>1 DEF LoseInputs
  <2>2. ASSUME NEW p \in Procs, Begin(p) \/ Stop(p) \/ Error(p) \/ Load(p) \/ Relock(p) \/ Publish(p)
        PROVE  config' = config
    BY <2>2 DEF Begin, Stop, Error, Load, Relock, Publish
  <2>3. ASSUME NEW p \in Procs,
               \/ Own(p) \/ RefuseUnowned(p) \/ FindEmpty(p) \/ Claim(p) \/ WriteMarker(p)
               \/ Acquire(p) \/ WriteSelection(p) \/ RefuseSelection(p) \/ Withdraw(p)
        PROVE  config' = config
    BY <2>3 DEF Own, RefuseUnowned, FindEmpty, Claim, WriteMarker, Acquire, WriteSelection,
                RefuseSelection, Withdraw
  <2>4. ASSUME NEW p \in Procs,
               \/ Rebuild(p) \/ Reuse(p) \/ Refresh(p) \/ RefuseState(p) \/ Build(p)
               \/ WriteLock(p) \/ RefuseLock(p) \/ Assemble(p) \/ RefuseInputs(p)
        PROVE  config' = config
    BY <2>4 DEF Rebuild, Reuse, Refresh, RefuseState, Build, WriteLock, RefuseLock, Assemble,
                RefuseInputs
  <2>5. ASSUME NEW p \in Procs,
               \/ Unbind(p) \/ Bind(p) \/ LeaseInputs(p) \/ ClearSmoke(p) \/ RefuseSmoke(p)
               \/ MarkSmoke(p) \/ Test(p) \/ Qualify(p) \/ Install(p) \/ RefuseInstall(p)
        PROVE  config' = config
    BY <2>5 DEF Unbind, Bind, LeaseInputs, ClearSmoke, RefuseSmoke, MarkSmoke, Test, Qualify,
                Install, RefuseInstall
  <2> QED BY <2>1, <2>2, <2>3, <2>4, <2>5 DEF Next, Step, SetupStep
<1>2. [Next]_vars => [config # None => config' = config]_vars
  BY <1>1
<1> QED BY <1>2, PTL DEF Spec, SelectionIsKept

-----------------------------------------------------------------------------
(* Why a setup with --force gives up.                                       *)

\* Where a setup has built its producers, and where the lock is its own.
Locked == {"assemble", "unbind", "bind", "leases", "smoke", "marker", "test", "qualify",
           "install"}
Built == {"lock"} \cup Locked

ForcedAt(p) ==
  /\ pc[p] = "lease" => owner["state"] # None
  /\ pc[p] \in Built /\ troubles = 0 => Inputs(p) \in valid
  /\ p \in Forced /\ pc[p] \in Locked => LockMatches(p)
  /\ p \in Forced /\ pc[p] = "install" => InputsMatch(p)

\* What a step of p leaves alone.
Spares(p) ==
  /\ \A q \in Procs \ {p} : pc'[q] = pc[q] /\ request'[q] = request[q]
  /\ owner["state"] # None => owner'["state"] # None
  /\ valid \subseteq valid' /\ (troubles' = 0 => troubles = 0)
  /\ UNCHANGED <<lockfile, record>> \/ (p \in Setups /\ pc[p] \in Leased)

LEMMA DirectoriesSpare ==
  ASSUME TypeOK, NEW p \in Setups,
         Own(p) \/ RefuseUnowned(p) \/ FindEmpty(p) \/ Claim(p) \/ WriteMarker(p)
  PROVE  Spares(p)
<1> USE DEF At, Goto, UnchangedBut, Refuse, owned, work
<1>1. /\ UNCHANGED <<config, work, valid, request, troubles>>
      /\ \E x : pc' = [pc EXCEPT ![p] = x]
      /\ UNCHANGED owner \/ \E y \in {Torn, "good"} : owner' = [owner EXCEPT ![Dir(p)] = y]
  <2>1. CASE Own(p)
    BY <2>1 DEF Own, Prepared
  <2>2. CASE RefuseUnowned(p)
    BY <2>2 DEF RefuseUnowned
  <2>3. CASE FindEmpty(p)
    BY <2>3 DEF FindEmpty
  <2>4. CASE Claim(p)
    BY <2>4 DEF Claim
  <2>5. CASE WriteMarker(p)
    BY <2>5 DEF WriteMarker, Prepared
  <2> QED BY <2>1, <2>2, <2>3, <2>4, <2>5
<1>2. owner["state"] # None => owner'["state"] # None
  BY <1>1 DEF TypeOK, None, Torn
<1>3. \A q \in Procs \ {p} : pc'[q] = pc[q]
  BY <1>1 DEF TypeOK
<1> QED BY <1>1, <1>2, <1>3 DEF Spares

LEMMA HolderSpares ==
  ASSUME TypeOK, NEW p \in Setups, pc[p] \in Leased, \E x : pc' = [pc EXCEPT ![p] = x],
         UNCHANGED <<owner, request, troubles>>, valid \subseteq valid'
  PROVE  Spares(p)
BY DEF Spares, TypeOK

LEMMA LookerSpares ==
  ASSUME TypeOK, NEW p \in Procs, \E x : pc' = [pc EXCEPT ![p] = x],
         UNCHANGED <<owner, lockfile, record, valid>>, troubles' = troubles \/ troubles' # 0,
         \A q \in Procs \ {p} : request'[q] = request[q]
  PROVE  Spares(p)
BY DEF Spares, TypeOK

\* What every step of a process spares.
LEMMA StepSpares ==
  ASSUME IInv, NEW p \in Procs, Begin(p) \/ Step(p) \/ Stop(p) \/ Error(p)
  PROVE  Spares(p)
<1> USE DEF At, Goto, UnchangedBut, Refuse, owned, work
<1>t. TypeOK /\ troubles \in Nat
  BY BoundsAssumption DEF IInv, TypeOK, BoundsAssumption
<1>1. CASE Begin(p)
  <2>1. \A q \in Procs \ {p} : request'[q] = request[q]
    BY <1>t, <1>1 DEF Begin, TypeOK
  <2>2. \E x : pc' = [pc EXCEPT ![p] = x]
    BY <1>1 DEF Begin
  <2>3. UNCHANGED <<owner, lockfile, record, valid, troubles>>
    BY <1>1 DEF Begin
  <2> QED BY <1>t, <2>1, <2>2, <2>3, LookerSpares
<1>2. CASE Stop(p) \/ Error(p)
  <2>1. troubles' # 0
    BY <1>t, <1>2 DEF Stop, Error, Trouble
  <2>2. (\E x : pc' = [pc EXCEPT ![p] = x]) /\ UNCHANGED <<owner, lockfile, record, valid, request>>
    BY <1>2 DEF Stop, Error
  <2> QED BY <1>t, <2>1, <2>2, LookerSpares
<1>3. CASE Publish(p) \/ Load(p) \/ Relock(p)
  <2>1. (\E x : pc' = [pc EXCEPT ![p] = x])
        /\ UNCHANGED <<owner, lockfile, record, valid, request, troubles>>
    BY <1>3 DEF Publish, Load, Relock
  <2> QED BY <1>t, <2>1, LookerSpares
<1>4. CASE SetupStep(p)
  <2>1. p \in Setups
    BY <1>4, BundlesDoNotSetUp DEF Procs
  <2>2. CASE Own(p) \/ RefuseUnowned(p) \/ FindEmpty(p) \/ Claim(p) \/ WriteMarker(p)
    BY <1>t, <2>1, <2>2, DirectoriesSpare
  <2>3. CASE \/ Acquire(p) \/ RefuseSelection(p) \/ Rebuild(p) \/ Reuse(p) \/ RefuseState(p)
             \/ RefuseLock(p) \/ Assemble(p) \/ RefuseInputs(p)
    <3>1. (\E x : pc' = [pc EXCEPT ![p] = x])
          /\ UNCHANGED <<owner, lockfile, record, valid, request, troubles>>
      BY <2>3 DEF Acquire, RefuseSelection, Rebuild, Reuse, RefuseState, RefuseLock, Assemble,
                  RefuseInputs
    <3> QED BY <1>t, <3>1, LookerSpares
  <2>4. CASE \/ LeaseInputs(p) \/ RefuseSmoke(p) \/ Install(p) \/ RefuseInstall(p)
    <3>1. (\E x : pc' = [pc EXCEPT ![p] = x])
          /\ UNCHANGED <<owner, lockfile, record, valid, request, troubles>>
      BY <2>4 DEF LeaseInputs, RefuseSmoke, Install, RefuseInstall
    <3> QED BY <1>t, <3>1, LookerSpares
  <2>5. CASE WriteSelection(p) \/ Withdraw(p) \/ Refresh(p) \/ Build(p) \/ WriteLock(p)
    <3>1. (\E x : pc' = [pc EXCEPT ![p] = x]) /\ pc[p] \in Leased
          /\ UNCHANGED <<owner, request, troubles>> /\ valid \subseteq valid'
      BY <2>5 DEF WriteSelection, Withdraw, Refresh, Build, WriteLock, Leased
    <3> QED BY <1>t, <2>1, <3>1, HolderSpares
  <2>6. CASE Unbind(p) \/ Bind(p) \/ ClearSmoke(p) \/ MarkSmoke(p) \/ Test(p) \/ Qualify(p)
    <3>1. (\E x : pc' = [pc EXCEPT ![p] = x]) /\ pc[p] \in Leased
          /\ UNCHANGED <<owner, request, troubles>> /\ valid \subseteq valid'
      BY <2>6 DEF Unbind, Bind, ClearSmoke, MarkSmoke, Test, Qualify, Leased, ProducerLeased
    <3> QED BY <1>t, <2>1, <3>1, HolderSpares
  <2> QED BY <1>4, <2>2, <2>3, <2>4, <2>5, <2>6 DEF SetupStep
<1> QED BY <1>1, <1>2, <1>3, <1>4 DEF Step

\* Another setup keeps what it has.
LEMMA OthersKeep ==
  ASSUME IInv, NEW p \in Procs, Spares(p), NEW q \in Setups, q # p, ForcedAt(q)
  PROVE  ForcedAt(q)'
<1>1. pc'[q] = pc[q] /\ request'[q] = request[q]
  BY DEF Spares, Procs
<1>2. pc[q] \in Locked => UNCHANGED <<lockfile, record>>
  <2>1. ASSUME pc[q] \in Locked, p \in Setups, pc[p] \in Leased PROVE FALSE
    BY <2>1 DEF Locked, Leased, ProducerLeased, HoldsState, IInv, SetupAt
  <2> QED BY <2>1 DEF Spares
<1>3. "install" \in Locked
  BY DEF Locked
<1> QED BY <1>1, <1>2, <1>3 DEF ForcedAt, Spares, Inputs, LockMatches, InputsMatch, Lock

LEMMA OwnForcedAt ==
  ASSUME IInv, NEW p \in Setups, ForcedAt(p), Begin(p) \/ Step(p) \/ Stop(p) \/ Error(p)
  PROVE  ForcedAt(p)'
<1> USE DEF At, Goto, UnchangedBut, Refuse, owned, work
<1>t. /\ pc \in [Procs -> Points] /\ p \in Procs /\ dir[p] \in 1..3 /\ record \in Records
      /\ owner \in [{"root", "state", "store"} -> {None, Torn, "good"}]
  BY DEF IInv, TypeOK, Procs
<1>s. Spares(p)
  BY <1>t, StepSpares
\* Where the setup has nothing to show.
<1>a. ASSUME pc'[p] \notin Built \cup {"lease"} PROVE ForcedAt(p)'
  BY <1>a DEF ForcedAt, Built, Locked
\* Where it keeps what it has shown.
<1>b. ASSUME pc[p] \in Built, pc'[p] \in Built, UNCHANGED <<request, lockfile, record>>,
             pc'[p] \in Locked => pc[p] \in Locked, pc'[p] # "install"
      PROVE  ForcedAt(p)'
  BY <1>b, <1>s DEF ForcedAt, Spares, Inputs, LockMatches, InputsMatch, Lock, Built, Locked
<1>1. CASE Own(p) \/ WriteMarker(p)
  <2>1. /\ pc' = [pc EXCEPT ![p] = AfterDir(p)] /\ owner'[Dir(p)] = "good"
    BY <1>t, <1>1 DEF Own, WriteMarker, Prepared, Dir, Dirs
  <2>2. AfterDir(p) \in {"check", "lease", "reuse"} /\ (AfterDir(p) = "lease" => dir[p] = 2)
    BY <1>t DEF AfterDir
  <2>3. dir[p] = 2 => Dir(p) = "state"
    BY DEF Dir, Dirs
  <2> QED BY <1>t, <2>1, <2>2, <2>3 DEF ForcedAt, Built, Locked, None
<1>2. CASE \/ RefuseUnowned(p) \/ FindEmpty(p) \/ Claim(p) \/ Acquire(p) \/ WriteSelection(p)
           \/ RefuseSelection(p) \/ Withdraw(p) \/ Rebuild(p) \/ Refresh(p) \/ RefuseState(p)
           \/ RefuseLock(p) \/ RefuseInputs(p) \/ RefuseSmoke(p) \/ Install(p) \/ RefuseInstall(p)
  <2>1. pc'[p] \in {"idle", "claim", "write", "config", "withdraw", "check", "build", "publish"}
    BY <1>t, <1>2 DEF RefuseUnowned, FindEmpty, Claim, Acquire, WriteSelection, RefuseSelection,
       Withdraw, Rebuild, Refresh, RefuseState, RefuseLock, RefuseInputs, RefuseSmoke, Install,
       RefuseInstall
  <2> QED BY <1>a, <2>1 DEF Built, Locked
<1>3. CASE Begin(p) \/ Stop(p) \/ Error(p) \/ Publish(p)
  <2>1. pc'[p] \in {"idle", "check"}
    BY <1>t, <1>3, ProcsAssumption DEF Begin, Stop, Error, Publish, ProcsAssumption
  <2> QED BY <1>a, <2>1 DEF Built, Locked
<1>4. CASE Reuse(p)
  <2>1. /\ p \notin Forced /\ (record.qualified => Inputs(p) \in valid)
        /\ UNCHANGED <<valid, request>>
        /\ pc'[p] = (IF record.qualified THEN "install" ELSE "build")
    BY <1>t, <1>4 DEF Reuse
  <2> QED BY <2>1 DEF ForcedAt, Inputs, Built, Locked
<1>5. CASE Build(p)
  <2>1. Inputs(p) \in valid' /\ pc'[p] = "lock" /\ UNCHANGED request
    BY <1>t, <1>5 DEF Build
  <2> QED BY <2>1 DEF ForcedAt, Inputs, Locked
<1>6. CASE WriteLock(p)
  <2>1. /\ lockfile' = Lock(p) /\ pc[p] = "lock" /\ pc'[p] = "assemble" /\ UNCHANGED request
    BY <1>t, <1>6 DEF WriteLock
  <2> QED BY <1>s, <2>1 DEF ForcedAt, Spares, Inputs, LockMatches, Lock, Built, Locked
<1>7. CASE \/ Assemble(p) \/ Unbind(p) \/ Bind(p) \/ LeaseInputs(p) \/ ClearSmoke(p)
           \/ MarkSmoke(p) \/ Test(p)
  <2>1. /\ pc[p] \in Locked /\ pc'[p] \in Locked \ {"install"}
        /\ UNCHANGED <<request, lockfile, record>>
    BY <1>t, <1>7 DEF Assemble, Unbind, Bind, LeaseInputs, ClearSmoke, MarkSmoke, Test, Locked
  <2> QED BY <1>b, <2>1 DEF Built
<1>8. CASE Qualify(p)
  <2>1. /\ pc[p] = "qualify" /\ pc'[p] = "install" /\ UNCHANGED <<request, lockfile>>
        /\ record' = [inputs |-> Inputs(p), qualified |-> TRUE]
    BY <1>t, <1>8 DEF Qualify
  <2> QED BY <1>s, <2>1 DEF ForcedAt, Spares, Inputs, LockMatches, InputsMatch, Lock, Built, Locked
<1>9. CASE Load(p) \/ Relock(p)
  BY <1>9, ProcsAssumption DEF Load, Relock, ProcsAssumption, IInv, SetupAt
<1> QED BY <1>1, <1>2, <1>3, <1>4, <1>5, <1>6, <1>7, <1>8, <1>9 DEF Step, SetupStep

ForcedInv == IInv /\ \A p \in Setups : ForcedAt(p)

LEMMA InitForcedInv == Init => ForcedInv
BY InitIInv DEF Init, ForcedInv, ForcedAt, Built, Locked, Procs

LEMMA NextForcedInv == ForcedInv /\ [Next]_vars => ForcedInv'
<1> SUFFICES ASSUME ForcedInv, [Next]_vars PROVE \A q \in Setups : ForcedAt(q)'
  BY NextIInv DEF ForcedInv
<1> TAKE q \in Setups
<1>t. IInv /\ ForcedAt(q)
  BY DEF ForcedInv
<1>1. ASSUME NEW p \in Procs, Begin(p) \/ Step(p) \/ Stop(p) \/ Error(p) PROVE ForcedAt(q)'
  <2>1. CASE p = q
    BY <1>t, <1>1, <2>1, OwnForcedAt
  <2>2. CASE p # q
    BY <1>t, <1>1, <2>2, StepSpares, OthersKeep
  <2> QED BY <2>1, <2>2
<1>2. CASE LoseInputs
  <2>1. troubles' # 0
    BY <1>2, BoundsAssumption DEF BoundsAssumption, LoseInputs, Trouble, IInv, ForcedInv, TypeOK
  <2>2. UNCHANGED <<owner, lockfile, record, pc, request>>
    BY <1>2 DEF LoseInputs, owned, work
  <2> QED BY <1>t, <2>1, <2>2 DEF ForcedAt, LockMatches, InputsMatch, Lock, Inputs
<1>3. CASE UNCHANGED vars
  BY <1>t, <1>3 DEF vars, owned, work, ForcedAt, LockMatches, InputsMatch, Lock, Inputs
<1> QED BY <1>1, <1>2, <1>3 DEF Next

\* The last step of a forced setup that gives up.
LEMMA GivingUp ==
  ASSUME ForcedInv, NEW p \in Forced, Step(p), pc[p] \notin {"idle", "publish"}, pc'[p] = "idle"
  PROVE  Wreck(p)' \/ (Inputs(p) \notin valid /\ troubles > 0)
<1> USE DEF At, Goto, UnchangedBut, Refuse, owned, work
<1>t. /\ p \in Setups /\ p \in Procs /\ IInv /\ ForcedAt(p) /\ SetupAt(p)
      /\ pc \in [Procs -> Points] /\ dir[p] \in 1..3 /\ troubles \in Nat
      /\ owner \in [{"root", "state", "store"} -> {None, Torn, "good"}]
  BY ProcsAssumption, BoundsAssumption
     DEF ForcedInv, IInv, TypeOK, Procs, ProcsAssumption, BoundsAssumption
<1>1. \/ RefuseUnowned(p) \/ Acquire(p) \/ RefuseSelection(p) \/ RefuseInputs(p)
      \/ RefuseSmoke(p) \/ RefuseInstall(p)
  <2>1. ~(Own(p) \/ WriteMarker(p))
    <3>1. Own(p) \/ WriteMarker(p) => pc'[p] = AfterDir(p)
      BY <1>t DEF Own, WriteMarker, Prepared
    <3>2. AfterDir(p) \in {"check", "lease", "reuse"}
      BY <1>t DEF AfterDir
    <3> QED BY <3>1, <3>2
  <2>2. ~(FindEmpty(p) \/ Claim(p) \/ WriteSelection(p) \/ Withdraw(p)
          \/ Rebuild(p) \/ Reuse(p) \/ Refresh(p) \/ RefuseState(p) \/ RefuseLock(p))
    BY <1>t DEF FindEmpty, Claim, WriteSelection, Withdraw, Rebuild, Reuse, Refresh, RefuseState,
       RefuseLock
  <2>3. ~(Build(p) \/ WriteLock(p) \/ Assemble(p) \/ Unbind(p) \/ Bind(p) \/ LeaseInputs(p)
          \/ ClearSmoke(p) \/ MarkSmoke(p) \/ Test(p) \/ Qualify(p) \/ Install(p))
    BY <1>t DEF Build, WriteLock, Assemble, Unbind, Bind, LeaseInputs, ClearSmoke, MarkSmoke,
       Test, Qualify, Install
  <2>4. ~(Load(p) \/ Relock(p) \/ Publish(p))
    BY <1>t, ProcsAssumption DEF Load, Relock, Publish, ProcsAssumption, SetupAt
  <2> QED BY <2>1, <2>2, <2>3, <2>4 DEF Step, SetupStep
<1>2. CASE RefuseUnowned(p)
  <2>1. owner'[Dir(p)] = Torn /\ Dir(p) \in DOMAIN owner' 
    BY <1>t, <1>2 DEF RefuseUnowned, Dir, Dirs
  <2> QED BY <2>1 DEF Wreck
<1>3. CASE Acquire(p)
  <2>1. owner'["state"] = Torn /\ "state" \in DOMAIN owner'
    BY <1>t, <1>3 DEF Acquire, ForcedAt
  <2> QED BY <2>1 DEF Wreck
<1>4. CASE RefuseSelection(p)
  BY <1>4 DEF RefuseSelection, Wreck, Selection
<1>5. CASE RefuseInputs(p)
  BY <1>t, <1>5 DEF RefuseInputs, ForcedAt, Built, Locked
<1>6. CASE RefuseSmoke(p)
  <2>1. HoldsState(p) /\ Moves(p) /\ ~HoldsState(p)'
    BY <1>t, <1>6 DEF RefuseSmoke, HoldsState, Leased, ProducerLeased, Moves
  <2>2. ~SetupAtWork'
    BY <1>t, <2>1, HolderIsAlone DEF SetupAtWork
  <2>3. marker' \notin {None, Project(p)'}
    BY <1>6 DEF RefuseSmoke, Project
  <2> QED BY <2>2, <2>3 DEF Wreck
<1>7. CASE RefuseInstall(p)
  <2>1. pc[p] = "install" /\ ~Leasable(p)
    BY <1>7 DEF RefuseInstall
  <2>2. LockMatches(p) /\ InputsMatch(p)
    BY <1>t, <2>1 DEF ForcedAt, Locked
  <2>3. StateIsWhole
    BY <1>t, <2>1 DEF SetupAt, IInv, QualifiedMeansVerified, StateIsWhole, None
  <2> QED BY <1>t, <2>1, <2>2, <2>3 DEF Leasable, ForcedAt, Built, Locked
<1> QED BY <1>1, <1>2, <1>3, <1>4, <1>5, <1>6, <1>7

\* A forced setup ends with an installation unless it is stopped, fails, meets a wreck
\* or is robbed of its producers, whatever other setups, releases and stops have left.
THEOREM ForcedRefusals == Spec => ForcedRefusedForACause
<1>1. ForcedInv /\ [Next]_vars =>
        [\A p \in Forced :
           pc[p] \notin {"idle", "publish"} /\ pc'[p] = "idle" /\ troubles' = troubles =>
             \/ Wreck(p)'
             \/ Inputs(p) \notin valid /\ troubles > 0]_vars
  <2> SUFFICES ASSUME ForcedInv, Next, NEW p \in Forced,
                      pc[p] \notin {"idle", "publish"}, pc'[p] = "idle", troubles' = troubles
               PROVE  Wreck(p)' \/ (Inputs(p) \notin valid /\ troubles > 0)
    OBVIOUS
  <2>t. /\ p \in Procs /\ pc \in [Procs -> Points] /\ troubles \in Nat
    BY ProcsAssumption, BoundsAssumption
       DEF ForcedInv, IInv, TypeOK, Procs, ProcsAssumption, BoundsAssumption
  <2>1. ~LoseInputs
    BY <2>t DEF LoseInputs
  <2>2. PICK q \in Procs : Begin(q) \/ Step(q) \/ Stop(q) \/ Error(q)
    BY <2>1 DEF Next
  <2>3. q = p
    BY <2>2, <2>t, StepSpares DEF ForcedInv, Spares
  <2>4. ~Begin(p) /\ ~Stop(p) /\ ~Error(p)
    BY <2>t DEF Begin, Stop, Error, Trouble, At
  <2> QED BY <2>2, <2>3, <2>4, GivingUp
<1> QED BY <1>1, InitForcedInv, NextForcedInv, PTL DEF Spec, ForcedRefusedForACause

=============================================================================
