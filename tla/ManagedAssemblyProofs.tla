------------------------ MODULE ManagedAssemblyProofs ------------------------
(***************************************************************************)
(* For any kits, runtimes and requests, any points to stop at and any        *)
(* bounds: the types of ManagedAssembly, what it builds, what it keeps, what *)
(* it binds, and when it gives up.                                           *)
(*                                                                           *)
(* The builds of a plan fit what is in the store and do not touch each       *)
(* other's artifacts, and so go on fitting while they are carried out (Inv). *)
(* An attempt can stumble only over a workspace of another kind or over a    *)
(* runtime that no build makes (BuildsCanGo, RuntimesCome); without stops    *)
(* and damage every workspace is as its rendering left it (Tidy).            *)
(*                                                                           *)
(* The plan is the one that plan_assembly's loops collect: after any number  *)
(* of runtimes a loop has planned what the set says for those (Goes), by     *)
(* induction over that number.                                               *)
(***************************************************************************)
EXTENDS AssemblyLoops, FiniteSetTheorems, SequenceTheorems, TLAPS

-----------------------------------------------------------------------------
(* The inductive invariant.                                                *)

Sides(b) == {b.compiler, b.runtime} \ {None}
SideMode(b, a) == IF a = b.compiler THEN b.cmode ELSE b.rmode

\* A mode that goes with the artifact as it is now.
Fits(a, mode) ==
  /\ mode = "create" => artifact[a] = "none"
  /\ mode = "preserve" => artifact[a] = "valid"
  /\ mode = "rebuild" /\ ~request.rebuild => artifact[a] # "valid"

\* The artifact once its workspace is ready for the container.
Prepared(a, mode) == artifact[a] = IF mode = "preserve" THEN "valid" ELSE "none"

\* A build with a side, and with one that it makes.
Sensible(b) ==
  /\ b.compiler # None \/ b.runtime # None
  /\ b.compiler = None => b.rmode # "preserve"
  /\ b.runtime = None => b.cmode # "preserve"
Makes(b, a) == a \in Sides(b) /\ SideMode(b, a) # "preserve"

Rendering == {"clearing", "marked", "open"}
Building == Rendering \cup {"compiler", "runtime", "compile", "finish_compiler", "finish_runtime"}
Ending == {"publish", "swap", "bind"}
Busy == pc \in Building \cup Ending \cup {"next"}

WorkspacesHold == \A a \in Artifacts : workspace[a] = "none" => artifact[a] = "none"

\* The builds that are left fit, and no two of them touch one artifact.
PlanFits ==
  Busy =>
    /\ \A b \in builds : Sensible(b) /\ \A a \in Sides(b) : Fits(a, SideMode(b, a))
    /\ \A b, c \in builds : b # c => Sides(b) \cap Sides(c) = {}
    /\ pc \in Building =>
         Sensible(build) /\ \A b \in builds : Sides(b) \cap Sides(build) = {}
    /\ pc \in Ending => builds = {}

RuntimeToCome ==
  \/ pc \in {"compiler", "runtime"}
  \/ pc \in Rendering /\ target = build.compiler
CompilerDone ==
  \/ pc \in {"runtime", "compile", "finish_compiler"}
  \/ pc \in Rendering /\ target # build.compiler

\* How far the workspaces of the current build are.
BuildFits ==
  /\ pc = "compiler" => build.compiler # None /\ Fits(build.compiler, build.cmode)
  /\ pc = "runtime" => build.runtime # None
  /\ RuntimeToCome /\ build.runtime # None => Fits(build.runtime, build.rmode)
  /\ CompilerDone /\ build.compiler # None => Prepared(build.compiler, build.cmode)
  /\ pc \in {"compile", "finish_compiler"} /\ build.runtime # None =>
       Prepared(build.runtime, build.rmode)
  /\ pc \in Rendering => Makes(build, target)
  /\ pc = "clearing" =>
       SideMode(build, target) = "rebuild" /\ (~request.rebuild => artifact[target] # "valid")
  /\ pc \in {"marked", "open"} => artifact[target] = "none"
  /\ pc = "finish_compiler" =>
       /\ build.compiler # None /\ build.cmode # "preserve"
       /\ \A a \in Sides(build) : workspace[a] # "none"
  /\ pc = "finish_runtime" =>
       /\ build.runtime # None /\ build.rmode # "preserve"
       /\ artifact[build.runtime] = "none" /\ workspace[build.runtime] # "none"

\* The kit is there or some build makes it.
KitComes ==
  Busy =>
    \/ artifact[request.kit] = "valid"
    \/ \E b \in builds : Makes(b, request.kit)
    \/ pc \in Building \ {"finish_runtime"} /\ Makes(build, request.kit)

\* The publications that are kept, and those that are not.
PublicationsFit ==
  Busy =>
    /\ \A r \in request.runtimes \ unpublished :
         /\ publication[r] # "none"
         /\ request.rebuild \/ request.repair => publication[r] = "valid"
    /\ ~request.rebuild => \A r \in unpublished : publication[r] # "valid"
    /\ pc = "swap" => target \in unpublished
    /\ pc = "bind" => unpublished = {}

Inv == TypeOK /\ WorkspacesHold /\ PlanFits /\ BuildFits /\ KitComes /\ PublicationsFit
-----------------------------------------------------------------------------
(* Proofs about the plan.                                                  *)

\* A disposition is one of three, and its mode one of three.
LEMMA DispositionTypes ==
  ASSUME TypeOK, NEW a
  PROVE  /\ Disposition(a) \in {"reuse", "rebuild", "build"}
         /\ RuntimeDisposition(a) \in {"reuse", "rebuild", "build"}
         /\ Mode(Disposition(a)) \in Modes
         /\ Mode(RuntimeDisposition(a)) \in Modes
BY DEF Disposition, RuntimeDisposition, Mode, Modes

\* The builds a plan consists of.
LEMMA PlanKinds ==
  ASSUME TypeOK, NEW b \in PlanAssembly
  PROVE  \/ \E r \in SelectedPairs : b = Paired(request.kit, r, 1)
         \/ SelectedPairs = {} /\ Disposition(request.kit) # "reuse" /\ b = Alone(request.kit, 2)
         \/ \E r \in ProviderPairs : b = Paired(Provider[r], r, 3)
         \/ \E r \in SingleRuntimes : b = RuntimeAlone(r, 4)
BY DEF PlanAssembly

LEMMA PlanTypes ==
  ASSUME TypeOK
  PROVE  PlanAssembly \subseteq BuildRecords
<1> SUFFICES ASSUME NEW b \in PlanAssembly PROVE b \in BuildRecords
  OBVIOUS
<1>1. request.kit \in Kits /\ request.runtimes \subseteq Runtimes
  BY RequestsAssumption DEF TypeOK
<1>2. \A r \in Runtimes : Provider[r] \in Kits
  BY ArtifactsAssumption
<1>3. SelectedPairs \cup ProviderPairs \cup SingleRuntimes \subseteq Runtimes
  BY <1>1 DEF SelectedPairs, ProviderPairs, SingleRuntimes
<1>4. ASSUME NEW k \in Kits, NEW r \in Runtimes \cup {None}, NEW stage \in 0 .. 4
      PROVE  /\ Paired(k, r, stage) \in BuildRecords
             /\ Alone(k, stage) \in BuildRecords
             /\ RuntimeAlone(r, stage) \in BuildRecords
  <2>1. ASSUME NEW x \in Kits \cup {None}, NEW y \in Runtimes \cup {None},
               NEW m \in Modes, NEW n \in Modes
        PROVE  [compiler |-> x, cmode |-> m, runtime |-> y, rmode |-> n, stage |-> stage]
                 \in BuildRecords
    BY DEF BuildRecords
  <2>2. Mode(Disposition(k)) \in Modes /\ Mode(RuntimeDisposition(r)) \in Modes
    BY DispositionTypes
  <2>3. "create" \in Modes /\ k \in Kits \cup {None}
    BY DEF Modes
  <2>4. None \in Kits \cup {None} /\ None \in Runtimes \cup {None}
    OBVIOUS
  <2>5. Paired(k, r, stage) \in BuildRecords
    BY <2>1, <2>2, <2>3, Zenon DEF Paired
  <2>6. Alone(k, stage) \in BuildRecords
    BY <2>1, <2>2, <2>3, <2>4, Zenon DEF Alone
  <2>7. RuntimeAlone(r, stage) \in BuildRecords
    BY <2>1, <2>2, <2>3, <2>4, Zenon DEF RuntimeAlone
  <2> QED
    BY <2>5, <2>6, <2>7
<1>5. CASE \E r \in SelectedPairs : b = Paired(request.kit, r, 1)
  <2> PICK r \in SelectedPairs : b = Paired(request.kit, r, 1)
    BY <1>5
  <2> QED
    BY <1>1, <1>3, <1>4
<1>6. CASE b = Alone(request.kit, 2)
  BY <1>1, <1>4, <1>6
<1>7. CASE \E r \in ProviderPairs : b = Paired(Provider[r], r, 3)
  <2> PICK r \in ProviderPairs : b = Paired(Provider[r], r, 3)
    BY <1>7
  <2> QED
    BY <1>2, <1>3, <1>4
<1>8. CASE \E r \in SingleRuntimes : b = RuntimeAlone(r, 4)
  <2> PICK r \in SingleRuntimes : b = RuntimeAlone(r, 4)
    BY <1>8
  <2> QED
    BY <1>1, <1>2, <1>3, <1>4
<1> QED
  BY <1>5, <1>6, <1>7, <1>8, PlanKinds

LEMMA NoBuildType == NoBuild \in BuildRecords
BY DEF NoBuild, BuildRecords, Modes

-----------------------------------------------------------------------------
(* Types.                                                                  *)

LEMMA TypeStep ==
  ASSUME TypeOK, [Next]_vars
  PROVE  TypeOK'
<1> USE DEF TypeOK, store, plan, counts, Goto, End, NoPlan, At, Owned
<1>1. ASSUME NEW q \in Requests, Begin(q) PROVE TypeOK'
  BY <1>1 DEF Begin, Points
<1>2. CASE RefuseInvalid
  BY <1>2, NoBuildType DEF RefuseInvalid, Points, Refusals
<1>3. CASE Discover
  BY <1>3, PlanTypes, RequestsAssumption DEF Discover, Points
<1>4. ASSUME NEW b \in builds, NextBuild(b) PROVE TypeOK'
  BY <1>4 DEF NextBuild, Points
<1>5. ASSUME NEW a \in Artifacts, Resume(a) PROVE TypeOK'
  BY <1>5 DEF Resume, Points, After
<1>6. ASSUME NEW a \in Artifacts, RefuseRender(a) PROVE TypeOK'
  BY <1>6, NoBuildType DEF RefuseRender, Points, Refusals
<1>7. ASSUME NEW a \in Artifacts, Clear(a) PROVE TypeOK'
  BY <1>7 DEF Clear, Points
<1>8. ASSUME NEW a \in Artifacts, Mark(a) PROVE TypeOK'
  BY <1>8 DEF Mark, Points
<1>9. CASE OpenManifest
  BY <1>9 DEF OpenManifest, Points
<1>10. CASE Rendered
  BY <1>10 DEF Rendered, Points, After
<1>11. CASE RefuseBuild
  BY <1>11, NoBuildType DEF RefuseBuild, Points, Refusals
<1>12. CASE Compile
  BY <1>12 DEF Compile, Points
<1>13. CASE FinishCompiler
  BY <1>13 DEF FinishCompiler, Points
<1>14. CASE FinishRuntime
  BY <1>14 DEF FinishRuntime, Points
<1>15. CASE EndBuilds
  BY <1>15 DEF EndBuilds, Points
<1>16. ASSUME NEW r \in unpublished, SetAside(r) PROVE TypeOK'
  BY <1>16, NoBuildType DEF SetAside, Points, Refusals, Artifacts
<1>17. CASE Publish
  BY <1>17 DEF Publish, Points
<1>18. CASE EndPublish
  BY <1>18 DEF EndPublish, Points
<1>19. CASE Bind
  BY <1>19, NoBuildType DEF Bind, Points, Refusals
<1>20. CASE Stop
  BY <1>20, NoBuildType, BoundsAssumption DEF Stop, Points
<1>21. CASE Damage
  BY <1>21, BoundsAssumption DEF Damage
<1>22. CASE UNCHANGED vars
  BY <1>22 DEF vars
<1> QED
  BY <1>1, <1>2, <1>3, <1>4, <1>5, <1>6, <1>7, <1>8, <1>9, <1>10, <1>11, <1>12, <1>13,
     <1>14, <1>15, <1>16, <1>17, <1>18, <1>19, <1>20, <1>21, <1>22
  DEF Next, Attempt

-----------------------------------------------------------------------------
(* What a plan promises.                                                   *)

\* A fresh disposition fits the artifact it was taken of.
LEMMA DispositionFits ==
  ASSUME TypeOK, NEW a \in Artifacts
  PROVE  Fits(a, Mode(Disposition(a)))
BY DEF TypeOK, Fits, Mode, Disposition

\* Where a runtime is built, its publication is not ready.
LEMMA RuntimeFits ==
  ASSUME TypeOK, NEW r \in Runtimes, ~PublicationReady(r)
  PROVE  Fits(r, Mode(RuntimeDisposition(r)))
BY DispositionFits DEF RuntimeDisposition, Artifacts

LEMMA NotPreserved ==
  ASSUME NEW d \in {"rebuild", "build"}
  PROVE  Mode(d) # "preserve"
BY DEF Mode

\* One fact for each kind of build.
LEMMA PlanKindsFit ==
  ASSUME TypeOK, NEW b \in PlanAssembly
  PROVE  /\ b.compiler \in Kits \cup {None} /\ b.runtime \in Runtimes \cup {None}
         /\ Sensible(b)
         /\ b.compiler # None => Fits(b.compiler, b.cmode)
         /\ b.runtime # None => Fits(b.runtime, b.rmode)
<1>1. request.kit \in Kits /\ request.runtimes \subseteq Runtimes
  BY RequestsAssumption DEF TypeOK
<1>2. \A r \in Runtimes : Provider[r] \in Kits
  BY ArtifactsAssumption
<1>3. None \notin Kits /\ None \notin Runtimes
  BY ArtifactsAssumption DEF Artifacts
<1>4. \A k \in Kits : Fits(k, Mode(Disposition(k)))
  BY DispositionFits DEF Artifacts
<1>5. \A r \in SelectedPairs \cup ProviderPairs \cup SingleRuntimes :
        r \in Runtimes /\ Fits(r, Mode(RuntimeDisposition(r)))
  BY <1>1, RuntimeFits
  DEF SelectedPairs, ProviderPairs, SingleRuntimes, RuntimeDisposition
<1>6. CASE \E r \in SelectedPairs : b = Paired(request.kit, r, 1)
  <2> PICK r \in SelectedPairs : b = Paired(request.kit, r, 1)
    BY <1>6
  <2>1. /\ b.compiler = request.kit /\ b.cmode = Mode(Disposition(request.kit))
        /\ b.runtime = r /\ b.rmode = Mode(RuntimeDisposition(r))
    BY DEF Paired
  <2> QED
    BY <2>1, <1>1, <1>3, <1>4, <1>5 DEF Sensible
<1>7. CASE Disposition(request.kit) # "reuse" /\ b = Alone(request.kit, 2)
  <2>1. /\ b.compiler = request.kit /\ b.cmode = Mode(Disposition(request.kit))
        /\ b.runtime = None
    BY <1>7 DEF Alone
  <2>2. b.cmode # "preserve"
    BY <2>1, <1>7, DispositionTypes, NotPreserved
  <2> QED
    BY <2>1, <2>2, <1>1, <1>3, <1>4 DEF Sensible
<1>8. CASE \E r \in ProviderPairs : b = Paired(Provider[r], r, 3)
  <2> PICK r \in ProviderPairs : b = Paired(Provider[r], r, 3)
    BY <1>8
  <2>1. /\ b.compiler = Provider[r] /\ b.cmode = Mode(Disposition(Provider[r]))
        /\ b.runtime = r /\ b.rmode = Mode(RuntimeDisposition(r))
    BY DEF Paired
  <2> QED
    BY <2>1, <1>2, <1>3, <1>4, <1>5 DEF Sensible
<1>9. CASE \E r \in SingleRuntimes : b = RuntimeAlone(r, 4)
  <2> PICK r \in SingleRuntimes : b = RuntimeAlone(r, 4)
    BY <1>9
  <2>1. /\ b.compiler = None /\ b.runtime = r /\ b.rmode = Mode(RuntimeDisposition(r))
    BY DEF RuntimeAlone
  <2>2. b.rmode # "preserve"
    BY <2>1, DispositionTypes, NotPreserved DEF SingleRuntimes
  <2> QED
    BY <2>1, <2>2, <1>3, <1>5 DEF Sensible
<1> QED
  BY <1>6, <1>7, <1>8, <1>9, PlanKinds

\* No two builds of a plan are of one runtime.
LEMMA RuntimesOnce ==
  ASSUME TypeOK, NEW b \in PlanAssembly, NEW c \in PlanAssembly,
         b.runtime # None, b.runtime = c.runtime
  PROVE  b = c
<1> DEFINE Of(r) == IF r \in SelectedPairs THEN Paired(request.kit, r, 1)
                    ELSE IF r \in ProviderPairs THEN Paired(Provider[r], r, 3)
                    ELSE RuntimeAlone(r, 4)
<1>1. ASSUME NEW d \in PlanAssembly, d.runtime # None
      PROVE  d = Of(d.runtime)
  <2>1. CASE \E r \in SelectedPairs : d = Paired(request.kit, r, 1)
    BY <2>1 DEF Paired
  <2>2. CASE d = Alone(request.kit, 2)
    BY <2>2, <1>1 DEF Alone
  <2>3. CASE \E r \in ProviderPairs : d = Paired(Provider[r], r, 3)
    <3> PICK r \in ProviderPairs : d = Paired(Provider[r], r, 3)
      BY <2>3
    <3>1. d.runtime = r
      BY DEF Paired
    <3>2. r \notin SelectedPairs
      BY DEF SelectedPairs, ProviderPairs
    <3> QED
      BY <3>1, <3>2
  <2>4. CASE \E r \in SingleRuntimes : d = RuntimeAlone(r, 4)
    <3> PICK r \in SingleRuntimes : d = RuntimeAlone(r, 4)
      BY <2>4
    <3>1. d.runtime = r
      BY DEF RuntimeAlone
    <3>2. r \notin SelectedPairs /\ r \notin ProviderPairs
      BY DEF SingleRuntimes
    <3> QED
      BY <3>1, <3>2
  <2> QED
    BY <2>1, <2>2, <2>3, <2>4, PlanKinds
<1> HIDE DEF Of
<1> QED
  BY <1>1

\* No two builds of a plan are of one kit.
LEMMA KitsOnce ==
  ASSUME TypeOK, NEW b \in PlanAssembly, NEW c \in PlanAssembly,
         b.compiler # None, b.compiler = c.compiler
  PROVE  b = c
<1>1. request \in Requests
  BY DEF TypeOK
<1>2. \A r, s \in request.runtimes : Provider[r] = Provider[s] => r = s
  BY <1>1, RequestsAssumption
<1>3. ASSUME NEW d \in PlanAssembly, d.compiler # None
      PROVE  \/ \E r \in SelectedPairs :
                  d = Paired(request.kit, r, 1) /\ d.compiler = request.kit
             \/ SelectedPairs = {} /\ d = Alone(request.kit, 2) /\ d.compiler = request.kit
             \/ \E r \in ProviderPairs :
                  d = Paired(Provider[r], r, 3) /\ d.compiler = Provider[r]
  <2>1. \A k, r, stage : Paired(k, r, stage).compiler = k
    BY DEF Paired
  <2>2. \A k, stage : Alone(k, stage).compiler = k
    BY DEF Alone
  <2>3. \A r, stage : RuntimeAlone(r, stage).compiler = None
    BY DEF RuntimeAlone
  <2> QED
    BY <1>3, <2>1, <2>2, <2>3, PlanKinds
<1>4. \A r \in SelectedPairs : r \in request.runtimes /\ Provider[r] = request.kit
  BY DEF SelectedPairs
<1>5. \A r \in ProviderPairs : r \in request.runtimes /\ Provider[r] # request.kit
  BY DEF ProviderPairs
<1>6. CASE b.compiler = request.kit
  <2>1. ASSUME NEW d \in PlanAssembly, d.compiler = request.kit, d.compiler # None
        PROVE  \/ \E r \in SelectedPairs : d = Paired(request.kit, r, 1)
               \/ SelectedPairs = {} /\ d = Alone(request.kit, 2)
    BY <2>1, <1>3, <1>5
  <2>2. \A r, s \in SelectedPairs : r = s
    BY <1>2, <1>4
  <2> QED
    BY <1>6, <2>1, <2>2
<1>7. CASE b.compiler # request.kit
  <2>1. ASSUME NEW d \in PlanAssembly, d.compiler # request.kit, d.compiler # None
        PROVE  \E r \in ProviderPairs :
                 d = Paired(Provider[r], r, 3) /\ d.compiler = Provider[r]
    BY <2>1, <1>3
  <2>2. PICK r \in ProviderPairs : b = Paired(Provider[r], r, 3) /\ b.compiler = Provider[r]
    BY <1>7, <2>1
  <2>3. PICK s \in ProviderPairs : c = Paired(Provider[s], s, 3) /\ c.compiler = Provider[s]
    BY <1>7, <2>1
  <2>4. r = s
    BY <2>2, <2>3, <1>2, <1>5
  <2> QED
    BY <2>2, <2>3, <2>4
<1> QED
  BY <1>6, <1>7

\* The selected kit is there or planned.
LEMMA KitPlanned ==
  ASSUME TypeOK
  PROVE  artifact[request.kit] = "valid" \/ \E b \in PlanAssembly : Makes(b, request.kit)
<1> SUFFICES ASSUME artifact[request.kit] # "valid"
             PROVE  \E b \in PlanAssembly : Makes(b, request.kit)
  OBVIOUS
<1>1. Disposition(request.kit) \in {"rebuild", "build"}
  BY DEF Disposition
<1>2. Mode(Disposition(request.kit)) # "preserve"
  BY <1>1, NotPreserved
<1>3. request.kit # None
  BY ArtifactsAssumption, RequestsAssumption DEF TypeOK, Artifacts
<1>4. CASE SelectedPairs = {}
  <2>1. Alone(request.kit, 2) \in PlanAssembly
    BY <1>1, <1>4 DEF PlanAssembly
  <2>2. Makes(Alone(request.kit, 2), request.kit)
    BY <1>2, <1>3 DEF Makes, Alone, Sides, SideMode
  <2> QED
    BY <2>1, <2>2
<1>5. CASE SelectedPairs # {}
  <2> PICK r : r \in SelectedPairs
    BY <1>5
  <2>1. Paired(request.kit, r, 1) \in PlanAssembly
    BY DEF PlanAssembly
  <2>2. Makes(Paired(request.kit, r, 1), request.kit)
    BY <1>2, <1>3 DEF Makes, Paired, Sides, SideMode
  <2> QED
    BY <2>1, <2>2
<1> QED
  BY <1>4, <1>5

\* The sides of a build are of different kinds.
LEMMA TwoSides ==
  ASSUME NEW b, b.compiler \in Kits \cup {None}, b.runtime \in Runtimes \cup {None}
  PROVE  /\ b.compiler # None => b.compiler \in Sides(b) /\ SideMode(b, b.compiler) = b.cmode
         /\ b.runtime # None => b.runtime \in Sides(b) /\ SideMode(b, b.runtime) = b.rmode
         /\ \A a \in Sides(b) : a = b.compiler \/ a = b.runtime
         /\ Sides(b) \subseteq Artifacts
BY ArtifactsAssumption DEF Sides, SideMode, Artifacts

LEMMA PlanIsFit ==
  ASSUME TypeOK
  PROVE  /\ \A b \in PlanAssembly : Sensible(b) /\ \A a \in Sides(b) : Fits(a, SideMode(b, a))
         /\ \A b, c \in PlanAssembly : b # c => Sides(b) \cap Sides(c) = {}
<1>1. ASSUME NEW b \in PlanAssembly
      PROVE  Sensible(b) /\ \A a \in Sides(b) : Fits(a, SideMode(b, a))
  BY PlanKindsFit, TwoSides DEF Sides
<1>2. ASSUME NEW b \in PlanAssembly, NEW c \in PlanAssembly, NEW a \in Sides(b) \cap Sides(c)
      PROVE  b = c
  <2>1. /\ b.compiler \in Kits \cup {None} /\ b.runtime \in Runtimes \cup {None}
        /\ c.compiler \in Kits \cup {None} /\ c.runtime \in Runtimes \cup {None}
    BY PlanKindsFit
  <2>2. \/ b.compiler # None /\ b.compiler = c.compiler
        \/ b.runtime # None /\ b.runtime = c.runtime
    BY <2>1, ArtifactsAssumption DEF Sides
  <2> QED
    BY <2>2, KitsOnce, RuntimesOnce
<1> QED
  BY <1>1, <1>2

-----------------------------------------------------------------------------
(* The invariant.                                                          *)

\* Between attempts, and before a plan is made, only the store matters.
LEMMA IdleStep ==
  ASSUME WorkspacesHold', pc' \in {"idle", "discover"}
  PROVE  (WorkspacesHold /\ PlanFits /\ BuildFits /\ KitComes /\ PublicationsFit)'
BY DEF PlanFits, BuildFits, KitComes, PublicationsFit, Busy, Building, Ending, Rendering,
       RuntimeToCome, CompilerDone

LEMMA SameArtifacts ==
  ASSUME WorkspacesHold, UNCHANGED <<workspace, artifact>>
  PROVE  WorkspacesHold'
BY DEF WorkspacesHold

LEMMA SameFits ==
  ASSUME UNCHANGED <<artifact, request>>
  PROVE  \A a, m : Fits(a, m)' <=> Fits(a, m)
BY DEF Fits

LEMMA InvStep ==
  ASSUME Inv, [Next]_vars
  PROVE  Inv'
<1> USE DEF At, Goto, End, NoPlan, store, plan, counts
<1>0. TypeOK' /\ TypeOK /\ WorkspacesHold /\ PlanFits /\ BuildFits /\ KitComes /\ PublicationsFit
  BY TypeStep DEF Inv
<1>a. SUFFICES (WorkspacesHold /\ PlanFits /\ BuildFits /\ KitComes /\ PublicationsFit)'
  BY <1>0 DEF Inv
<1>b. /\ build.compiler \in Kits \cup {None} /\ build.runtime \in Runtimes \cup {None}
      /\ \A b \in builds : b.compiler \in Kits \cup {None} /\ b.runtime \in Runtimes \cup {None}
  BY <1>0 DEF TypeOK, BuildRecords
<1>1. ASSUME NEW q \in Requests, Begin(q)
      PROVE  (WorkspacesHold /\ PlanFits /\ BuildFits /\ KitComes /\ PublicationsFit)'
  BY <1>0, <1>1, IdleStep, SameArtifacts DEF Begin
<1>2. CASE RefuseInvalid
  BY <1>0, <1>2, IdleStep, SameArtifacts DEF RefuseInvalid
<1>3. CASE Discover
  <2>1. WorkspacesHold'
    BY <1>0, <1>3, SameArtifacts DEF Discover
  <2>2. PlanFits'
    BY <1>0, <1>3, PlanIsFit, SameFits DEF Discover, PlanFits, Building, Ending, Rendering
  <2>3. BuildFits'
    BY <1>3 DEF Discover, BuildFits, Rendering, RuntimeToCome, CompilerDone
  <2>4. KitComes'
    BY <1>0, <1>3, KitPlanned DEF Discover, KitComes, Makes
  <2>5. PublicationsFit'
    BY <1>3 DEF Discover, PublicationsFit, PublicationReady
  <2> QED
    BY <2>1, <2>2, <2>3, <2>4, <2>5
<1>4. ASSUME NEW b \in builds, NextBuild(b)
      PROVE  (WorkspacesHold /\ PlanFits /\ BuildFits /\ KitComes /\ PublicationsFit)'
  <2>1. WorkspacesHold'
    BY <1>0, <1>4, SameArtifacts DEF NextBuild
  <2>2. PlanFits'
    BY <1>0, <1>4, SameFits DEF NextBuild, PlanFits, Busy, Building, Ending, Rendering
  <2>3. BuildFits'
    <3>1. /\ b.compiler # None => Fits(b.compiler, b.cmode)
          /\ b.runtime # None => Fits(b.runtime, b.rmode)
          /\ Sensible(b)
      BY <1>0, <1>4, <1>b, TwoSides DEF PlanFits, Busy, NextBuild
    <3> QED
      BY <1>4, <3>1, SameFits
      DEF NextBuild, BuildFits, Rendering, RuntimeToCome, CompilerDone, Sensible
  <2>4. KitComes'
    BY <1>0, <1>4 DEF NextBuild, KitComes, Busy, Building, Rendering, Makes
  <2>5. PublicationsFit'
    BY <1>0, <1>4 DEF NextBuild, PublicationsFit, Busy, Building, Rendering
  <2> QED
    BY <2>1, <2>2, <2>3, <2>4, <2>5
<1>5. ASSUME NEW a \in Artifacts, Resume(a)
      PROVE  (WorkspacesHold /\ PlanFits /\ BuildFits /\ KitComes /\ PublicationsFit)'
  <2>1. WorkspacesHold'
    BY <1>0, <1>5, SameArtifacts DEF Resume
  <2>2. PlanFits'
    BY <1>0, <1>5, SameFits DEF Resume, After, Entering, PlanFits, Busy, Building, Ending, Rendering
  <2>3. BuildFits'
    BY <1>0, <1>5, <1>b, SameFits, ArtifactsAssumption
    DEF Resume, After, Entering, Rebuilding, IsPair, BuildFits, Rendering, RuntimeToCome,
        CompilerDone, Fits, Prepared, TypeOK, BuildRecords, Modes, Artifacts
  <2>4. KitComes'
    BY <1>0, <1>5 DEF Resume, After, Entering, KitComes, Busy, Building, Rendering, Makes
  <2>5. PublicationsFit'
    BY <1>0, <1>5 DEF Resume, After, Entering, PublicationsFit, Busy, Building, Rendering
  <2> QED
    BY <2>1, <2>2, <2>3, <2>4, <2>5
<1>6. ASSUME NEW a \in Artifacts, RefuseRender(a)
      PROVE  (WorkspacesHold /\ PlanFits /\ BuildFits /\ KitComes /\ PublicationsFit)'
  BY <1>0, <1>6, IdleStep, SameArtifacts DEF RefuseRender
<1>7. ASSUME NEW a \in Artifacts, Clear(a)
      PROVE  (WorkspacesHold /\ PlanFits /\ BuildFits /\ KitComes /\ PublicationsFit)'
  <2>a. /\ a \in Sides(build) /\ SideMode(build, a) = "rebuild" /\ Fits(a, SideMode(build, a))
        /\ pc \in {"compiler", "runtime"} /\ pc' = "clearing" /\ target' = a
    BY <1>0, <1>7, <1>b, ArtifactsAssumption
    DEF Clear, Entering, Rebuilding, Sides, SideMode, BuildFits, RuntimeToCome, Artifacts
  <2>b. \A b \in builds : \A x \in Sides(b) : x # a /\ artifact'[x] = artifact[x]
    BY <1>0, <1>7, <2>a, <1>b, TwoSides DEF Clear, PlanFits, Busy, Building, TypeOK
  <2>1. WorkspacesHold'
    BY <1>0, <1>7 DEF Clear, WorkspacesHold, TypeOK
  <2>2. PlanFits'
    BY <1>0, <1>7, <2>a, <2>b DEF Clear, PlanFits, Busy, Building, Ending, Rendering, Fits
  <2>3. BuildFits'
    <3>1. artifact'[a] \in {artifact[a], "none", "invalid"}
      BY <1>0, <1>7 DEF Clear, TypeOK
    <3>2. \A x \in Artifacts : x # a => artifact'[x] = artifact[x]
      BY <1>0, <1>7 DEF Clear, TypeOK
    <3>3. a = build.compiler => build.runtime # a
      BY <1>7, <1>b, ArtifactsAssumption DEF Artifacts
    <3>4. a = build.compiler /\ build.runtime # None => Fits(build.runtime, build.rmode)'
      BY <1>0, <1>7, <1>b, <2>a, <3>2, <3>3
      DEF Clear, BuildFits, RuntimeToCome, Fits, Artifacts
    <3>5. a # build.compiler /\ build.compiler # None => Prepared(build.compiler, build.cmode)'
      BY <1>0, <1>7, <1>b, <2>a, <3>2
      DEF Clear, Entering, BuildFits, CompilerDone, Prepared, Artifacts
    <3> QED
      BY <1>7, <2>a, <3>1, <3>4, <3>5
      DEF Clear, BuildFits, Rendering, RuntimeToCome, CompilerDone, Makes, Fits, SideMode, Sides
  <2>4. KitComes'
    BY <1>0, <1>7, <2>a DEF Clear, KitComes, Busy, Building, Rendering, Makes, TypeOK
  <2>5. PublicationsFit'
    BY <1>0, <1>7, <2>a DEF Clear, PublicationsFit, Busy, Building, Rendering
  <2> QED
    BY <2>1, <2>2, <2>3, <2>4, <2>5
<1>8. ASSUME NEW a \in Artifacts, Mark(a)
      PROVE  (WorkspacesHold /\ PlanFits /\ BuildFits /\ KitComes /\ PublicationsFit)'
  <2>a. Makes(build, a)
    BY <1>0, <1>8, <1>b, ArtifactsAssumption
    DEF Mark, Entering, Sides, SideMode, BuildFits, RuntimeToCome, Artifacts, Makes, Fits,
        WorkspacesHold, Rendering
  <2>b. /\ a \in Sides(build)
        /\ pc \in {"compiler", "runtime", "clearing"} /\ pc' = "marked" /\ target' = a
    BY <1>8, <2>a DEF Mark, Entering, Makes
  <2>c. \A b \in builds : \A x \in Sides(b) : x # a /\ artifact'[x] = artifact[x]
    BY <1>0, <1>8, <2>b, <1>b, TwoSides DEF Mark, PlanFits, Busy, Building, Rendering, TypeOK
  <2>1. WorkspacesHold'
    BY <1>0, <1>8 DEF Mark, WorkspacesHold, TypeOK
  <2>2. PlanFits'
    BY <1>0, <1>8, <2>b, <2>c DEF Mark, PlanFits, Busy, Building, Ending, Rendering, Fits
  <2>3. BuildFits'
    <3>1. artifact'[a] = "none"
      BY <1>0, <1>8 DEF Mark, TypeOK
    <3>2. \A x \in Artifacts : x # a => artifact'[x] = artifact[x]
      BY <1>0, <1>8 DEF Mark, TypeOK
    <3>3. a = build.compiler => build.runtime # a
      BY <1>8, <1>b, ArtifactsAssumption DEF Artifacts
    <3>4. a = build.compiler /\ build.runtime # None => Fits(build.runtime, build.rmode)'
      BY <1>0, <1>8, <1>b, <2>b, <3>2, <3>3
      DEF Mark, Entering, BuildFits, RuntimeToCome, Fits, Artifacts, Rendering
    <3>5. a # build.compiler /\ build.compiler # None => Prepared(build.compiler, build.cmode)'
      BY <1>0, <1>8, <1>b, <2>b, <3>2
      DEF Mark, Entering, BuildFits, CompilerDone, Prepared, Artifacts, Rendering
    <3> QED
      BY <1>8, <2>a, <2>b, <3>1, <3>4, <3>5
      DEF Mark, BuildFits, Rendering, RuntimeToCome, CompilerDone, Makes, SideMode, Sides
  <2>4. KitComes'
    BY <1>0, <1>8, <2>a, <2>b DEF Mark, KitComes, Busy, Building, Rendering, Makes, TypeOK
  <2>5. PublicationsFit'
    BY <1>0, <1>8, <2>b DEF Mark, PublicationsFit, Busy, Building, Rendering
  <2> QED
    BY <2>1, <2>2, <2>3, <2>4, <2>5
<1>9. CASE OpenManifest
  <2>a. /\ target \in Artifacts /\ pc = "marked" /\ pc' = "open"
        /\ UNCHANGED <<artifact, publication, builds, build, target, unpublished, request>>
    BY <1>0, <1>9, <1>b, TwoSides DEF OpenManifest, BuildFits, Rendering, Makes
  <2>1. WorkspacesHold'
    BY <1>0, <1>9, <2>a DEF OpenManifest, WorkspacesHold, TypeOK
  <2>2. PlanFits'
    BY <1>0, <2>a, SameFits DEF PlanFits, Busy, Building, Ending, Rendering
  <2>3. BuildFits'
    BY <1>0, <2>a, SameFits
    DEF BuildFits, Rendering, RuntimeToCome, CompilerDone, Makes, Prepared
  <2>4. KitComes'
    BY <1>0, <2>a DEF KitComes, Busy, Building, Rendering, Makes
  <2>5. PublicationsFit'
    BY <1>0, <2>a DEF PublicationsFit, Busy, Building, Rendering
  <2> QED
    BY <2>1, <2>2, <2>3, <2>4, <2>5
<1>10. CASE Rendered
  <2>a. /\ target \in Artifacts /\ pc = "open" /\ pc' = After(target)
        /\ UNCHANGED <<artifact, publication, builds, build, unpublished, request>>
    BY <1>0, <1>10, <1>b, TwoSides DEF Rendered, BuildFits, Rendering, Makes
  <2>1. WorkspacesHold'
    BY <1>0, <1>10, <2>a DEF Rendered, WorkspacesHold, TypeOK
  <2>2. PlanFits'
    BY <1>0, <2>a, SameFits DEF PlanFits, After, Busy, Building, Ending, Rendering
  <2>3. BuildFits'
    <3>1. target = build.compiler \/ target = build.runtime
      BY <1>0, <2>a, <1>b, TwoSides DEF BuildFits, Rendering, Makes
    <3>2. Prepared(target, SideMode(build, target))
      BY <1>0, <2>a DEF BuildFits, Rendering, Makes, Prepared
    <3>3. target = build.compiler => target # build.runtime /\ target # None
      BY <2>a, <1>b, ArtifactsAssumption DEF Artifacts
    <3> QED
      BY <1>0, <2>a, <3>1, <3>2, <3>3, SameFits
      DEF BuildFits, After, IsPair, Rendering, RuntimeToCome, CompilerDone, Prepared, SideMode
  <2>4. KitComes'
    BY <1>0, <2>a DEF KitComes, After, Busy, Building, Rendering, Makes
  <2>5. PublicationsFit'
    BY <1>0, <2>a DEF PublicationsFit, After, Busy, Building, Rendering
  <2> QED
    BY <2>1, <2>2, <2>3, <2>4, <2>5
<1>11. CASE RefuseBuild
  BY <1>0, <1>11, IdleStep, SameArtifacts DEF RefuseBuild
<1>12. CASE Compile
  <2>1. WorkspacesHold'
    BY <1>0, <1>12, SameArtifacts DEF Compile
  <2>2. PlanFits'
    BY <1>0, <1>12, SameFits DEF Compile, CanCompile, PlanFits, Busy, Building, Ending, Rendering
  <2>3. BuildFits'
    <3>1. /\ build.compiler # None => Prepared(build.compiler, build.cmode)
          /\ build.runtime # None => Prepared(build.runtime, build.rmode)
          /\ Sensible(build)
      BY <1>0, <1>12 DEF Compile, CanCompile, BuildFits, CompilerDone, PlanFits, Busy, Building
    <3>2. \A a \in Sides(build) : workspace[a] # "none"
      BY <1>12, <1>b, TwoSides DEF Compile, CanCompile, Complete, Primary, IsPair, Owned, Sides
    <3>3. build.runtime # None => build.runtime \in Sides(build)
      BY <1>b, TwoSides
    <3> QED
      BY <1>12, <3>1, <3>2, <3>3
      DEF Compile, CanCompile, IsPair, BuildFits, Rendering, RuntimeToCome, CompilerDone, Prepared, Sensible
  <2>4. KitComes'
    <3>1. request.kit \in Kits /\ request.kit # build.runtime
      BY <1>0, <1>b, RequestsAssumption, ArtifactsAssumption DEF TypeOK, Artifacts
    <3>2. Makes(build, request.kit) => pc' = "finish_compiler"
      BY <1>12, <3>1, ArtifactsAssumption DEF Compile, Makes, Sides, SideMode, Artifacts
    <3> QED
      BY <1>0, <1>12, <3>2 DEF Compile, CanCompile, KitComes, Busy, Building, Rendering, Makes
  <2>5. PublicationsFit'
    BY <1>0, <1>12 DEF Compile, CanCompile, PublicationsFit, Busy, Building, Rendering
  <2> QED
    BY <2>1, <2>2, <2>3, <2>4, <2>5
<1>13. CASE FinishCompiler
  <2>a. /\ pc = "finish_compiler" /\ build.compiler \in Kits /\ build.compiler \in Sides(build)
        /\ workspace[build.compiler] # "none"
        /\ artifact' = [artifact EXCEPT ![build.compiler] = "valid"]
        /\ UNCHANGED <<workspace, publication, builds, build, target, unpublished, request>>
    BY <1>0, <1>13, <1>b, TwoSides DEF FinishCompiler, BuildFits
  <2>b. \A b \in builds : \A x \in Sides(b) : artifact'[x] = artifact[x]
    BY <1>0, <2>a, <1>b, TwoSides DEF PlanFits, Busy, Building, TypeOK
  <2>1. WorkspacesHold'
    BY <1>0, <2>a DEF WorkspacesHold, TypeOK
  <2>2. PlanFits'
    BY <1>0, <1>13, <2>a, <2>b
    DEF FinishCompiler, PlanFits, Busy, Building, Ending, Rendering, Fits
  <2>3. BuildFits'
    <3>1. build.runtime # None =>
            /\ artifact'[build.runtime] = artifact[build.runtime]
            /\ Prepared(build.runtime, build.rmode)
            /\ workspace[build.runtime] # "none"
      BY <1>0, <2>a, <1>b, TwoSides, ArtifactsAssumption DEF BuildFits, TypeOK, Artifacts
    <3> QED
      BY <1>13, <2>a, <3>1
      DEF FinishCompiler, IsPair, BuildFits, Rendering, RuntimeToCome, CompilerDone, Prepared
  <2>4. KitComes'
    <3>1. request.kit \in Artifacts /\ request.kit \in Kits
      BY <1>0, RequestsAssumption DEF TypeOK, Artifacts
    <3>2. Makes(build, request.kit) => request.kit = build.compiler
      BY <3>1, <1>b, ArtifactsAssumption DEF Makes, Sides, Artifacts
    <3> QED
      BY <1>0, <1>13, <2>a, <3>1, <3>2
      DEF FinishCompiler, KitComes, Busy, Building, Rendering, Makes, TypeOK
  <2>5. PublicationsFit'
    BY <1>0, <1>13, <2>a DEF FinishCompiler, PublicationsFit, Busy, Building, Rendering
  <2> QED
    BY <2>1, <2>2, <2>3, <2>4, <2>5
<1>14. CASE FinishRuntime
  <2>a. /\ pc = "finish_runtime" /\ build.runtime \in Runtimes /\ build.runtime \in Sides(build)
        /\ workspace[build.runtime] # "none" /\ pc' = "next"
        /\ artifact' = [artifact EXCEPT ![build.runtime] = "valid"]
        /\ UNCHANGED <<workspace, publication, builds, build, target, unpublished, request>>
    BY <1>0, <1>14, <1>b, TwoSides DEF FinishRuntime, BuildFits
  <2>b. \A b \in builds : \A x \in Sides(b) : artifact'[x] = artifact[x]
    BY <1>0, <2>a, <1>b, TwoSides DEF PlanFits, Busy, Building, TypeOK
  <2>1. WorkspacesHold'
    BY <1>0, <2>a DEF WorkspacesHold, TypeOK
  <2>2. PlanFits'
    BY <1>0, <2>a, <2>b DEF PlanFits, Busy, Building, Ending, Rendering, Fits
  <2>3. BuildFits'
    BY <2>a DEF BuildFits, Rendering, RuntimeToCome, CompilerDone
  <2>4. KitComes'
    BY <1>0, <2>a, RequestsAssumption, ArtifactsAssumption
    DEF KitComes, Busy, Building, Rendering, Makes, TypeOK, Artifacts
  <2>5. PublicationsFit'
    BY <1>0, <2>a DEF PublicationsFit, Busy, Building, Rendering
  <2> QED
    BY <2>1, <2>2, <2>3, <2>4, <2>5
<1>15. CASE EndBuilds
  <2>1. WorkspacesHold'
    BY <1>0, <1>15, SameArtifacts DEF EndBuilds
  <2>2. PlanFits'
    BY <1>0, <1>15 DEF EndBuilds, PlanFits, Building, Rendering
  <2>3. BuildFits'
    BY <1>15 DEF EndBuilds, BuildFits, Rendering, RuntimeToCome, CompilerDone
  <2>4. KitComes'
    BY <1>0, <1>15 DEF EndBuilds, KitComes, Busy, Building, Rendering
  <2>5. PublicationsFit'
    BY <1>0, <1>15 DEF EndBuilds, PublicationsFit, Busy
  <2> QED
    BY <2>1, <2>2, <2>3, <2>4, <2>5
<1>16. ASSUME NEW r \in unpublished, SetAside(r)
       PROVE  (WorkspacesHold /\ PlanFits /\ BuildFits /\ KitComes /\ PublicationsFit)'
  <2>a. CASE artifact[r] # "valid"
    BY <1>0, <1>16, <2>a, IdleStep, SameArtifacts DEF SetAside
  <2>b. CASE artifact[r] = "valid"
    <3>1. /\ pc = "publish" /\ pc' = "swap" /\ target' = r
          /\ publication' = [publication EXCEPT ![r] = "none"]
          /\ UNCHANGED <<workspace, artifact, builds, build, unpublished, request>>
      BY <1>16, <2>b DEF SetAside
    <3>2. WorkspacesHold'
      BY <1>0, <3>1, SameArtifacts
    <3>3. PlanFits'
      BY <1>0, <3>1 DEF PlanFits, Busy, Building, Ending, Rendering
    <3>4. BuildFits'
      BY <3>1 DEF BuildFits, Rendering, RuntimeToCome, CompilerDone
    <3>5. KitComes'
      BY <1>0, <3>1 DEF KitComes, Busy, Building, Ending, Rendering, PlanFits
    <3>6. PublicationsFit'
      BY <1>0, <1>16, <3>1 DEF PublicationsFit, Busy, Ending, TypeOK
    <3> QED
      BY <3>2, <3>3, <3>4, <3>5, <3>6
  <2> QED
    BY <2>a, <2>b
<1>17. CASE Publish
  <2>a. /\ pc = "swap" /\ pc' = "publish" /\ unpublished' = unpublished \ {target}
        /\ publication' = [publication EXCEPT ![target] = "valid"]
        /\ UNCHANGED <<workspace, artifact, builds, build, request>>
    BY <1>17 DEF Publish
  <2>1. WorkspacesHold'
    BY <1>0, <2>a, SameArtifacts
  <2>2. PlanFits'
    BY <1>0, <2>a DEF PlanFits, Busy, Building, Ending, Rendering
  <2>3. BuildFits'
    BY <2>a DEF BuildFits, Rendering, RuntimeToCome, CompilerDone
  <2>4. KitComes'
    BY <1>0, <2>a DEF KitComes, Busy, Building, Ending, Rendering, PlanFits
  <2>5. PublicationsFit'
    BY <1>0, <2>a, RequestsAssumption DEF PublicationsFit, Busy, Ending, TypeOK
  <2> QED
    BY <2>1, <2>2, <2>3, <2>4, <2>5
<1>18. CASE EndPublish
  <2>a. /\ pc = "publish" /\ unpublished = {} /\ pc' = "bind"
        /\ UNCHANGED <<workspace, artifact, publication, builds, build, unpublished, request>>
    BY <1>18 DEF EndPublish
  <2>1. WorkspacesHold'
    BY <1>0, <2>a, SameArtifacts
  <2>2. PlanFits'
    BY <1>0, <2>a DEF PlanFits, Busy, Building, Ending, Rendering
  <2>3. BuildFits'
    BY <2>a DEF BuildFits, Rendering, RuntimeToCome, CompilerDone
  <2>4. KitComes'
    BY <1>0, <2>a DEF KitComes, Busy, Building, Ending, Rendering, PlanFits
  <2>5. PublicationsFit'
    BY <1>0, <2>a DEF PublicationsFit, Busy, Ending
  <2> QED
    BY <2>1, <2>2, <2>3, <2>4, <2>5
<1>19. CASE Bind
  BY <1>0, <1>19, IdleStep, SameArtifacts DEF Bind
<1>20. CASE Stop
  BY <1>0, <1>20, IdleStep, SameArtifacts DEF Stop
<1>21. CASE Damage
  <2>1. WorkspacesHold'
    BY <1>0, <1>21 DEF Damage, WorkspacesHold, TypeOK
  <2> QED
    BY <1>21, <2>1, IdleStep DEF Damage
<1>22. CASE UNCHANGED vars
  BY <1>0, <1>22
  DEF vars, WorkspacesHold, PlanFits, BuildFits, KitComes, PublicationsFit, Busy, Fits,
      Prepared, RuntimeToCome, CompilerDone
<1> QED
  BY <1>1, <1>2, <1>3, <1>4, <1>5, <1>6, <1>7, <1>8, <1>9, <1>10, <1>11, <1>12, <1>13,
     <1>14, <1>15, <1>16, <1>17, <1>18, <1>19, <1>20, <1>21, <1>22
  DEF Next, Attempt

LEMMA InvInit == Init => Inv
<1> SUFFICES ASSUME Init PROVE Inv
  OBVIOUS
<1>1. TypeOK
  BY NoBuildType, BoundsAssumption DEF Init, TypeOK, Owned, Points
<1>2. WorkspacesHold
  BY DEF Init, WorkspacesHold
<1>3. PlanFits /\ BuildFits /\ KitComes /\ PublicationsFit
  BY DEF Init, PlanFits, BuildFits, KitComes, PublicationsFit, Busy, Building, Ending,
         Rendering, RuntimeToCome, CompilerDone
<1> QED
  BY <1>1, <1>2, <1>3 DEF Inv

LEMMA Invariance == Spec => []Inv
<1>1. Inv /\ [Next]_vars => Inv'
  BY InvStep
<1> QED
  BY InvInit, <1>1, PTL DEF Spec

-----------------------------------------------------------------------------
(* What an attempt may stumble over.                                       *)

\* A runtime is never rendered as paired.
RuntimesAreSingle == \A r \in Runtimes : ~UsesPairedBuild(r)

\* A build makes something, and a kit is built alone only for its own sake.
Worthwhile(b) ==
  /\ \/ b.compiler # None /\ b.cmode # "preserve"
     \/ b.runtime # None /\ b.rmode # "preserve"
  /\ b.runtime = None => b.compiler = request.kit

\* No runtime of the selected kit is to be built.
Served == \A r \in request.runtimes : Provider[r] = request.kit => publication[r] # "none"

\* The workspace of the kit of b is one the container takes, or a wreck.
OfItsKind(b) ==
  IF b.runtime # None THEN UsesPairedBuild(b.compiler)
  ELSE workspace[b.compiler] # "none" /\ (workspace[b.compiler] = "paired" => Served)

\* It will be, once it is rendered or resumed.
Promising(b) ==
  b.compiler # None => b.cmode = "rebuild" \/ NoManifest(b.compiler) \/ OfItsKind(b)

BuildsCanGo ==
  Busy =>
    /\ \A b \in builds : Worthwhile(b) /\ Promising(b)
    /\ pc \in Building => Worthwhile(build)
    /\ pc = "compiler" => Promising(build)
    /\ CompilerDone /\ build.compiler # None => OfItsKind(build)
    /\ pc = "compile" /\ build.runtime # None => workspace[build.runtime] # "none"

\* A runtime that is to be published is there or some build makes it.
RuntimesCome ==
  Busy =>
    \A r \in unpublished :
      \/ artifact[r] = "valid"
      \/ \E b \in builds : Makes(b, r)
      \/ pc \in Building /\ Makes(build, r)

LEMMA SinglesStep ==
  ASSUME Inv, RuntimesAreSingle, [Next]_vars
  PROVE  RuntimesAreSingle'
<1> USE DEF At, Goto, End, store
<1>0. /\ TypeOK /\ BuildFits /\ build.compiler \in Kits \cup {None}
  BY DEF Inv, TypeOK, BuildRecords
<1>a. ASSUME UNCHANGED workspace PROVE RuntimesAreSingle'
  BY <1>a DEF RuntimesAreSingle, UsesPairedBuild
<1>1. ASSUME NEW a \in Artifacts, Clear(a) PROVE RuntimesAreSingle'
  BY <1>0, <1>1 DEF Clear, RuntimesAreSingle, UsesPairedBuild, TypeOK
<1>2. ASSUME NEW a \in Artifacts, Mark(a) PROVE RuntimesAreSingle'
  BY <1>0, <1>2 DEF Mark, RuntimesAreSingle, UsesPairedBuild, TypeOK
<1>3. CASE OpenManifest
  BY <1>0, <1>3 DEF OpenManifest, RuntimesAreSingle, UsesPairedBuild, TypeOK
<1>4. CASE Rendered
  <2>1. \A r \in Runtimes : r # build.compiler
    BY <1>0, ArtifactsAssumption DEF Artifacts
  <2> QED
    BY <1>0, <1>4, <2>1 DEF Rendered, RuntimesAreSingle, UsesPairedBuild, TypeOK
<1>5. UNCHANGED workspace \/ (\E a \in Artifacts : Clear(a) \/ Mark(a)) \/ OpenManifest \/ Rendered
  BY DEF Next, Attempt, vars, Begin, RefuseInvalid, Discover, NextBuild, Resume, RefuseRender,
         RefuseBuild, Compile, FinishCompiler, FinishRuntime, EndBuilds, SetAside, Publish,
         EndPublish, Bind, Stop, Damage
<1> QED
  BY <1>a, <1>1, <1>2, <1>3, <1>4, <1>5

\* Every runtime that is to be published is there or planned.
LEMMA RuntimesPlanned ==
  ASSUME TypeOK, NEW r \in request.runtimes, ~PublicationReady(r), artifact[r] # "valid"
  PROVE  \E b \in PlanAssembly : Makes(b, r)
<1>1. RuntimeDisposition(r) \in {"rebuild", "build"}
  BY DEF RuntimeDisposition, Disposition
<1>2. Mode(RuntimeDisposition(r)) # "preserve"
  BY <1>1, NotPreserved
<1>3. r \in Runtimes /\ r # None /\ request.kit \in Kits /\ Provider[r] \in Kits
      /\ \A k \in Kits : k # r
  BY ArtifactsAssumption, RequestsAssumption DEF TypeOK, Artifacts
<1>4. CASE r \in SelectedPairs
  <2>1. Paired(request.kit, r, 1) \in PlanAssembly
    BY <1>4 DEF PlanAssembly
  <2>2. Makes(Paired(request.kit, r, 1), r)
    BY <1>2, <1>3 DEF Makes, Paired, Sides, SideMode
  <2> QED
    BY <2>1, <2>2
<1>5. CASE r \in ProviderPairs
  <2>1. Paired(Provider[r], r, 3) \in PlanAssembly
    BY <1>5 DEF PlanAssembly
  <2>2. Makes(Paired(Provider[r], r, 3), r)
    BY <1>2, <1>3 DEF Makes, Paired, Sides, SideMode
  <2> QED
    BY <2>1, <2>2
<1>6. CASE r \in SingleRuntimes
  <2>1. RuntimeAlone(r, 4) \in PlanAssembly
    BY <1>6 DEF PlanAssembly
  <2>2. Makes(RuntimeAlone(r, 4), r)
    BY <1>2, <1>3 DEF Makes, RuntimeAlone, Sides, SideMode
  <2> QED
    BY <2>1, <2>2
<1> QED
  BY <1>1, <1>4, <1>5, <1>6 DEF SingleRuntimes

\* The builds of a plan are worth while and find what they need.
LEMMA PlanPromises ==
  ASSUME TypeOK, NEW b \in PlanAssembly
  PROVE  Worthwhile(b) /\ Promising(b)
<1>1. /\ request.kit \in Kits /\ request.runtimes \subseteq Runtimes
      /\ \A r \in Runtimes : Provider[r] \in Kits
      /\ None \notin Kits /\ None \notin Runtimes
  BY RequestsAssumption, ArtifactsAssumption DEF TypeOK, Artifacts
<1>2. ASSUME NEW k \in Kits, NEW r \in Runtimes, NEW i, b = Paired(k, r, i), k = Provider[r],
             Pairing(r), Disposition(k) # "reuse" \/ RuntimeDisposition(r) # "reuse"
      PROVE  Worthwhile(b) /\ Promising(b)
  <2>1. /\ b.compiler = k /\ b.cmode = Mode(Disposition(k))
        /\ b.runtime = r /\ b.rmode = Mode(RuntimeDisposition(r))
    BY <1>2 DEF Paired
  <2>2. b.cmode # "preserve" \/ b.rmode # "preserve"
    BY <1>2, <2>1, DispositionTypes, NotPreserved
  <2>3. request.rebuild => b.cmode = "rebuild"
    BY <2>1 DEF Disposition, Mode
  <2> QED
    BY <1>1, <1>2, <2>1, <2>2, <2>3 DEF Worthwhile, Promising, OfItsKind, Pairing
<1>3. CASE \E r \in SelectedPairs : b = Paired(request.kit, r, 1)
  BY <1>1, <1>2, <1>3 DEF SelectedPairs
<1>4. CASE SelectedPairs = {} /\ Disposition(request.kit) # "reuse" /\ b = Alone(request.kit, 2)
  <2>1. /\ b.compiler = request.kit /\ b.cmode = Mode(Disposition(request.kit))
        /\ b.runtime = None
    BY <1>4 DEF Alone
  <2>2. b.cmode # "preserve"
    BY <2>1, <1>4, DispositionTypes, NotPreserved
  <2>3. workspace[request.kit] = "paired" /\ b.cmode # "rebuild" => Served
    <3> SUFFICES ASSUME workspace[request.kit] = "paired", NEW r \in request.runtimes,
                        Provider[r] = request.kit, publication[r] = "none"
                 PROVE  FALSE
      BY DEF Served
    <3>1. ~PublicationReady(r)
      BY DEF PublicationReady
    <3>2. Pairing(r)
      BY DEF Pairing, UsesPairedBuild, Contexts
    <3> QED
      BY <1>4, <3>1, <3>2 DEF SelectedPairs
  <2> QED
    BY <1>1, <2>1, <2>2, <2>3 DEF Worthwhile, Promising, OfItsKind, NoManifest
<1>5. CASE \E r \in ProviderPairs : b = Paired(Provider[r], r, 3)
  BY <1>1, <1>2, <1>5 DEF ProviderPairs
<1>6. CASE \E r \in SingleRuntimes : b = RuntimeAlone(r, 4)
  <2> PICK r \in SingleRuntimes : b = RuntimeAlone(r, 4)
    BY <1>6
  <2>1. b.compiler = None /\ b.runtime = r /\ b.rmode = Mode(RuntimeDisposition(r))
    BY DEF RuntimeAlone
  <2>2. b.rmode # "preserve" /\ r \in Runtimes
    BY <1>1, <2>1, DispositionTypes, NotPreserved DEF SingleRuntimes
  <2> QED
    BY <1>1, <2>1, <2>2 DEF Worthwhile, Promising
<1> QED
  BY <1>3, <1>4, <1>5, <1>6, PlanKinds

LEMMA RuntimesComeStep ==
  ASSUME Inv, RuntimesCome, [Next]_vars
  PROVE  RuntimesCome'
<1> USE DEF At, Goto, End, NoPlan, store, plan, counts
<1>0. TypeOK /\ PlanFits /\ BuildFits
  BY DEF Inv
<1>b. /\ build.compiler \in Kits \cup {None} /\ build.runtime \in Runtimes \cup {None}
      /\ unpublished \subseteq Runtimes
  BY <1>0 DEF TypeOK, BuildRecords
<1>c. \A r \in Runtimes : r \in Artifacts /\ r # None /\ r # build.compiler
  BY <1>b, ArtifactsAssumption DEF Artifacts
\* Most steps go on with the same build.
<1>d. ASSUME UNCHANGED <<builds, build, unpublished>>, pc \in Building, pc' \in Building,
             \A r \in Runtimes :
               artifact'[r] = artifact[r] \/ artifact'[r] = "valid" \/ Makes(build, r)
      PROVE  RuntimesCome'
  BY <1>b, <1>d DEF RuntimesCome, Busy, Makes
<1>e. ASSUME pc' \in {"idle", "discover"} PROVE RuntimesCome'
  BY <1>e DEF RuntimesCome, Busy, Building, Rendering, Ending
<1>f. ASSUME NEW a, Makes(build, a), artifact' = [artifact EXCEPT ![a] = artifact'[a]],
             NEW r \in Runtimes
      PROVE  artifact'[r] = artifact[r] \/ Makes(build, r)
  BY <1>0, <1>c, <1>f DEF TypeOK
<1>1. ASSUME NEW q \in Requests, Begin(q) PROVE RuntimesCome'
  BY <1>1, <1>e DEF Begin
<1>2. CASE RefuseInvalid
  BY <1>2, <1>e DEF RefuseInvalid
<1>3. CASE Discover
  BY <1>0, <1>3, RuntimesPlanned DEF Discover, RuntimesCome, Makes
<1>4. ASSUME NEW b \in builds, NextBuild(b) PROVE RuntimesCome'
  BY <1>4 DEF NextBuild, RuntimesCome, Busy, Building, Rendering, Makes
<1>5. ASSUME NEW a \in Artifacts, Resume(a) PROVE RuntimesCome'
  BY <1>5, <1>d DEF Resume, After, Entering, Building
<1>6. ASSUME NEW a \in Artifacts, RefuseRender(a) PROVE RuntimesCome'
  BY <1>6, <1>e DEF RefuseRender
<1>7. ASSUME NEW a \in Artifacts, Clear(a) PROVE RuntimesCome'
  <2>1. Makes(build, a)
    BY <1>7, <1>b, ArtifactsAssumption
    DEF Clear, Entering, Rebuilding, Makes, Sides, SideMode, Artifacts
  <2>2. artifact' = [artifact EXCEPT ![a] = artifact'[a]]
    BY <1>0, <1>7 DEF Clear, TypeOK
  <2>3. pc \in Building /\ pc' \in Building /\ UNCHANGED <<builds, build, unpublished>>
    BY <1>7 DEF Clear, Entering, Building, Rendering
  <2> QED
    BY <2>1, <2>2, <2>3, <1>d, <1>f
<1>8. ASSUME NEW a \in Artifacts, Mark(a) PROVE RuntimesCome'
  <2>1. Makes(build, a)
    BY <1>0, <1>8, <1>b, ArtifactsAssumption
    DEF Inv, Mark, Entering, Sides, SideMode, BuildFits, RuntimeToCome, Artifacts, Makes, Fits,
        WorkspacesHold, Rendering
  <2>2. artifact' = [artifact EXCEPT ![a] = artifact'[a]]
    BY <1>0, <1>8 DEF Mark, TypeOK
  <2>3. pc \in Building /\ pc' \in Building /\ UNCHANGED <<builds, build, unpublished>>
    BY <1>8 DEF Mark, Entering, Building, Rendering
  <2> QED
    BY <2>1, <2>2, <2>3, <1>d, <1>f
<1>9. CASE OpenManifest
  BY <1>9, <1>d DEF OpenManifest, Building, Rendering
<1>10. CASE Rendered
  BY <1>10, <1>d DEF Rendered, After, Building, Rendering
<1>11. CASE RefuseBuild
  BY <1>11, <1>e DEF RefuseBuild
<1>12. CASE Compile
  BY <1>12, <1>d DEF Compile, CanCompile, Building
<1>13. CASE FinishCompiler
  <2>1. /\ pc = "finish_compiler" /\ build.compiler \in Artifacts
        /\ UNCHANGED <<builds, build, unpublished>>
        /\ \A r \in Runtimes : artifact'[r] = artifact[r]
    BY <1>0, <1>13, <1>b, <1>c DEF FinishCompiler, BuildFits, TypeOK, Artifacts
  <2>2. CASE IsPair /\ build.rmode # "preserve"
    BY <1>13, <1>d, <2>1, <2>2 DEF FinishCompiler, Building
  <2>3. CASE ~(IsPair /\ build.rmode # "preserve")
    <3>1. \A r \in Runtimes : ~Makes(build, r)
      BY <1>0, <1>b, <1>c, <2>1, <2>3 DEF BuildFits, IsPair, Makes, Sides, SideMode
    <3>2. pc' = "next"
      BY <1>13, <2>3 DEF FinishCompiler
    <3> QED
      BY <1>b, <2>1, <3>1, <3>2 DEF RuntimesCome, Busy, Building, Makes
  <2> QED
    BY <2>2, <2>3
<1>14. CASE FinishRuntime
  <2>1. /\ pc = "finish_runtime" /\ pc' = "next" /\ UNCHANGED <<builds, build, unpublished>>
        /\ artifact' = [artifact EXCEPT ![build.runtime] = "valid"]
    BY <1>14 DEF FinishRuntime
  <2>2. \A r \in Runtimes : Makes(build, r) => artifact'[r] = "valid"
    BY <1>0, <1>c, <2>1 DEF Makes, Sides, TypeOK
  <2>3. \A r \in Runtimes : artifact[r] = "valid" => artifact'[r] = "valid"
    BY <1>0, <1>c, <2>1 DEF TypeOK
  <2> QED
    BY <1>b, <2>1, <2>2, <2>3 DEF RuntimesCome, Busy, Building, Makes
<1>15. CASE EndBuilds
  BY <1>15 DEF EndBuilds, RuntimesCome, Busy, Building, Rendering, Ending
<1>16. ASSUME NEW r \in unpublished, SetAside(r) PROVE RuntimesCome'
  <2>1. CASE artifact[r] # "valid"
    BY <1>16, <1>e, <2>1 DEF SetAside
  <2>2. CASE artifact[r] = "valid"
    BY <1>0, <1>16, <2>2 DEF SetAside, RuntimesCome, Busy, Building, Rendering, Ending, PlanFits
  <2> QED
    BY <2>1, <2>2
<1>17. CASE Publish
  BY <1>0, <1>17 DEF Publish, RuntimesCome, Busy, Building, Rendering, Ending, PlanFits
<1>18. CASE EndPublish
  BY <1>18 DEF EndPublish, RuntimesCome
<1>19. CASE Bind
  BY <1>19, <1>e DEF Bind
<1>20. CASE Stop
  BY <1>20, <1>e DEF Stop
<1>21. CASE Damage
  BY <1>21, <1>e DEF Damage
<1>22. CASE UNCHANGED vars
  BY <1>22 DEF vars, RuntimesCome, Busy, Makes
<1> QED
  BY <1>1, <1>2, <1>3, <1>4, <1>5, <1>6, <1>7, <1>8, <1>9, <1>10, <1>11, <1>12, <1>13,
     <1>14, <1>15, <1>16, <1>17, <1>18, <1>19, <1>20, <1>21, <1>22
  DEF Next, Attempt

LEMMA BuildsGoStep ==
  ASSUME Inv, RuntimesAreSingle, BuildsCanGo, [Next]_vars
  PROVE  BuildsCanGo'
<1> USE DEF At, Goto, End, NoPlan, store, plan, counts
<1>0. TypeOK /\ PlanFits /\ BuildFits
  BY DEF Inv
<1>b. /\ build.compiler \in Kits \cup {None} /\ build.runtime \in Runtimes \cup {None}
      /\ \A b \in builds : b.compiler \in Kits \cup {None} /\ b.runtime \in Runtimes \cup {None}
  BY <1>0 DEF TypeOK, BuildRecords
<1>c. ASSUME UNCHANGED <<workspace, publication, request>>
      PROVE  \A b : /\ Worthwhile(b)' <=> Worthwhile(b)
                    /\ Promising(b)' <=> Promising(b)
                    /\ OfItsKind(b)' <=> OfItsKind(b)
  BY <1>c DEF Worthwhile, Promising, OfItsKind, NoManifest, UsesPairedBuild, Served
\* The workspace of one side changes; the other builds do not see it.
<1>d. ASSUME NEW a, a \in Sides(build), pc \in Building,
             UNCHANGED <<publication, request, builds, build>>,
             workspace' = [workspace EXCEPT ![a] = workspace'[a]]
      PROVE  /\ \A b \in builds : Worthwhile(b)' /\ Promising(b)'
             /\ Worthwhile(build)'
             /\ \A x \in Artifacts : x # a => workspace'[x] = workspace[x]
             /\ build.compiler # None /\ build.compiler # a =>
                  (OfItsKind(build)' <=> OfItsKind(build))
  <2>1. \A x \in Artifacts : x # a => workspace'[x] = workspace[x]
    BY <1>0, <1>d DEF TypeOK
  <2>2. ASSUME NEW b, b.compiler \in Artifacts, b.compiler # a
        PROVE  (Promising(b)' <=> Promising(b)) /\ (OfItsKind(b)' <=> OfItsKind(b))
    <3>1. workspace'[b.compiler] = workspace[b.compiler] /\ (Served' <=> Served)
      BY <1>d, <2>1, <2>2 DEF Served
    <3> QED
      BY <3>1 DEF Promising, OfItsKind, NoManifest, UsesPairedBuild
  <2>3. \A b : Worthwhile(b)' <=> Worthwhile(b)
    BY <1>d DEF Worthwhile
  <2>4. \A b \in builds : b.compiler # None => b.compiler # a /\ b.compiler \in Artifacts
    BY <1>0, <1>b, <1>d, TwoSides DEF PlanFits, Busy, Artifacts
  <2>5. \A b \in builds : b.compiler = None => Promising(b)'
    BY DEF Promising
  <2>6. Busy
    BY <1>d DEF Busy
  <2>7. build.compiler # None => build.compiler \in Artifacts
    BY <1>b DEF Artifacts
  <2> QED
    BY <1>d, <2>1, <2>2, <2>3, <2>4, <2>5, <2>6, <2>7 DEF BuildsCanGo
<1>e. ASSUME pc' \in {"idle", "discover"} PROVE BuildsCanGo'
  BY <1>e DEF BuildsCanGo, Busy, Building, Rendering, Ending, CompilerDone
<1>1. ASSUME NEW q \in Requests, Begin(q) PROVE BuildsCanGo'
  BY <1>1, <1>e DEF Begin
<1>2. CASE RefuseInvalid
  BY <1>2, <1>e DEF RefuseInvalid
<1>3. CASE Discover
  BY <1>0, <1>3, <1>c, PlanPromises
  DEF Discover, BuildsCanGo, Building, Rendering, CompilerDone
<1>4. ASSUME NEW b \in builds, NextBuild(b) PROVE BuildsCanGo'
  BY <1>4, <1>c DEF NextBuild, BuildsCanGo, Busy, Building, Rendering, CompilerDone
<1>5. ASSUME NEW a \in Artifacts, Resume(a) PROVE BuildsCanGo'
  <2>1. /\ UNCHANGED <<workspace, publication, builds, build, request>>
        /\ pc' = After(a) /\ ~Rebuilding(a) /\ ~NoManifest(a)
        /\ \/ pc = "compiler" /\ a = build.compiler
           \/ pc = "runtime" /\ a = build.runtime
    BY <1>5 DEF Resume, Entering
  <2>2. build.compiler # None => OfItsKind(build)
    <3>1. pc = "runtime" => CompilerDone /\ Busy
      BY DEF CompilerDone, Busy, Building
    <3>2. pc = "compiler" => Promising(build)
      BY <2>1 DEF BuildsCanGo, Busy, Building
    <3> QED
      BY <2>1, <3>1, <3>2 DEF BuildsCanGo, Promising, Rebuilding
  <2>3. pc' = "compile" /\ build.runtime # None => workspace[build.runtime] # "none"
    BY <1>b, <2>1, ArtifactsAssumption DEF After, IsPair, NoManifest, Artifacts
  <2>4. Worthwhile(build) /\ \A b \in builds : Worthwhile(b) /\ Promising(b)
    BY <2>1 DEF BuildsCanGo, Busy, Building
  <2> QED
    BY <2>1, <2>2, <2>3, <2>4, <1>c DEF After, BuildsCanGo
<1>6. ASSUME NEW a \in Artifacts, RefuseRender(a) PROVE BuildsCanGo'
  BY <1>6, <1>e DEF RefuseRender
<1>7. ASSUME NEW a \in Artifacts, Clear(a) PROVE BuildsCanGo'
  <2>1. a \in Sides(build) /\ pc \in {"compiler", "runtime"} /\ pc' = "clearing" /\ target' = a
        /\ (a # build.compiler => pc = "runtime")
        /\ UNCHANGED <<publication, request, builds, build>>
    BY <1>7, <1>b, ArtifactsAssumption DEF Clear, Entering, Sides, Artifacts
  <2>2. workspace' = [workspace EXCEPT ![a] = workspace'[a]]
    BY <1>0, <1>7 DEF Clear, TypeOK
  <2>3. a # build.compiler /\ build.compiler # None => OfItsKind(build)
    BY <2>1 DEF BuildsCanGo, Busy, Building, CompilerDone
  <2>4. pc \in Building
    BY <2>1 DEF Building
  <2> QED
    BY <2>1, <2>2, <2>3, <2>4, <1>d DEF BuildsCanGo, CompilerDone
<1>8. ASSUME NEW a \in Artifacts, Mark(a) PROVE BuildsCanGo'
  <2>a. Makes(build, a)
    BY <1>0, <1>8, <1>b, ArtifactsAssumption
    DEF Inv, Mark, Entering, Sides, SideMode, BuildFits, RuntimeToCome, Artifacts, Makes, Fits,
        WorkspacesHold, Rendering
  <2>1. /\ a \in Sides(build)
        /\ \/ pc = "compiler" /\ a = build.compiler
           \/ pc = "runtime" /\ a = build.runtime
           \/ pc = "clearing" /\ a = target
        /\ pc' = "marked" /\ target' = a
        /\ UNCHANGED <<publication, request, builds, build>>
    BY <1>8, <2>a DEF Mark, Entering, Makes
  <2>2. workspace' = [workspace EXCEPT ![a] = workspace'[a]]
    BY <1>0, <1>8 DEF Mark, TypeOK
  <2>3. a # build.compiler /\ build.compiler # None => OfItsKind(build)
    BY <2>1 DEF BuildsCanGo, Busy, Building, Rendering, CompilerDone
  <2>4. pc \in Building
    BY <2>1 DEF Building, Rendering
  <2> QED
    BY <2>1, <2>2, <2>3, <2>4, <1>d DEF BuildsCanGo, CompilerDone
<1>9. CASE OpenManifest
  <2>1. target \in Sides(build) /\ pc = "marked" /\ pc' = "open"
        /\ UNCHANGED <<publication, request, builds, build, target>>
    BY <1>0, <1>9 DEF OpenManifest, BuildFits, Rendering, Makes
  <2>2. workspace' = [workspace EXCEPT ![target] = workspace'[target]]
    BY <1>0, <1>9 DEF OpenManifest, TypeOK
  <2>3. target # build.compiler /\ build.compiler # None => OfItsKind(build)
    BY <2>1 DEF BuildsCanGo, Busy, Building, Rendering, CompilerDone
  <2>4. pc \in Building
    BY <2>1 DEF Building, Rendering
  <2> QED
    BY <2>1, <2>2, <2>3, <2>4, <1>d DEF BuildsCanGo, CompilerDone
<1>10. CASE Rendered
  <2>1. target \in Sides(build) /\ pc = "open" /\ pc' = After(target)
        /\ UNCHANGED <<publication, request, builds, build>>
    BY <1>0, <1>10 DEF Rendered, BuildFits, Rendering, Makes
  <2>2. target \in Artifacts /\ (target = build.compiler \/ target = build.runtime)
    BY <2>1, <1>b, TwoSides
  <2>3. workspace'[target] = IF target = build.compiler /\ IsPair THEN "paired" ELSE "single"
    BY <1>0, <1>10, <2>2 DEF Rendered, TypeOK
  <2>4. workspace' = [workspace EXCEPT ![target] = workspace'[target]]
    BY <1>0, <1>10, <2>2 DEF Rendered, TypeOK
  <2>5. build.compiler # None => OfItsKind(build)'
    <3>1. CASE target = build.compiler
      BY <2>1, <2>3, <3>1 DEF OfItsKind, UsesPairedBuild, IsPair
    <3>2. CASE target # build.compiler
      <4>1. build.compiler # None => OfItsKind(build)
        BY <2>1, <3>2 DEF BuildsCanGo, Busy, Building, Rendering, CompilerDone
      <4> QED
        BY <2>1, <2>4, <3>2, <4>1, <1>d DEF Building, Rendering
    <3> QED
      BY <3>1, <3>2
  <2>6. pc' = "compile" /\ build.runtime # None => workspace'[build.runtime] # "none"
    BY <2>1, <2>2, <2>3, <1>b, ArtifactsAssumption DEF After, IsPair, Artifacts
  <2>7. Worthwhile(build)' /\ \A b \in builds : Worthwhile(b)' /\ Promising(b)'
    BY <2>1, <2>4, <1>d DEF Building, Rendering
  <2> QED
    BY <2>1, <2>5, <2>6, <2>7 DEF After, BuildsCanGo
<1>11. CASE RefuseBuild
  BY <1>11, <1>e DEF RefuseBuild
<1>12. CASE Compile
  BY <1>12, <1>c DEF Compile, CanCompile, BuildsCanGo, Busy, Building, Rendering, CompilerDone
<1>13. CASE FinishCompiler
  BY <1>13, <1>c DEF FinishCompiler, BuildsCanGo, Busy, Building, Rendering, CompilerDone
<1>14. CASE FinishRuntime
  BY <1>14, <1>c DEF FinishRuntime, BuildsCanGo, Busy, Building, Rendering, CompilerDone
<1>15. CASE EndBuilds
  BY <1>15 DEF EndBuilds, BuildsCanGo, Building, Rendering, CompilerDone
<1>16. ASSUME NEW r \in unpublished, SetAside(r) PROVE BuildsCanGo'
  <2>1. CASE artifact[r] # "valid"
    BY <1>16, <1>e, <2>1 DEF SetAside
  <2>2. CASE artifact[r] = "valid"
    BY <1>0, <1>16, <2>2
    DEF SetAside, BuildsCanGo, Busy, Building, Rendering, Ending, CompilerDone, PlanFits
  <2> QED
    BY <2>1, <2>2
<1>17. CASE Publish
  BY <1>0, <1>17
  DEF Publish, BuildsCanGo, Busy, Building, Rendering, Ending, CompilerDone, PlanFits
<1>18. CASE EndPublish
  BY <1>0, <1>18
  DEF EndPublish, BuildsCanGo, Busy, Building, Rendering, Ending, CompilerDone, PlanFits
<1>19. CASE Bind
  BY <1>19, <1>e DEF Bind
<1>20. CASE Stop
  BY <1>20, <1>e DEF Stop
<1>21. CASE Damage
  BY <1>21, <1>e DEF Damage
<1>22. CASE UNCHANGED vars
  BY <1>22, <1>c DEF vars, BuildsCanGo, Busy, CompilerDone
<1> QED
  BY <1>1, <1>2, <1>3, <1>4, <1>5, <1>6, <1>7, <1>8, <1>9, <1>10, <1>11, <1>12, <1>13,
     <1>14, <1>15, <1>16, <1>17, <1>18, <1>19, <1>20, <1>21, <1>22
  DEF Next, Attempt

\* What is refused is refused for a wreck.
LEMMA RefusalStep ==
  ASSUME Inv, RuntimesAreSingle, BuildsCanGo, RuntimesCome, OnlyWrecksRefuse, [Next]_vars
  PROVE  OnlyWrecksRefuse'
<1> USE DEF At, Goto, End, store, plan, counts
<1>0. TypeOK /\ PlanFits /\ BuildFits /\ KitComes /\ PublicationsFit
  BY DEF Inv
<1>a. /\ request \in Requests /\ request.kit \in Kits /\ request.runtimes \subseteq Runtimes
      /\ request.rebuild \in BOOLEAN /\ request.repair \in BOOLEAN
      /\ \A r \in Runtimes : Provider[r] \in Kits
      /\ build.compiler \in Kits \cup {None} /\ build.runtime \in Runtimes \cup {None}
  BY <1>0, RequestsAssumption, ArtifactsAssumption DEF TypeOK, BuildRecords
<1>c. ASSUME UNCHANGED <<store, request>>, Wreck PROVE Wreck'
  BY <1>c DEF Wreck
<1>d. ASSUME pc' # "idle" PROVE OnlyWrecksRefuse'
  BY <1>d DEF OnlyWrecksRefuse
<1>e. ASSUME outcome' \in {"stopped", "assembled"} PROVE OnlyWrecksRefuse'
  BY <1>e DEF OnlyWrecksRefuse, Refusals
<1>1. ASSUME NEW q \in Requests, Begin(q) PROVE OnlyWrecksRefuse'
  BY <1>1, <1>d DEF Begin
<1>2. CASE RefuseInvalid
  <2>1. Wreck
    BY <1>2, <1>a DEF RefuseInvalid, Invalid, Contexts, Wreck, Artifacts
  <2> QED
    BY <1>2, <2>1, <1>c DEF RefuseInvalid, OnlyWrecksRefuse
<1>3. ASSUME NEW a \in Artifacts, RefuseRender(a) PROVE OnlyWrecksRefuse'
  <2>1. Wreck
    BY <1>3 DEF RefuseRender, Wreck
  <2> QED
    BY <1>3, <2>1, <1>c DEF RefuseRender, OnlyWrecksRefuse
<1>4. CASE RefuseBuild
  <2>1. /\ pc = "compile" /\ pc \in Building /\ Busy /\ CompilerDone
        /\ Worthwhile(build) /\ Sensible(build)
        /\ build.compiler # None => OfItsKind(build) /\ Prepared(build.compiler, build.cmode)
        /\ build.runtime # None => workspace[build.runtime] # "none"
    BY <1>0, <1>4
    DEF RefuseBuild, Building, Busy, CompilerDone, BuildsCanGo, BuildFits, PlanFits
  <2>2. /\ build.compiler # None => build.compiler \in Artifacts
        /\ build.runtime # None => build.runtime \in Artifacts
        /\ Primary \in Artifacts
    BY <2>1, <1>a DEF Primary, Artifacts, Sensible
  <2>3. \A a \in Artifacts : workspace[a] # "none" /\ workspace[a] \notin Owned => Wreck
    BY <1>0 DEF Wreck, TypeOK, Owned
  <2>4. workspace[Primary] # "none"
    BY <2>1 DEF Primary, OfItsKind, UsesPairedBuild, Sensible
  <2>5. ASSUME workspace[Primary] \in Owned, (workspace[Primary] = "paired") # IsPair
        PROVE  Wreck
    <3>1. CASE IsPair
      BY <2>1, <2>2, <2>5, <3>1 DEF OfItsKind, UsesPairedBuild, IsPair, Primary, Owned
    <3>2. CASE ~IsPair /\ build.compiler = None
      BY <2>1, <2>5, <3>2, <1>a
      DEF RuntimesAreSingle, UsesPairedBuild, Primary, Sensible, IsPair
    <3>3. CASE ~IsPair /\ build.compiler # None
      <4>1. build.runtime = None /\ build.compiler = request.kit /\ build.cmode # "preserve"
        BY <2>1, <3>3 DEF IsPair, Worthwhile
      <4>2. workspace[request.kit] = "paired" /\ Served /\ artifact[request.kit] = "none"
        <5>1. Primary = request.kit /\ workspace[Primary] = "paired"
          BY <2>5, <3>3, <4>1 DEF Primary, IsPair
        <5> QED
          BY <2>1, <3>3, <4>1, <5>1 DEF OfItsKind, Prepared
      <4> QED
        BY <4>2 DEF Wreck, Served
    <3> QED
      BY <3>1, <3>2, <3>3
  <2>6. ~(IsPair /\ build.cmode = "preserve" /\ build.rmode = "preserve")
    BY <2>1 DEF Worthwhile
  <2>7. IsPair => build.runtime # None
    BY DEF IsPair
  <2>8. \A a \in Artifacts : spoilt[a] \in {"gutted", "jammed"} => Wreck
    BY DEF Wreck
  <2>9. Wreck
    BY <1>4, <2>1, <2>2, <2>3, <2>4, <2>5, <2>6, <2>7, <2>8 DEF RefuseBuild, Complete
  <2> QED
    BY <1>4, <2>9, <1>c DEF RefuseBuild, OnlyWrecksRefuse
<1>5. ASSUME NEW r \in unpublished, SetAside(r) PROVE OnlyWrecksRefuse'
  <2>1. artifact[r] = "valid"
    BY <1>0, <1>5 DEF SetAside, RuntimesCome, PlanFits, Busy, Ending, Building, Rendering
  <2> QED
    BY <1>5, <2>1, <1>d DEF SetAside
<1>6. CASE Bind
  <2>1. artifact[request.kit] = "valid"
    BY <1>0, <1>6 DEF Bind, KitComes, PlanFits, Busy, Ending, Building, Rendering
  <2>2. CASE \A r \in request.runtimes : publication[r] = "valid"
    BY <1>6, <2>1, <2>2, <1>e DEF Bind
  <2>3. CASE \E r \in request.runtimes : publication[r] # "valid"
    <3> PICK r \in request.runtimes : publication[r] # "valid"
      BY <2>3
    <3>1. publication[r] = "invalid" /\ ~request.rebuild /\ ~request.repair
      BY <1>0, <1>6, <1>a DEF Bind, PublicationsFit, Busy, Ending, TypeOK
    <3>2. Wreck
      BY <3>1, <1>a DEF Wreck
    <3> QED
      BY <1>6, <3>2, <1>c DEF Bind, OnlyWrecksRefuse
  <2> QED
    BY <2>2, <2>3
<1>7. CASE Stop
  BY <1>7, <1>e DEF Stop
<1>8. CASE Damage
  <2>1. Wreck => Wreck'
    <3>1. /\ UNCHANGED <<workspace, spoilt, request>>
          /\ \A a \in Artifacts : artifact[a] # "valid" => artifact'[a] = artifact[a]
          /\ \A r \in Runtimes : publication[r] # "valid" => publication'[r] = publication[r]
          /\ \A r \in Runtimes : publication[r] # "none" => publication'[r] # "none"
      BY <1>0, <1>8 DEF Damage, TypeOK
    <3>2. request.kit \in Artifacts
      BY <1>a DEF Artifacts
    <3> QED
      BY <1>a, <3>1, <3>2 DEF Wreck
  <2> QED
    BY <1>8, <2>1 DEF Damage, OnlyWrecksRefuse
<1>9. CASE UNCHANGED vars
  BY <1>9, <1>c DEF vars, OnlyWrecksRefuse
<1>10. ASSUME Next PROVE
         \/ \E q \in Requests : Begin(q)
         \/ RefuseInvalid \/ (\E a \in Artifacts : RefuseRender(a)) \/ RefuseBuild
         \/ (\E r \in unpublished : SetAside(r)) \/ Bind \/ Stop \/ Damage
         \/ pc' # "idle"
  BY <1>10 DEF Next, Attempt, Discover, NextBuild, Resume, After, Clear, Mark, OpenManifest,
               Rendered, Compile, FinishCompiler, FinishRuntime, EndBuilds, Publish, EndPublish
<1> QED
  BY <1>d, <1>1, <1>2, <1>3, <1>4, <1>5, <1>6, <1>7, <1>8, <1>9, <1>10

-----------------------------------------------------------------------------
(* Without stops and damage.                                               *)

\* A workspace is as its rendering has left it, with the artifact built in it.
Clean(a) ==
  /\ workspace[a] \in Owned \cup {"none"}
  /\ artifact[a] = IF workspace[a] = "none" THEN "none" ELSE "valid"

\* Everything is clean but for the sides of the current build that are at work.
Tidy ==
  stops = 0 /\ damages = 0 =>
    /\ outcome \in {"none", "assembled"}
    /\ \A r \in Runtimes : publication[r] # "invalid"
    /\ \A a \in Artifacts : (pc \in Building => a \notin Sides(build)) => Clean(a)
    /\ pc = "compiler" => Clean(build.compiler)
    /\ RuntimeToCome /\ build.runtime # None => Clean(build.runtime)
    /\ CompilerDone /\ build.compiler # None =>
         workspace[build.compiler] = IF build.runtime # None THEN "paired" ELSE "single"
    /\ pc \in {"compile", "finish_compiler", "finish_runtime"} /\ build.runtime # None =>
         workspace[build.runtime] = "single"
    /\ pc = "finish_runtime" /\ build.compiler # None => Clean(build.compiler)

\* Without stops a workspace lacks something only while it is being removed.
Sound ==
  stops = 0 =>
    \A a \in Artifacts :
      spoilt[a] = "no" \/ (spoilt[a] = "gutted" /\ pc = "clearing" /\ a = target)

\* Only stops and damage are counted.
LEMMA AttemptsKeepCounts ==
  ASSUME Attempt
  PROVE  stops' = stops /\ damages' = damages
<1> USE DEF Goto, End, counts
<1>1. CASE RefuseInvalid \/ Discover BY <1>1 DEF RefuseInvalid, Discover
<1>2. CASE \E b \in builds : NextBuild(b) BY <1>2 DEF NextBuild
<1>3. CASE \E a \in Artifacts : Resume(a) \/ RefuseRender(a)
  BY <1>3 DEF Resume, RefuseRender
<1>4. CASE \E a \in Artifacts : Clear(a) \/ Mark(a) BY <1>4 DEF Clear, Mark
<1>5. CASE OpenManifest \/ Rendered BY <1>5 DEF OpenManifest, Rendered
<1>6. CASE RefuseBuild \/ Compile BY <1>6 DEF RefuseBuild, Compile
<1>7. CASE FinishCompiler \/ FinishRuntime BY <1>7 DEF FinishCompiler, FinishRuntime
<1>8. CASE EndBuilds \/ \E r \in unpublished : SetAside(r) BY <1>8 DEF EndBuilds, SetAside
<1>9. CASE Publish \/ EndPublish \/ Bind BY <1>9 DEF Publish, EndPublish, Bind
<1>10. QED BY <1>1, <1>2, <1>3, <1>4, <1>5, <1>6, <1>7, <1>8, <1>9, Zenon DEF Attempt

LEMMA SoundStep ==
  ASSUME TypeOK, Sound, [Next]_vars
  PROVE  Sound'
<1> USE DEF At, Goto, End, store, plan, counts
<1>1. SUFFICES ASSUME stops' = 0 PROVE Sound'
  BY DEF Sound
<1>2. stops = 0 /\ ~Stop
  <2>1. CASE Attempt BY <1>1, <2>1, AttemptsKeepCounts DEF TypeOK, Stop
  <2>2. CASE \E q \in Requests : Begin(q) BY <1>1, <2>2 DEF TypeOK, Begin, Stop
  <2>3. CASE Stop BY <1>1, <2>3 DEF TypeOK, Stop
  <2>4. CASE Damage \/ UNCHANGED vars BY <1>1, <2>4 DEF TypeOK, Damage, Stop, vars
  <2>5. QED BY <2>1, <2>2, <2>3, <2>4, Zenon DEF Next
<1>3. \A a \in Artifacts :
        spoilt[a] = "no" \/ (spoilt[a] = "gutted" /\ pc = "clearing" /\ a = target)
  BY <1>2 DEF Sound
<1>4. ASSUME NEW a \in Artifacts, Clear(a) PROVE Sound'
  <2>1. pc # "clearing" /\ pc' = "clearing" /\ target' = a
    BY <1>4 DEF Clear, Entering
  <2>2. spoilt'[a] \in {spoilt[a], "no", "gutted"}
        /\ \A x \in Artifacts : x # a => spoilt'[x] = spoilt[x]
    BY <1>4 DEF Clear, TypeOK
  <2> QED
    BY <1>3, <2>1, <2>2 DEF Sound
<1>5. ASSUME NEW a \in Artifacts, Mark(a) PROVE Sound'
  <2>1. spoilt'[a] = "no" /\ \A x \in Artifacts : x # a => spoilt'[x] = spoilt[x]
    BY <1>5 DEF Mark, TypeOK
  <2>2. pc = "clearing" => a = target
    BY <1>5 DEF Mark, Entering
  <2> QED
    BY <1>3, <2>1, <2>2 DEF Sound
<1>6. CASE UNCHANGED <<spoilt, pc, target>>
  BY <1>3, <1>6 DEF Sound
<1>7. CASE pc # "clearing" /\ UNCHANGED spoilt
  BY <1>3, <1>7 DEF Sound
<1>8. \/ \E a \in Artifacts : Clear(a) \/ Mark(a)
      \/ UNCHANGED <<spoilt, pc, target>>
      \/ pc # "clearing" /\ UNCHANGED spoilt
  BY <1>2
  DEF Next, Attempt, vars, Begin, RefuseInvalid, Discover, NextBuild, Resume, Entering,
      RefuseRender, OpenManifest, Rendered, RefuseBuild, Compile, CanCompile, FinishCompiler,
      FinishRuntime, EndBuilds, SetAside, Publish, EndPublish, Bind, Damage
<1> QED
  BY <1>4, <1>5, <1>6, <1>7, <1>8

LEMMA TidyStep ==
  ASSUME Inv, RuntimesAreSingle, BuildsCanGo, RuntimesCome, Sound, Tidy, [Next]_vars
  PROVE  Tidy'
<1> USE DEF At, Goto, End, NoPlan, store, plan, counts
<1>0. TypeOK /\ WorkspacesHold /\ PlanFits /\ BuildFits /\ KitComes /\ PublicationsFit
  BY DEF Inv
<1>1. SUFFICES ASSUME stops' = 0, damages' = 0 PROVE Tidy'
  BY DEF Tidy
<1>2. stops = 0 /\ damages = 0 /\ ~Stop /\ ~Damage
  <2>1. CASE Attempt BY <1>0, <1>1, <2>1, AttemptsKeepCounts DEF TypeOK, Stop, Damage
  <2>2. CASE \E q \in Requests : Begin(q)
    BY <1>0, <1>1, <2>2 DEF TypeOK, Begin, Stop, Damage
  <2>3. CASE Stop BY <1>0, <1>1, <2>3 DEF TypeOK, Stop
  <2>4. CASE Damage BY <1>0, <1>1, <2>4 DEF TypeOK, Damage
  <2>5. CASE UNCHANGED vars BY <1>0, <1>1, <2>5 DEF TypeOK, Stop, Damage, vars
  <2>6. QED BY <2>1, <2>2, <2>3, <2>4, <2>5, Zenon DEF Next
<1>3. /\ outcome \in {"none", "assembled"}
      /\ \A r \in Runtimes : publication[r] # "invalid"
      /\ \A a \in Artifacts : (pc \in Building => a \notin Sides(build)) => Clean(a)
      /\ pc = "compiler" => Clean(build.compiler)
      /\ RuntimeToCome /\ build.runtime # None => Clean(build.runtime)
      /\ CompilerDone /\ build.compiler # None =>
           workspace[build.compiler] = IF build.runtime # None THEN "paired" ELSE "single"
      /\ pc \in {"compile", "finish_compiler", "finish_runtime"} /\ build.runtime # None =>
           workspace[build.runtime] = "single"
      /\ pc = "finish_runtime" /\ build.compiler # None => Clean(build.compiler)
  BY <1>2 DEF Tidy
<1>b. /\ build.compiler \in Kits \cup {None} /\ build.runtime \in Runtimes \cup {None}
      /\ request.kit \in Kits /\ request.runtimes \subseteq Runtimes
      /\ \A r \in Runtimes : Provider[r] \in Kits
      /\ \A k \in Kits : k \in Artifacts /\ k \notin Runtimes /\ k # None
      /\ \A r \in Runtimes : r \in Artifacts
      /\ None \notin Artifacts /\ None \notin Runtimes
  BY <1>0, ArtifactsAssumption, RequestsAssumption DEF TypeOK, BuildRecords, Artifacts
\* Steps that leave the store as it is.
<1>c. UNCHANGED <<workspace, artifact>> => \A a : Clean(a)' <=> Clean(a)
  BY DEF Clean
\* Outside of a build everything is clean.
<1>d. ASSUME pc \notin Building PROVE \A a \in Artifacts : Clean(a)
  BY <1>3, <1>d
<1>e. ASSUME pc' \notin Building, \A a \in Artifacts : Clean(a)',
             outcome' \in {"none", "assembled"}, \A r \in Runtimes : publication'[r] # "invalid"
      PROVE  Tidy'
  BY <1>e DEF Tidy, Building, Rendering, RuntimeToCome, CompilerDone
<1>4. ASSUME NEW q \in Requests, Begin(q) PROVE Tidy'
  BY <1>3, <1>4, <1>c, <1>d, <1>e DEF Begin, Building, Rendering
<1>5. CASE RefuseInvalid
  <2>1. \E a \in Artifacts : artifact[a] = "invalid"
    BY <1>5, <1>b DEF RefuseInvalid, Invalid, Contexts
  <2>2. \A a \in Artifacts : Clean(a)
    BY <1>5, <1>d DEF RefuseInvalid, Building, Rendering
  <2> QED
    BY <2>1, <2>2 DEF Clean
<1>6. CASE Discover
  BY <1>3, <1>6, <1>c, <1>d, <1>e DEF Discover, Building, Rendering
<1>7. ASSUME NEW b \in builds, NextBuild(b) PROVE Tidy'
  <2>1. \A a \in Artifacts : Clean(a)'
    BY <1>7, <1>c, <1>d DEF NextBuild, Building, Rendering
  <2>2. b.compiler \in Kits \cup {None} /\ b.runtime \in Runtimes \cup {None}
    BY <1>0 DEF TypeOK, BuildRecords
  <2>3. pc' = (IF b.compiler # None THEN "compiler" ELSE "runtime") /\ build' = b
        /\ UNCHANGED <<outcome, publication>>
    BY <1>7 DEF NextBuild
  <2>4. pc' = "runtime" => build'.compiler = None
    BY <2>3
  <2> QED
    BY <1>3, <1>b, <2>1, <2>2, <2>3, <2>4 DEF Tidy, RuntimeToCome, CompilerDone, Rendering
<1>8. ASSUME NEW a \in Artifacts, Resume(a) PROVE Tidy'
  <2>1. /\ UNCHANGED <<workspace, artifact, publication, builds, build, request, outcome>>
        /\ pc' = After(a) /\ ~Rebuilding(a) /\ ~NoManifest(a)
        /\ \/ pc = "compiler" /\ a = build.compiler
           \/ pc = "runtime" /\ a = build.runtime /\ a # build.compiler
    BY <1>8, <1>b DEF Resume, Entering
  <2>2. Clean(a)
    BY <1>3, <1>b, <2>1 DEF RuntimeToCome
  <2>3. workspace[a] \in Owned /\ artifact[a] = "valid"
    BY <2>1, <2>2 DEF Clean, NoManifest
  <2>4. pc \in Building /\ Busy
    BY <2>1 DEF Building, Busy
  <2>5. CASE pc = "compiler"
    <3>1. build.cmode = "preserve"
      BY <1>0, <1>b, <2>1, <2>3, <2>5
      DEF BuildFits, Fits, Rebuilding, TypeOK, BuildRecords, Modes
    <3>2. build.runtime # None
      BY <1>0, <2>4, <3>1 DEF PlanFits, Sensible
    <3>3. workspace[a] = "paired"
      BY <1>b, <2>1, <2>3, <2>4, <2>5, <3>1, <3>2
      DEF BuildsCanGo, Promising, OfItsKind, UsesPairedBuild, Owned
    <3>4. pc' = "runtime"
      BY <1>b, <2>1, <2>5, <3>2 DEF After, IsPair
    <3> QED
      BY <1>3, <1>b, <1>c, <2>1, <2>4, <2>5, <3>2, <3>3, <3>4
      DEF Tidy, RuntimeToCome, CompilerDone, Rendering, Building
  <2>6. CASE pc = "runtime"
    <3>1. pc' = "compile" /\ a \in Runtimes
      BY <1>b, <2>1, <2>6 DEF After
    <3>2. workspace[a] = "single"
      BY <2>3, <3>1 DEF RuntimesAreSingle, UsesPairedBuild, Owned
    <3>3. build.compiler # None =>
            workspace[build.compiler] = IF build.runtime # None THEN "paired" ELSE "single"
      BY <1>3, <2>6 DEF CompilerDone
    <3> QED
      BY <1>3, <1>c, <2>1, <2>4, <2>6, <3>1, <3>2, <3>3
      DEF Tidy, RuntimeToCome, CompilerDone, Rendering, Building
  <2> QED
    BY <2>1, <2>5, <2>6
<1>9. ASSUME NEW a \in Artifacts, RefuseRender(a) PROVE Tidy'
  <2>1. Clean(a)
    BY <1>3, <1>9, <1>b DEF RefuseRender, Entering, RuntimeToCome
  <2> QED
    BY <1>9, <2>1 DEF RefuseRender, Clean, Owned
\* One side at work: the other is as it was.
<1>f. ASSUME NEW a, a \in Sides(build), pc \in Building, pc' \in Rendering, target' = a,
             UNCHANGED <<publication, build, outcome>>,
             \A x \in Artifacts : x # a => workspace'[x] = workspace[x] /\ artifact'[x] = artifact[x],
             a = build.compiler => RuntimeToCome,
             a # build.compiler => CompilerDone
      PROVE  Tidy'
  <2>1. \A x \in Artifacts : x # a => (Clean(x)' <=> Clean(x))
    BY <1>f DEF Clean
  <2>2. Sides(build) \subseteq Artifacts
    BY <1>b, TwoSides
  <2>3. \A x \in Artifacts : x \notin Sides(build) => Clean(x)'
    BY <1>3, <1>f, <2>1
  <2>4. (RuntimeToCome /\ build.runtime # None => Clean(build.runtime))'
    <3> SUFFICES ASSUME RuntimeToCome', build.runtime # None PROVE Clean(build.runtime)'
      BY <1>f
    <3>1. a = build.compiler
      BY <1>f DEF RuntimeToCome, Rendering
    <3>2. build.runtime # a
      BY <1>b, <1>f, <3>1 DEF Sides
    <3> QED
      BY <1>3, <1>b, <1>f, <2>1, <3>1, <3>2
  <2>5. (CompilerDone /\ build.compiler # None =>
           workspace[build.compiler] = IF build.runtime # None THEN "paired" ELSE "single")'
    BY <1>3, <1>b, <1>f DEF CompilerDone, Rendering
  <2>6. pc' \notin {"compiler", "compile", "finish_compiler", "finish_runtime"} /\ pc' \in Building
    BY <1>f DEF Rendering, Building
  <2>7. \A r \in Runtimes : publication'[r] # "invalid"
    BY <1>3, <1>f
  <2> QED
    BY <1>3, <1>f, <2>3, <2>4, <2>5, <2>6, <2>7 DEF Tidy
<1>10. ASSUME NEW a \in Artifacts, Clear(a) PROVE Tidy'
  <2>1. /\ \/ pc = "compiler" /\ a = build.compiler
           \/ pc = "runtime" /\ a = build.runtime /\ a # build.compiler
        /\ a \in Sides(build) /\ pc' = "clearing" /\ target' = a
        /\ UNCHANGED <<publication, build, outcome>>
    BY <1>10, <1>b DEF Clear, Entering, Sides
  <2>2. \A x \in Artifacts : x # a => workspace'[x] = workspace[x] /\ artifact'[x] = artifact[x]
    BY <1>0, <1>10 DEF Clear, TypeOK
  <2> QED
    BY <1>f, <2>1, <2>2 DEF Building, Rendering, RuntimeToCome, CompilerDone
<1>11. ASSUME NEW a \in Artifacts, Mark(a) PROVE Tidy'
  <2>1. /\ \/ pc = "compiler" /\ a = build.compiler
           \/ pc = "runtime" /\ a = build.runtime /\ a # build.compiler
           \/ pc = "clearing" /\ a = target
        /\ a \in Sides(build) /\ pc' = "marked" /\ target' = a
        /\ UNCHANGED <<publication, build, outcome>>
    BY <1>0, <1>11, <1>b DEF Mark, Entering, Sides, BuildFits, Makes, Rendering
  <2>2. \A x \in Artifacts : x # a => workspace'[x] = workspace[x] /\ artifact'[x] = artifact[x]
    BY <1>0, <1>11 DEF Mark, TypeOK
  <2> QED
    BY <1>f, <2>1, <2>2 DEF Building, Rendering, RuntimeToCome, CompilerDone
<1>12. CASE OpenManifest
  <2>1. /\ pc = "marked" /\ pc' = "open" /\ target' = target /\ target \in Sides(build)
        /\ UNCHANGED <<publication, artifact, build, outcome>>
    BY <1>0, <1>12 DEF OpenManifest, BuildFits, Makes, Rendering
  <2>2. \A x \in Artifacts :
          x # target => workspace'[x] = workspace[x] /\ artifact'[x] = artifact[x]
    BY <1>0, <1>12 DEF OpenManifest, TypeOK
  <2> QED
    BY <1>f, <2>1, <2>2 DEF Building, Rendering, RuntimeToCome, CompilerDone
<1>13. CASE Rendered
  <2>1. /\ target \in Sides(build) /\ pc = "open" /\ pc' = After(target)
        /\ UNCHANGED <<publication, artifact, request, builds, build, outcome>>
        /\ target \in Artifacts
        /\ \/ target = build.compiler /\ build.compiler # None
           \/ target = build.runtime /\ build.runtime # None /\ target # build.compiler
    BY <1>0, <1>13, <1>b, TwoSides DEF Rendered, BuildFits, Rendering, Makes, Sides
  <2>2. workspace'[target] = IF target = build.compiler /\ IsPair THEN "paired" ELSE "single"
    BY <1>0, <1>13, <2>1 DEF Rendered, TypeOK
  <2>3. \A x \in Artifacts : x # target => workspace'[x] = workspace[x]
    BY <1>0, <1>13, <2>1 DEF Rendered, TypeOK
  <2>4. \A x \in Artifacts : x \notin Sides(build) => Clean(x)'
    <3>1. \A x \in Artifacts : x \notin Sides(build) => Clean(x)
      BY <1>3
    <3> QED
      BY <2>1, <2>3, <3>1 DEF Clean
  <2>5. build.compiler # None =>
          workspace'[build.compiler] = IF build.runtime # None THEN "paired" ELSE "single"
    BY <1>3, <1>b, <2>1, <2>2, <2>3 DEF CompilerDone, Rendering, IsPair
  <2>6. pc' = "compile" /\ build.runtime # None => workspace'[build.runtime] = "single"
    BY <1>b, <2>1, <2>2 DEF After, IsPair
  <2>7. pc' = "runtime" => Clean(build.runtime)'
    <3> SUFFICES ASSUME pc' = "runtime" PROVE Clean(build.runtime)'
      OBVIOUS
    <3>1. target = build.compiler /\ build.runtime # None /\ build.runtime # target
      BY <1>b, <2>1 DEF After, IsPair
    <3>2. Clean(build.runtime)
      BY <1>3, <2>1, <3>1 DEF RuntimeToCome, Rendering
    <3> QED
      BY <1>b, <2>1, <2>3, <3>1, <3>2 DEF Clean
  <2>8. pc' \in {"runtime", "compile"} /\ pc' \in Building
    BY <2>1 DEF After, Building
  <2> QED
    BY <1>3, <2>1, <2>4, <2>5, <2>6, <2>7, <2>8 DEF Tidy, RuntimeToCome, CompilerDone, Rendering
<1>14. CASE RefuseBuild
  <2>1. /\ pc = "compile" /\ pc \in Building /\ Busy /\ CompilerDone
        /\ Worthwhile(build) /\ Sensible(build)
    BY <1>0, <1>14
    DEF RefuseBuild, Building, Busy, CompilerDone, BuildsCanGo, PlanFits
  <2>2. /\ build.compiler # None =>
             workspace[build.compiler] = IF build.runtime # None THEN "paired" ELSE "single"
        /\ build.runtime # None => workspace[build.runtime] = "single"
    BY <1>3, <2>1
  <2>3. /\ workspace[Primary] = IF IsPair THEN "paired" ELSE "single"
        /\ IsPair => workspace[build.runtime] = "single"
    BY <2>1, <2>2 DEF Primary, IsPair, Sensible
  <2>4. ~(IsPair /\ build.cmode = "preserve" /\ build.rmode = "preserve")
    BY <2>1 DEF Worthwhile
  <2>5. /\ spoilt[Primary] = "no"
        /\ IsPair => spoilt[build.runtime] = "no"
    BY <1>2, <1>b, <2>1 DEF Sound, Primary, IsPair, Sensible
  <2>6. CASE IsPair
    BY <1>14, <2>3, <2>4, <2>5, <2>6 DEF RefuseBuild, Complete, Owned
  <2>7. CASE ~IsPair
    BY <1>14, <2>3, <2>5, <2>7 DEF RefuseBuild, Complete, IsPair, Owned
  <2> QED
    BY <2>6, <2>7
<1>15. CASE Compile
  <2>1. /\ pc = "compile" /\ pc' \in {"finish_compiler", "finish_runtime"}
        /\ UNCHANGED <<workspace, artifact, publication, build, outcome>>
        /\ pc' = "finish_runtime" => build.compiler = None \/ build.cmode = "preserve"
    BY <1>15 DEF Compile, CanCompile
  <2>2. build.compiler # None /\ build.cmode = "preserve" => Clean(build.compiler)
    BY <1>0, <1>3, <2>1 DEF BuildFits, CompilerDone, Prepared, Clean, Owned
  <2> QED
    BY <1>3, <1>c, <2>1, <2>2 DEF Tidy, RuntimeToCome, CompilerDone, Rendering, Building
<1>16. CASE FinishCompiler
  <2>1. /\ pc = "finish_compiler" /\ build.compiler \in Kits
        /\ artifact' = [artifact EXCEPT ![build.compiler] = "valid"]
        /\ UNCHANGED <<workspace, publication, build, outcome>>
    BY <1>0, <1>16, <1>b DEF FinishCompiler, BuildFits
  <2>2. /\ artifact'[build.compiler] = "valid"
        /\ \A x \in Artifacts : x # build.compiler => artifact'[x] = artifact[x]
    BY <1>0, <1>b, <2>1 DEF TypeOK
  <2>3. workspace[build.compiler] \in Owned
    BY <1>3, <1>b, <2>1 DEF CompilerDone, Owned
  <2>4. Clean(build.compiler)'
    BY <2>1, <2>2, <2>3 DEF Clean, Owned
  <2>5. \A x \in Artifacts : x \notin Sides(build) => Clean(x)'
    <3>1. \A x \in Artifacts : x \notin Sides(build) => Clean(x) /\ x # build.compiler
      BY <1>3, <1>b, <2>1 DEF Sides
    <3> QED
      BY <2>1, <2>2, <3>1 DEF Clean
  <2>6. CASE IsPair /\ build.rmode # "preserve"
    <3>1. pc' = "finish_runtime"
      BY <1>16, <2>6 DEF FinishCompiler
    <3> QED
      BY <1>3, <2>1, <2>4, <2>5, <3>1 DEF Tidy, RuntimeToCome, CompilerDone, Rendering, Building
  <2>7. CASE ~(IsPair /\ build.rmode # "preserve")
    <3>1. pc' = "next"
      BY <1>16, <2>7 DEF FinishCompiler
    <3>2. build.runtime # None => Clean(build.runtime)'
      <4> SUFFICES ASSUME build.runtime # None PROVE Clean(build.runtime)'
        OBVIOUS
      <4>1. build.runtime \in Artifacts /\ build.runtime # build.compiler
        BY <1>b, <2>1
      <4>2. artifact[build.runtime] = "valid"
        BY <1>0, <1>b, <2>1, <2>7 DEF BuildFits, IsPair, Prepared
      <4>3. workspace[build.runtime] = "single"
        BY <1>3, <2>1
      <4> QED
        BY <2>1, <2>2, <4>1, <4>2, <4>3 DEF Clean, Owned
    <3>3. \A a \in Artifacts : Clean(a)'
      BY <2>1, <2>4, <2>5, <3>2 DEF Sides, Clean
    <3> QED
      BY <1>3, <1>e, <2>1, <3>1, <3>3 DEF Building, Rendering
  <2> QED
    BY <2>6, <2>7
<1>17. CASE FinishRuntime
  <2>1. /\ pc = "finish_runtime" /\ pc' = "next" /\ build.runtime \in Runtimes
        /\ artifact' = [artifact EXCEPT ![build.runtime] = "valid"]
        /\ UNCHANGED <<workspace, publication, build, outcome>>
    BY <1>0, <1>17, <1>b DEF FinishRuntime, BuildFits
  <2>2. /\ artifact'[build.runtime] = "valid"
        /\ \A x \in Artifacts : x # build.runtime => artifact'[x] = artifact[x]
    BY <1>0, <1>b, <2>1 DEF TypeOK
  <2>3. Clean(build.runtime)'
    BY <1>3, <1>b, <2>1, <2>2 DEF Clean, Owned
  <2>4. \A x \in Artifacts : x # build.runtime => Clean(x)
    BY <1>3, <1>b, <2>1 DEF Sides
  <2>5. \A x \in Artifacts : Clean(x)'
    BY <2>1, <2>2, <2>3, <2>4 DEF Clean
  <2> QED
    BY <1>3, <1>e, <2>1, <2>5 DEF Building, Rendering
<1>18. CASE EndBuilds
  BY <1>3, <1>18, <1>c, <1>d, <1>e DEF EndBuilds, Building, Rendering
<1>19. ASSUME NEW r \in unpublished, SetAside(r) PROVE Tidy'
  <2>1. artifact[r] = "valid"
    BY <1>0, <1>19 DEF SetAside, RuntimesCome, PlanFits, Busy, Ending, Building, Rendering
  <2>2. /\ pc = "publish" /\ pc' = "swap" /\ UNCHANGED <<workspace, artifact, outcome>>
        /\ publication' = [publication EXCEPT ![r] = "none"]
    BY <1>19, <2>1 DEF SetAside
  <2>3. \A s \in Runtimes : publication'[s] # "invalid"
    BY <1>0, <1>3, <2>2 DEF TypeOK
  <2> QED
    BY <1>3, <1>c, <1>d, <1>e, <2>2, <2>3 DEF Building, Rendering
<1>20. CASE Publish
  <2>1. /\ pc = "swap" /\ pc' = "publish" /\ UNCHANGED <<workspace, artifact, outcome>>
        /\ publication' = [publication EXCEPT ![target] = "valid"]
    BY <1>20 DEF Publish
  <2>2. \A s \in Runtimes : publication'[s] # "invalid"
    BY <1>0, <1>3, <2>1 DEF TypeOK
  <2> QED
    BY <1>3, <1>c, <1>d, <1>e, <2>1, <2>2 DEF Building, Rendering
<1>21. CASE EndPublish
  BY <1>3, <1>21, <1>c, <1>d, <1>e DEF EndPublish, Building, Rendering
<1>22. CASE Bind
  <2>1. artifact[request.kit] = "valid"
    BY <1>0, <1>22 DEF Bind, KitComes, PlanFits, Busy, Ending, Building, Rendering
  <2>2. \A r \in request.runtimes : publication[r] = "valid"
    BY <1>0, <1>3, <1>22, <1>b DEF Bind, PublicationsFit, Busy, Ending, TypeOK
  <2>3. pc = "bind" /\ pc' = "idle" /\ outcome' = "assembled"
        /\ UNCHANGED <<workspace, artifact, publication>>
    BY <1>22, <2>1, <2>2 DEF Bind
  <2> QED
    BY <1>3, <1>c, <1>d, <1>e, <2>3 DEF Building, Rendering
<1>23. CASE UNCHANGED vars
  BY <1>3, <1>23, <1>c DEF vars, Tidy, RuntimeToCome, CompilerDone
<1> QED
  BY <1>2, <1>4, <1>5, <1>6, <1>7, <1>8, <1>9, <1>10, <1>11, <1>12, <1>13, <1>14, <1>15,
     <1>16, <1>17, <1>18, <1>19, <1>20, <1>21, <1>22, <1>23
  DEF Next, Attempt

\* All of it.
Unbroken ==
  Inv /\ RuntimesAreSingle /\ BuildsCanGo /\ RuntimesCome /\ OnlyWrecksRefuse /\ Sound /\ Tidy

LEMMA UnbrokenAlways == Spec => []Unbroken
<1>1. Init => Unbroken
  <2> SUFFICES ASSUME Init PROVE Unbroken
    OBVIOUS
  <2>1. RuntimesAreSingle
    BY DEF Init, RuntimesAreSingle, UsesPairedBuild, Artifacts
  <2>2. BuildsCanGo /\ RuntimesCome
    BY DEF Init, BuildsCanGo, RuntimesCome, Busy, Building, Rendering, Ending, CompilerDone
  <2>3. OnlyWrecksRefuse
    BY DEF Init, OnlyWrecksRefuse, Refusals
  <2>4. Sound /\ Tidy
    BY DEF Init, Sound, Tidy, Clean, Building, Rendering, RuntimeToCome, CompilerDone
  <2> QED
    BY <2>1, <2>2, <2>3, <2>4, InvInit DEF Unbroken
<1>2. Unbroken /\ [Next]_vars => Unbroken'
  <2> SUFFICES ASSUME Unbroken, [Next]_vars PROVE Unbroken'
    OBVIOUS
  <2>1. Inv /\ RuntimesAreSingle /\ BuildsCanGo /\ RuntimesCome /\ OnlyWrecksRefuse
        /\ Sound /\ Tidy /\ TypeOK
    BY DEF Unbroken, Inv
  <2>2. Inv' /\ RuntimesAreSingle' /\ BuildsCanGo' /\ RuntimesCome' /\ OnlyWrecksRefuse'
    BY <2>1, InvStep, SinglesStep, BuildsGoStep, RuntimesComeStep, RefusalStep
  <2>3. Sound' /\ Tidy'
    BY <2>1, SoundStep, TidyStep
  <2> QED
    BY <2>2, <2>3 DEF Unbroken
<1> QED
  BY <1>1, <1>2, PTL DEF Spec

-----------------------------------------------------------------------------
(* Attempts end.                                                           *)

Finite == IsFiniteSet(builds) /\ IsFiniteSet(unpublished)

\* What a function makes of a finite set is finite.
LEMMA ImageIsFinite ==
  ASSUME NEW S, IsFiniteSet(S), NEW f, f = [x \in S |-> f[x]]
  PROVE  IsFiniteSet({f[x] : x \in S})
<1>1. f \in Surjection(S, {f[x] : x \in S})
  BY DEF Surjection
<1> QED
  BY <1>1, FS_Surjection

LEMMA PlanIsFinite ==
  ASSUME TypeOK
  PROVE  /\ IsFiniteSet(PlanAssembly) /\ IsFiniteSet(request.runtimes)
         /\ \A S : S \subseteq request.runtimes =>
              IsFiniteSet(S) /\ Cardinality(S) <= Cardinality(request.runtimes)
<1>1. IsFiniteSet(request.runtimes)
  BY RequestsAssumption DEF TypeOK
<1>2. \A S : S \subseteq request.runtimes =>
        IsFiniteSet(S) /\ Cardinality(S) <= Cardinality(request.runtimes)
  BY <1>1, FS_Subset
<1>3. IsFiniteSet(SelectedPairs) /\ IsFiniteSet(ProviderPairs) /\ IsFiniteSet(SingleRuntimes)
  BY <1>2 DEF SelectedPairs, ProviderPairs, SingleRuntimes
<1> DEFINE First1 == {Paired(request.kit, r, 1) : r \in SelectedPairs}
           Second2 == IF SelectedPairs = {} /\ Disposition(request.kit) # "reuse"
                        THEN {Alone(request.kit, 2)} ELSE {}
           Third3 == {Paired(Provider[r], r, 3) : r \in ProviderPairs}
           Fourth4 == {RuntimeAlone(r, 4) : r \in SingleRuntimes}
<1>4. IsFiniteSet(First1) /\ IsFiniteSet(Third3) /\ IsFiniteSet(Fourth4)
  <2> DEFINE f == [r \in SelectedPairs |-> Paired(request.kit, r, 1)]
             g == [r \in ProviderPairs |-> Paired(Provider[r], r, 3)]
             h == [r \in SingleRuntimes |-> RuntimeAlone(r, 4)]
  <2>1. First1 = {f[r] : r \in SelectedPairs} /\ f = [r \in SelectedPairs |-> f[r]]
    OBVIOUS
  <2>2. Third3 = {g[r] : r \in ProviderPairs} /\ g = [r \in ProviderPairs |-> g[r]]
    OBVIOUS
  <2>3. Fourth4 = {h[r] : r \in SingleRuntimes} /\ h = [r \in SingleRuntimes |-> h[r]]
    OBVIOUS
  <2> HIDE DEF f, g, h, First1, Third3, Fourth4
  <2> QED
    BY <1>3, <2>1, <2>2, <2>3, ImageIsFinite
<1>5. IsFiniteSet(Second2)
  BY FS_EmptySet, FS_Singleton
<1>6. PlanAssembly = First1 \cup Second2 \cup Third3 \cup Fourth4
  BY DEF PlanAssembly
<1> HIDE DEF First1, Second2, Third3, Fourth4
<1>7. IsFiniteSet(PlanAssembly)
  BY <1>4, <1>5, <1>6, FS_Union
<1> QED
  BY <1>1, <1>2, <1>7

LEMMA FiniteStep ==
  ASSUME TypeOK, Finite, [Next]_vars
  PROVE  Finite'
<1> USE DEF Goto, End, NoPlan, plan
<1>1. CASE Discover
  <2>1. builds' = PlanAssembly /\ unpublished' \subseteq request.runtimes
    BY <1>1 DEF Discover
  <2> QED
    BY <2>1, PlanIsFinite DEF Finite
<1>2. CASE builds' \subseteq builds /\ unpublished' \subseteq unpublished
  BY <1>2, FS_Subset DEF Finite
<1>3. Discover \/ (builds' \subseteq builds /\ unpublished' \subseteq unpublished)
  BY DEF Next, Attempt, vars, Begin, RefuseInvalid, NextBuild, Resume, RefuseRender, Clear, Mark,
         OpenManifest, Rendered, RefuseBuild, Compile, FinishCompiler, FinishRuntime, EndBuilds,
         SetAside, Publish, EndPublish, Bind, Stop, Damage
<1> QED
  BY <1>1, <1>2, <1>3

LEMMA StepsAreNatural ==
  ASSUME TypeOK
  PROVE  StepsFrom(pc) \in Nat /\ (pc # "idle" => StepsFrom(pc) > 0)
<1>1. CASE pc = "discover"
  <2>1. Cardinality(PlanAssembly) \in Nat /\ Cardinality(request.runtimes) \in Nat
    BY PlanIsFinite, FS_CardinalityType
  <2>2. StepsFrom(pc) = 12 * Cardinality(PlanAssembly) + 2 * Cardinality(request.runtimes) + 5
    BY <1>1 DEF StepsFrom
  <2> QED
    BY <2>1, <2>2, <1>1
<1>2. CASE pc = "idle"
  BY <1>2 DEF StepsFrom
<1>3. CASE pc \notin {"idle", "discover"}
  <2>1. pc \in Points \ {"idle", "discover"}
    BY <1>3 DEF TypeOK
  <2>2. StepsFrom(pc) \in 1 .. 15
    BY <2>1 DEF StepsFrom, Points
  <2> QED
    BY <2>2
<1> QED
  BY <1>1, <1>2, <1>3

LEMMA StepsDecrease ==
  ASSUME Inv, Finite, Attempt
  PROVE  StepsLeft' < StepsLeft
<1> USE DEF At, Goto, End, NoPlan, store, plan, counts
<1>0. TypeOK /\ PlanFits /\ BuildFits /\ PublicationsFit
  BY DEF Inv
<1>a. Finite'
  BY <1>0, FiniteStep DEF Next
<1> DEFINE n == Cardinality(builds)
           u == Cardinality(unpublished)
<1>b. n \in Nat /\ u \in Nat /\ n' \in Nat /\ u' \in Nat
  BY <1>a, FS_CardinalityType DEF Finite
<1>c. StepsLeft = 12 * n + 2 * u + StepsFrom(pc)
  BY DEF StepsLeft
<1>d. StepsLeft' = 12 * n' + 2 * u' + (StepsFrom(pc))'
  BY DEF StepsLeft
<1>e. UNCHANGED <<builds, unpublished>> => n' = n /\ u' = u
  OBVIOUS
<1>f. build.compiler \in Kits \cup {None} /\ build.runtime \in Runtimes \cup {None}
  BY <1>0 DEF TypeOK, BuildRecords
<1> HIDE DEF n, u
<1>g. ASSUME UNCHANGED <<builds, unpublished>>, NEW i \in Nat, NEW j \in Nat,
             StepsFrom(pc) = i, (StepsFrom(pc))' = j, j < i
      PROVE  StepsLeft' < StepsLeft
  BY <1>b, <1>c, <1>d, <1>e, <1>g
\* The end of an attempt.
<1>h. ASSUME pc' = "idle", NoPlan, pc # "idle" PROVE StepsLeft' < StepsLeft
  <2>1. StepsLeft' = 0
    BY <1>h, <1>d, FS_EmptySet DEF n, u, StepsFrom
  <2>3. StepsFrom(pc) \in Nat /\ StepsFrom(pc) > 0
    BY <1>0, <1>h, StepsAreNatural
  <2> QED
    BY <1>b, <1>c, <2>1, <2>3
<1>2. CASE RefuseInvalid
  BY <1>2, <1>h DEF RefuseInvalid
<1>3. CASE Discover
  <2>1. n' = Cardinality(PlanAssembly) /\ u' <= Cardinality(request.runtimes)
    BY <1>0, <1>3, PlanIsFinite DEF Discover, n, u
  <2>2. StepsFrom(pc) = 12 * Cardinality(PlanAssembly) + 2 * Cardinality(request.runtimes) + 5
    BY <1>3 DEF Discover, StepsFrom
  <2>3. (StepsFrom(pc))' = 4
    BY <1>3 DEF Discover, StepsFrom
  <2>4. Cardinality(request.runtimes) \in Nat
    BY <1>0, PlanIsFinite, FS_CardinalityType
  <2> QED
    BY <1>b, <1>c, <1>d, <2>1, <2>2, <2>3, <2>4
<1>4. ASSUME NEW b \in builds, NextBuild(b) PROVE StepsLeft' < StepsLeft
  <2>1. n' = n - 1 /\ u' = u
    BY <1>4, FS_RemoveElement DEF NextBuild, Finite, n, u
  <2>2. StepsFrom(pc) = 4 /\ (StepsFrom(pc))' \in {11, 15}
    BY <1>4 DEF NextBuild, StepsFrom
  <2> QED
    BY <1>b, <1>c, <1>d, <2>1, <2>2
<1>5. ASSUME NEW a \in Artifacts, Resume(a) PROVE StepsLeft' < StepsLeft
  <2>1. \/ StepsFrom(pc) = 15 /\ (StepsFrom(pc))' \in {7, 11}
        \/ StepsFrom(pc) = 11 /\ (StepsFrom(pc))' = 7
    BY <1>5, <1>f, ArtifactsAssumption DEF Resume, Entering, After, StepsFrom, Artifacts
  <2> QED
    BY <1>5, <1>g, <2>1 DEF Resume
<1>6. ASSUME NEW a \in Artifacts, RefuseRender(a) PROVE StepsLeft' < StepsLeft
  BY <1>6, <1>h DEF RefuseRender, Entering
<1>7. ASSUME NEW a \in Artifacts, Clear(a) PROVE StepsLeft' < StepsLeft
  <2>1. \/ StepsFrom(pc) = 15 /\ (StepsFrom(pc))' = 14
        \/ StepsFrom(pc) = 11 /\ (StepsFrom(pc))' = 10
    BY <1>7, <1>f, ArtifactsAssumption DEF Clear, Entering, StepsFrom, Artifacts
  <2> QED
    BY <1>7, <1>g, <2>1 DEF Clear
<1>8. ASSUME NEW a \in Artifacts, Mark(a) PROVE StepsLeft' < StepsLeft
  <2>1. \/ StepsFrom(pc) \in {14, 15} /\ (StepsFrom(pc))' = 13
        \/ StepsFrom(pc) \in {10, 11} /\ (StepsFrom(pc))' = 9
    BY <1>8, <1>f, ArtifactsAssumption DEF Mark, Entering, StepsFrom, Artifacts
  <2> QED
    BY <1>8, <1>g, <2>1 DEF Mark
<1>9. CASE OpenManifest
  <2>1. \/ StepsFrom(pc) = 13 /\ (StepsFrom(pc))' = 12
        \/ StepsFrom(pc) = 9 /\ (StepsFrom(pc))' = 8
    BY <1>9 DEF OpenManifest, StepsFrom
  <2> QED
    BY <1>9, <1>g, <2>1 DEF OpenManifest
<1>10. CASE Rendered
  <2>1. \/ StepsFrom(pc) = 12 /\ (StepsFrom(pc))' \in {7, 11}
        \/ StepsFrom(pc) = 8 /\ (StepsFrom(pc))' = 7
    BY <1>10 DEF Rendered, After, StepsFrom
  <2> QED
    BY <1>10, <1>g, <2>1 DEF Rendered
<1>11. CASE RefuseBuild
  BY <1>11, <1>h DEF RefuseBuild
<1>12. CASE Compile
  <2>1. StepsFrom(pc) = 7 /\ (StepsFrom(pc))' \in {5, 6}
    BY <1>12 DEF Compile, CanCompile, StepsFrom
  <2> QED
    BY <1>12, <1>g, <2>1 DEF Compile
<1>13. CASE FinishCompiler
  <2>1. StepsFrom(pc) = 6 /\ (StepsFrom(pc))' \in {4, 5}
    BY <1>13 DEF FinishCompiler, StepsFrom
  <2> QED
    BY <1>13, <1>g, <2>1 DEF FinishCompiler
<1>14. CASE FinishRuntime
  <2>1. StepsFrom(pc) = 5 /\ (StepsFrom(pc))' = 4
    BY <1>14 DEF FinishRuntime, StepsFrom
  <2> QED
    BY <1>14, <1>g, <2>1 DEF FinishRuntime
<1>15. CASE EndBuilds
  <2>1. StepsFrom(pc) = 4 /\ (StepsFrom(pc))' = 3
    BY <1>15 DEF EndBuilds, StepsFrom
  <2> QED
    BY <1>15, <1>g, <2>1 DEF EndBuilds
<1>16. ASSUME NEW r \in unpublished, SetAside(r) PROVE StepsLeft' < StepsLeft
  <2>1. CASE artifact[r] # "valid"
    BY <1>16, <1>h, <2>1 DEF SetAside
  <2>2. CASE artifact[r] = "valid"
    <3>1. StepsFrom(pc) = 3 /\ (StepsFrom(pc))' = 2
      BY <1>16, <2>2 DEF SetAside, StepsFrom
    <3> QED
      BY <1>16, <1>g, <2>2, <3>1 DEF SetAside
  <2> QED
    BY <2>1, <2>2
<1>17. CASE Publish
  <2>1. target \in unpublished
    BY <1>0, <1>17 DEF Publish, PublicationsFit, Busy, Ending
  <2>2. n' = n /\ u' = u - 1
    BY <1>17, <2>1, FS_RemoveElement DEF Publish, Finite, n, u
  <2>3. StepsFrom(pc) = 2 /\ (StepsFrom(pc))' = 3
    BY <1>17 DEF Publish, StepsFrom
  <2> QED
    BY <1>b, <1>c, <1>d, <2>2, <2>3
<1>18. CASE EndPublish
  <2>1. StepsFrom(pc) = 3 /\ (StepsFrom(pc))' = 1
    BY <1>18 DEF EndPublish, StepsFrom
  <2> QED
    BY <1>18, <1>g, <2>1 DEF EndPublish
<1>19. CASE Bind
  BY <1>19, <1>h DEF Bind
<1> QED
  BY <1>2, <1>3, <1>4, <1>5, <1>6, <1>7, <1>8, <1>9, <1>10, <1>11, <1>12, <1>13, <1>14,
     <1>15, <1>16, <1>17, <1>18, <1>19
  DEF Attempt

-----------------------------------------------------------------------------
(* The loops of plan_assembly.  A loop is a recursive function of the        *)
(* number of runtimes it has been through; what it has planned by then is    *)
(* what PlanAssembly plans for those runtimes (Goes).                        *)

\* Sets of natural numbers have a least element ...
LEMMA SetSmallest ==
  ASSUME NEW S, S \subseteq Nat, S # {}
  PROVE  \E m \in S : \A k \in S : m <= k
<1> DEFINE Less == OpToRel(<, Nat)
<1>1. IsWellFoundedOn(Less, Nat)
  BY NatLessThanWellFounded
<1>2. PICK m \in S : \A k \in S : <<k, m>> \notin Less
  <2> HIDE DEF Less
  <2> QED BY <1>1, WFMin
<1>3. ASSUME NEW k \in S, k < m PROVE <<k, m>> \in Less
  BY <1>3 DEF OpToRel
<1>4. ASSUME NEW k \in S PROVE m <= k
  <2>1. ~(k < m)
    BY <1>2, <1>3
  <2> QED BY <2>1
<1> QED BY <1>4

\* ... which is induction, for the set of the numbers that have a property.
LEMMA SetInduction ==
  ASSUME NEW T, 0 \in T, \A n \in Nat : n \in T => n + 1 \in T
  PROVE  Nat \subseteq T
<1>1. SUFFICES ASSUME Nat \ T # {} PROVE FALSE
  OBVIOUS
<1>2. PICK m \in Nat \ T : \A k \in Nat \ T : m <= k
  BY <1>1, SetSmallest
<1>3. m # 0 /\ m - 1 \in Nat /\ (m - 1) + 1 = m
  OBVIOUS
<1> QED BY <1>2, <1>3

\* A function that is what Loop says, for the first m runtimes.
IsLoop(w, loop, x, rs, m) ==
  w = [i \in 0 .. m |-> IF i = 0 THEN x ELSE Body(loop, w[i - 1], rs[i])]

LEMMA LoopExists ==
  ASSUME NEW loop, NEW x, NEW rs, NEW m \in Nat
  PROVE  \E w : IsLoop(w, loop, x, rs, m)
<1> DEFINE T == {n \in Nat : \E w : IsLoop(w, loop, x, rs, n)}
           First0 == [n \in 0 .. 0 |-> x]
<1>1. 0 \in T
  <2>1. IsLoop(First0, loop, x, rs, 0)
    BY DEF IsLoop
  <2> QED BY <2>1
<1>2. ASSUME NEW n \in Nat, n \in T PROVE n + 1 \in T
  <2>1. PICK w : IsLoop(w, loop, x, rs, n)
    BY <1>2
  <2> DEFINE At0(v, i) == IF i = 0 THEN x ELSE Body(loop, v[i - 1], rs[i])
             v == [i \in 0 .. n + 1 |-> IF i = n + 1 THEN At0(w, n + 1) ELSE w[i]]
  <2>2. \A i \in 0 .. n : w[i] = At0(w, i)
    BY <2>1 DEF IsLoop
  <2>3. ASSUME NEW i \in 0 .. n + 1 PROVE v[i] = At0(v, i)
    <3>1. i # 0 => v[i - 1] = w[i - 1]
      OBVIOUS
    <3>2. At0(w, i) = At0(v, i)
      BY <3>1
    <3>3. v[i] = At0(w, i)
      BY <2>2
    <3> QED BY <3>2, <3>3
  <2>4. v = [i \in 0 .. n + 1 |-> At0(v, i)]
    BY <2>3
  <2>5. IsLoop(v, loop, x, rs, n + 1)
    BY <2>4 DEF IsLoop
  <2> QED BY <2>5
<1>3. Nat \subseteq T
  <2> HIDE DEF T
  <2> QED BY <1>1, <1>2, SetInduction
<1> QED BY <1>3

\* A loop goes from one runtime to the next.
LEMMA LoopDef ==
  ASSUME NEW loop, NEW x, NEW rs, Len(rs) \in Nat
  PROVE  \E w : /\ w[0] = x /\ w[Len(rs)] = Loop(loop, x, rs)
                /\ \A i \in 1 .. Len(rs) : w[i] = Body(loop, w[i - 1], rs[i])
<1> DEFINE w == CHOOSE v : IsLoop(v, loop, x, rs, Len(rs))
<1>1. IsLoop(w, loop, x, rs, Len(rs))
  BY LoopExists
<1>2. Loop(loop, x, rs) = w[Len(rs)]
  BY DEF Loop, IsLoop
<1> HIDE DEF w
<1>3. \A i \in 0 .. Len(rs) : w[i] = IF i = 0 THEN x ELSE Body(loop, w[i - 1], rs[i])
  BY <1>1, Zenon DEF IsLoop
<1>4. w[0] = x
  BY <1>3
<1>5. \A i \in 1 .. Len(rs) : w[i] = Body(loop, w[i - 1], rs[i])
  BY <1>3
<1> QED BY <1>2, <1>4, <1>5

Unstaged(b) == [b EXCEPT !.stage = 0]

\* The builds of x are those of D, each once and in the order of the stages.
Lists(x, D) ==
  \E m \in Nat : \E p \in [1 .. m -> D] :
    /\ x.builds = [i \in 1 .. m |-> Unstaged(p[i])]
    /\ \A b \in D : \E i \in 1 .. m : p[i] = b
    /\ \A i, j \in 1 .. m : i < j => p[i] # p[j] /\ p[i].stage <= p[j].stage

LEMMA AppendDef ==
  ASSUME NEW T, NEW m \in Nat, NEW s \in [1 .. m -> T], NEW e
  PROVE  Append(s, e) = [i \in 1 .. m + 1 |-> IF i = m + 1 THEN e ELSE s[i]]
<1> DEFINE U == T \cup {e}
           a == Append(s, e)
           f == [i \in 1 .. m + 1 |-> IF i = m + 1 THEN e ELSE s[i]]
<1>1. s \in Seq(U) /\ Len(s) = m
  OBVIOUS
<1>2. /\ a \in Seq(U) /\ Len(a) = m + 1 /\ a[m + 1] = e
      /\ \A i \in 1 .. m : a[i] = s[i]
  <2> e \in U
    OBVIOUS
  <2> HIDE DEF U
  <2> QED BY <1>1, AppendProperties
<1>3. f \in Seq(U) /\ Len(f) = m + 1
  <2>1. f \in [1 .. m + 1 -> U]
    OBVIOUS
  <2> HIDE DEF f
  <2> QED BY <2>1
<1>4. \A i \in 1 .. m + 1 : a[i] = f[i]
  BY <1>2
<1> HIDE DEF U, a, f
<1>5. a = f
  BY <1>2, <1>3, <1>4, SeqEqual
<1> QED BY <1>5 DEF a, f

\* One build more, of the last stage so far.
LEMMA ListsOneMore ==
  ASSUME NEW x, NEW D, Lists(x, D), NEW b, b \notin D, NEW ready,
         \A c \in D : c.stage <= b.stage
  PROVE  Lists([builds |-> Append(x.builds, Unstaged(b)), ready |-> ready], D \cup {b})
<1>0. PICK m \in Nat : \E p \in [1 .. m -> D] :
        /\ x.builds = [i \in 1 .. m |-> Unstaged(p[i])]
        /\ \A c \in D : \E i \in 1 .. m : p[i] = c
        /\ \A i, j \in 1 .. m : i < j => p[i] # p[j] /\ p[i].stage <= p[j].stage
  BY DEF Lists
<1>1. PICK p \in [1 .. m -> D] :
        /\ x.builds = [i \in 1 .. m |-> Unstaged(p[i])]
        /\ \A c \in D : \E i \in 1 .. m : p[i] = c
        /\ \A i, j \in 1 .. m : i < j => p[i] # p[j] /\ p[i].stage <= p[j].stage
  BY <1>0
<1> DEFINE q == [i \in 1 .. m + 1 |-> IF i = m + 1 THEN b ELSE p[i]]
           E == D \cup {b}
           u == [i \in 1 .. m |-> Unstaged(p[i])]
<1>2. q \in [1 .. m + 1 -> E]
  BY <1>1
<1>3. Append(u, Unstaged(b)) = [i \in 1 .. m + 1 |-> Unstaged(q[i])]
  <2>1. u \in [1 .. m -> {Unstaged(c) : c \in D}]
    BY <1>1
  <2>2. Append(u, Unstaged(b)) = [i \in 1 .. m + 1 |-> IF i = m + 1 THEN Unstaged(b) ELSE u[i]]
    <3> DEFINE T == {Unstaged(c) : c \in D}
               e == Unstaged(b)
    <3>1. u \in [1 .. m -> T]
      BY <2>1
    <3> HIDE DEF u, T, e
    <3>2. m \in Nat
      BY <1>0
    <3>3. Append(u, e) = [i \in 1 .. m + 1 |-> IF i = m + 1 THEN e ELSE u[i]]
      BY <3>1, <3>2, AppendDef, SMT
    <3> QED BY <3>3 DEF e
  <2>3. \A i \in 1 .. m + 1 : (IF i = m + 1 THEN Unstaged(b) ELSE u[i]) = Unstaged(q[i])
    OBVIOUS
  <2> QED BY <2>2, <2>3
<1>4. \A c \in E : \E i \in 1 .. m + 1 : q[i] = c
  <2>1. q[m + 1] = b
    OBVIOUS
  <2>2. \A c \in D : \E i \in 1 .. m + 1 : q[i] = c
    BY <1>1
  <2> QED BY <2>1, <2>2
<1>5. ASSUME NEW i \in 1 .. m + 1, NEW j \in 1 .. m + 1, i < j
      PROVE  q[i] # q[j] /\ q[i].stage <= q[j].stage
  <2>1. i \in 1 .. m /\ q[i] = p[i] /\ p[i] \in D
    BY <1>5
  <2>2. CASE j = m + 1
    BY <2>1, <2>2
  <2>3. CASE j # m + 1
    BY <1>1, <1>5, <2>1, <2>3
  <2> QED BY <2>2, <2>3
<1> DEFINE y == [builds |-> Append(x.builds, Unstaged(b)), ready |-> ready]
<1>6. y.builds = [i \in 1 .. m + 1 |-> Unstaged(q[i])]
  BY <1>1, <1>3
<1>7. m + 1 \in Nat
  OBVIOUS
<1> HIDE DEF q, y, E, u
<1>8. Lists(y, E)
  BY <1>2, <1>4, <1>5, <1>6, <1>7 DEF Lists
<1> QED BY <1>8 DEF y, E

\* What PlanAssembly plans for the runtimes of S, by stage.
First(S) == {Paired(request.kit, r, 1) : r \in SelectedPairs \cap S}
Second == IF SelectedPairs = {} /\ Disposition(request.kit) # "reuse"
            THEN {Alone(request.kit, 2)} ELSE {}
Third(S) == {Paired(Provider[r], r, 3) : r \in ProviderPairs \cap S}
Fourth(S) == {RuntimeAlone(r, 4) : r \in SingleRuntimes \cap S}

\* What is planned once a loop has been through the runtimes of S.
Planned(loop, S) ==
  CASE loop = "selected" -> First(S)
    [] loop = "providers" -> First(request.runtimes) \cup Second \cup Third(S)
    [] loop = "runtimes" ->
         First(request.runtimes) \cup Second \cup Third(request.runtimes) \cup Fourth(S)

Touched(D) == UNION {Sides(b) : b \in D}
Goes(x, D) == Lists(x, D) /\ x.ready = Begun.ready \cup Touched(D)

\* A build that is added makes its sides ready.
LEMMA OneMore ==
  ASSUME NEW x, NEW D, Goes(x, D), NEW b, b \notin D, \A c \in D : c.stage <= b.stage
  PROVE  Goes([builds |-> Append(x.builds, Unstaged(b)), ready |-> x.ready \cup Sides(b)],
              D \cup {b})
<1> DEFINE y == [builds |-> Append(x.builds, Unstaged(b)), ready |-> x.ready \cup Sides(b)]
<1>1. Lists(y, D \cup {b})
  BY ListsOneMore DEF Goes
<1>2. y.ready = x.ready \cup Sides(b)
  OBVIOUS
<1>3. Touched(D \cup {b}) = Touched(D) \cup Sides(b)
  BY DEF Touched
<1> QED BY <1>1, <1>2, <1>3 DEF Goes

\* What is ready at first.
LEMMA BegunReady ==
  ASSUME TypeOK
  PROVE  /\ request.kit \in Kits /\ request.runtimes \subseteq Runtimes
         /\ request.kit \in Begun.ready <=> Disposition(request.kit) = "reuse"
         /\ \A r \in request.runtimes :
              /\ r \in Begun.ready <=> RuntimeDisposition(r) = "reuse"
              /\ Provider[r] \in Kits
              /\ RuntimeDisposition(r) # "reuse" =>
                   (Provider[r] \in Begun.ready <=> Disposition(Provider[r]) = "reuse")
<1>1. request.kit \in Kits /\ request.runtimes \subseteq Runtimes
  BY RequestsAssumption DEF TypeOK
<1>2. \A k \in Kits : k \notin request.runtimes
  BY <1>1, ArtifactsAssumption
<1>3. Begun.ready = {k \in Contexts : Disposition(k) = "reuse"}
                    \cup {r \in request.runtimes : RuntimeDisposition(r) = "reuse"}
  BY DEF Begun
<1>4. Contexts \subseteq Kits /\ request.kit \in Contexts
  BY <1>1, ArtifactsAssumption DEF Contexts
<1>5. \A r \in request.runtimes :
        /\ Provider[r] \in Kits
        /\ RuntimeDisposition(r) # "reuse" => Provider[r] \in Contexts
  BY <1>1, ArtifactsAssumption DEF Contexts
<1> QED BY <1>1, <1>2, <1>3, <1>4, <1>5

\* The sides of the builds of a plan.
LEMMA PlannedSides ==
  ASSUME TypeOK
  PROVE  /\ \A k \in Kits, r \in Runtimes, i \in Nat : Sides(Paired(k, r, i)) = {k, r}
         /\ \A k \in Kits, i \in Nat : Sides(Alone(k, i)) = {k}
         /\ \A r \in Runtimes, i \in Nat : Sides(RuntimeAlone(r, i)) = {r}
BY ArtifactsAssumption DEF Sides, Paired, Alone, RuntimeAlone, Artifacts

\* The record of AddPair, but for its stage.
LEMMA AddedPair ==
  ASSUME TypeOK, NEW x, NEW r \in request.runtimes, NEW i \in 1 .. 4,
         Provider[r] \in x.ready <=> Disposition(Provider[r]) = "reuse",
         r \in x.ready <=> RuntimeDisposition(r) = "reuse"
  PROVE  AddPair(x, r) =
           [builds |-> Append(x.builds, Unstaged(Paired(Provider[r], r, i))),
            ready |-> x.ready \cup Sides(Paired(Provider[r], r, i))]
<1>1. /\ ModeNow(Provider[r], Disposition(Provider[r]), x.ready) = Mode(Disposition(Provider[r]))
      /\ ModeNow(r, RuntimeDisposition(r), x.ready) = Mode(RuntimeDisposition(r))
  BY DEF ModeNow, Mode
<1>2. Sides(Paired(Provider[r], r, i)) = {Provider[r], r}
  BY BegunReady, PlannedSides
<1>3. Unstaged(Paired(Provider[r], r, i)) =
        [compiler |-> Provider[r], cmode |-> Mode(Disposition(Provider[r])),
         runtime |-> r, rmode |-> Mode(RuntimeDisposition(r)), stage |-> 0]
  BY DEF Unstaged, Paired
<1> QED BY <1>1, <1>2, <1>3, Zenon DEF AddPair, Begins

\* The selected kit has one runtime, and so has each provider.
LEMMA OneOfAFamily ==
  ASSUME TypeOK
  PROVE  /\ \A r, s \in request.runtimes : Provider[r] = Provider[s] => r = s
         /\ SelectedPairs \subseteq request.runtimes /\ ProviderPairs \subseteq request.runtimes
         /\ SingleRuntimes \subseteq request.runtimes
         /\ \A r \in SelectedPairs : Provider[r] = request.kit
         /\ \A r \in ProviderPairs : Provider[r] # request.kit
BY RequestsAssumption DEF TypeOK, SelectedPairs, ProviderPairs, SingleRuntimes

\* What the builds of each stage touch.
LEMMA PlannedTouch ==
  ASSUME TypeOK, NEW S
  PROVE  /\ Touched(First(S)) = UNION {{request.kit, r} : r \in SelectedPairs \cap S}
         /\ Touched(Second) \subseteq {request.kit}
         /\ Second # {} => Touched(Second) = {request.kit}
         /\ Touched(Third(S)) = UNION {{Provider[r], r} : r \in ProviderPairs \cap S}
         /\ Touched(Fourth(S)) = SingleRuntimes \cap S
<1>1. /\ request.kit \in Kits
      /\ \A r \in request.runtimes : r \in Runtimes /\ Provider[r] \in Kits
  BY BegunReady
<1>2. \A r \in SelectedPairs : Sides(Paired(request.kit, r, 1)) = {request.kit, r}
  BY <1>1, OneOfAFamily, PlannedSides
<1>3. Sides(Alone(request.kit, 2)) = {request.kit}
  BY <1>1, PlannedSides
<1>4. \A r \in ProviderPairs : Sides(Paired(Provider[r], r, 3)) = {Provider[r], r}
  BY <1>1, OneOfAFamily, PlannedSides
<1>5. \A r \in SingleRuntimes : Sides(RuntimeAlone(r, 4)) = {r}
  BY <1>1, OneOfAFamily, PlannedSides
<1>6. Touched(First(S)) = UNION {{request.kit, r} : r \in SelectedPairs \cap S}
  BY <1>2 DEF Touched, First
<1>7. Touched(Second) \subseteq {request.kit} /\ (Second # {} => Touched(Second) = {request.kit})
  BY <1>3 DEF Touched, Second
<1>8. Touched(Third(S)) = UNION {{Provider[r], r} : r \in ProviderPairs \cap S}
  BY <1>4 DEF Touched, Third
<1>9. Touched(Fourth(S)) = SingleRuntimes \cap S
  BY <1>5 DEF Touched, Fourth
<1> QED BY <1>6, <1>7, <1>8, <1>9

LEMMA TouchedParts ==
  ASSUME NEW D, NEW E
  PROVE  Touched(D \cup E) = Touched(D) \cup Touched(E)
BY DEF Touched

\* The stage of each build.
LEMMA PlannedStages ==
  ASSUME NEW S
  PROVE  /\ \A b \in First(S) : b.stage = 1
         /\ \A b \in Second : b.stage = 2
         /\ \A b \in Third(S) : b.stage = 3
         /\ \A b \in Fourth(S) : b.stage = 4
         /\ \A k, r, i : Paired(k, r, i).stage = i /\ Paired(k, r, i).runtime = r
         /\ \A r, i : RuntimeAlone(r, i).stage = i /\ RuntimeAlone(r, i).runtime = r
         /\ \A k, i : Alone(k, i).stage = i
BY DEF First, Second, Third, Fourth, Paired, Alone, RuntimeAlone

\* assemble.py:280-309: the pair of the selected kit.
LEMMA SelectedBody ==
  ASSUME TypeOK, NEW x, NEW S \in SUBSET request.runtimes, NEW r \in request.runtimes, r \notin S,
         Goes(x, First(S))
  PROVE  Goes(PairSelected(x, r), First(S \cup {r}))
<1>1. x.ready = Begun.ready \cup UNION {{request.kit, s} : s \in SelectedPairs \cap S}
  BY PlannedTouch DEF Goes
<1>2. CASE r \in SelectedPairs
  <2> DEFINE b == Paired(request.kit, r, 1)
  <2>0. SelectedPairs \cap S = {}
    BY <1>2, OneOfAFamily
  <2>1. x.ready = Begun.ready /\ First(S) = {}
    BY <1>1, <2>0 DEF First
  <2>2. First(S \cup {r}) = First(S) \cup {b}
    BY <1>2 DEF First
  <2>3. /\ Provider[r] = request.kit /\ ~PublicationReady(r) /\ Pairing(r)
        /\ Disposition(request.kit) # "reuse" \/ RuntimeDisposition(r) # "reuse"
    BY <1>2 DEF SelectedPairs
  <2>4. /\ request.kit \in x.ready <=> Disposition(request.kit) = "reuse"
        /\ r \in x.ready <=> RuntimeDisposition(r) = "reuse"
    BY <2>1, BegunReady
  <2>5. PairSelected(x, r) = AddPair(x, r)
    BY <2>3, <2>4 DEF PairSelected
  <2>6. AddPair(x, r) = [builds |-> Append(x.builds, Unstaged(b)), ready |-> x.ready \cup Sides(b)]
    BY <2>3, <2>4, AddedPair
  <2>7. b \notin First(S) /\ \A c \in First(S) : c.stage <= b.stage
    BY <2>1
  <2> HIDE DEF b
  <2>8. Goes([builds |-> Append(x.builds, Unstaged(b)), ready |-> x.ready \cup Sides(b)],
             First(S) \cup {b})
    BY <2>7, OneMore
  <2> QED BY <2>2, <2>5, <2>6, <2>8
<1>3. CASE r \notin SelectedPairs
  <2>1. First(S \cup {r}) = First(S)
    BY <1>3 DEF First
  <2>2. \/ Provider[r] # request.kit \/ PublicationReady(r) \/ ~Pairing(r)
        \/ Disposition(request.kit) = "reuse" /\ RuntimeDisposition(r) = "reuse"
    BY <1>3 DEF SelectedPairs
  <2>3. PairSelected(x, r) = x
    BY <1>1, <2>2, BegunReady DEF PairSelected
  <2> QED BY <2>1, <2>3
<1> QED BY <1>2, <1>3

\* assemble.py:310-317: the selected kit by itself.
LEMMA SelectedKit ==
  ASSUME TypeOK, NEW x, Goes(x, First(request.runtimes))
  PROVE  Goes(BuildSelected(x), First(request.runtimes) \cup Second)
<1> DEFINE b == Alone(request.kit, 2)
<1>1. x.ready = Begun.ready \cup UNION {{request.kit, s} : s \in SelectedPairs}
  <2>1. SelectedPairs \cap request.runtimes = SelectedPairs
    BY OneOfAFamily
  <2> QED BY <2>1, PlannedTouch DEF Goes
<1>2. request.kit \notin SelectedPairs
  BY BegunReady, OneOfAFamily, ArtifactsAssumption
<1>3. request.kit \in x.ready <=> SelectedPairs # {} \/ Disposition(request.kit) = "reuse"
  BY <1>1, <1>2, BegunReady
<1>4. CASE request.kit \in x.ready
  BY <1>3, <1>4 DEF BuildSelected, Second
<1>5. CASE request.kit \notin x.ready
  <2>1. Second = {b} /\ First(request.runtimes) = {}
    BY <1>3, <1>5 DEF Second, First
  <2>2. Unstaged(b) = Begins(request.kit, Mode(Disposition(request.kit)), None, "create")
    BY DEF Unstaged, Alone, Begins
  <2>3. Sides(b) = {request.kit}
    BY BegunReady, PlannedSides
  <2>4. BuildSelected(x) = [builds |-> Append(x.builds, Unstaged(b)), ready |-> x.ready \cup Sides(b)]
    BY <1>5, <2>2, <2>3 DEF BuildSelected
  <2> HIDE DEF b
  <2> QED BY <2>1, <2>4, OneMore
<1> QED BY <1>4, <1>5

\* assemble.py:319-342: the pairs of other kits.
LEMMA ProviderBody ==
  ASSUME TypeOK, NEW x, NEW S \in SUBSET request.runtimes, NEW r \in request.runtimes, r \notin S,
         Goes(x, Planned("providers", S))
  PROVE  Goes(PairProvider(x, r), Planned("providers", S \cup {r}))
<1> DEFINE R == request.runtimes
           D == First(R) \cup Second \cup Third(S)
           b == Paired(Provider[r], r, 3)
<1>1. Goes(x, D) /\ Planned("providers", S \cup {r}) = First(R) \cup Second \cup Third(S \cup {r})
  BY DEF Planned
<1>2. /\ x.ready = Begun.ready \cup Touched(First(R)) \cup Touched(Second) \cup Touched(Third(S))
      /\ Touched(First(R)) = UNION {{request.kit, s} : s \in SelectedPairs \cap R}
      /\ Touched(Second) \subseteq {request.kit}
      /\ Touched(Third(S)) = UNION {{Provider[s], s} : s \in ProviderPairs \cap S}
  <2>1. x.ready = Begun.ready \cup Touched(D)
    BY <1>1 DEF Goes
  <2>2. Touched(D) = Touched(First(R)) \cup Touched(Second) \cup Touched(Third(S))
    <3>1. Touched(First(R) \cup Second) = Touched(First(R)) \cup Touched(Second)
      BY TouchedParts
    <3>2. Touched(D) = Touched(First(R) \cup Second) \cup Touched(Third(S))
      BY TouchedParts
    <3> QED BY <3>1, <3>2
  <2> HIDE DEF D, R
  <2> QED BY <2>1, <2>2, PlannedTouch
<1>3. /\ request.kit \in Kits /\ R \subseteq Runtimes /\ \A s \in R : Provider[s] \in Kits
      /\ Kits \cap Runtimes = {}
  BY BegunReady, ArtifactsAssumption
<1>4. CASE r \in ProviderPairs
  <2>1. RuntimeDisposition(r) # "reuse" /\ Provider[r] # request.kit /\ Pairing(r)
    BY <1>4 DEF ProviderPairs
  <2>2. \A s \in SelectedPairs \cup (ProviderPairs \cap S) : s # r /\ Provider[s] # Provider[r]
    BY <1>4, <2>1, OneOfAFamily
  <2>3. \A s \in SelectedPairs \cup (ProviderPairs \cap S) :
          s \in Runtimes /\ Provider[s] \in Kits
    BY <1>3, OneOfAFamily
  <2>4. ASSUME NEW a \in {r, Provider[r]}
        PROVE  a \notin Touched(First(R)) \cup Touched(Second) \cup Touched(Third(S))
    <3>1. a # request.kit /\ \A s \in SelectedPairs \cup (ProviderPairs \cap S) : a # s /\ a # Provider[s]
      BY <1>3, <2>1, <2>2, <2>3
    <3> HIDE DEF R, D, b
    <3>2. a \notin Touched(First(R))
      BY <1>2, <3>1
    <3>3. a \notin Touched(Second)
      BY <1>2, <3>1
    <3>4. a \notin Touched(Third(S))
      BY <1>2, <3>1
    <3> QED BY <3>2, <3>3, <3>4
  <2>6. /\ Provider[r] \in x.ready <=> Disposition(Provider[r]) = "reuse"
        /\ r \in x.ready <=> RuntimeDisposition(r) = "reuse"
    BY <1>2, <2>1, <2>4, BegunReady
  <2>7. PairProvider(x, r) = AddPair(x, r)
    BY <2>1, <2>6 DEF PairProvider
  <2>8. AddPair(x, r) = [builds |-> Append(x.builds, Unstaged(b)), ready |-> x.ready \cup Sides(b)]
    <3> HIDE DEF R, D
    <3>1. 3 \in 1 .. 4
      OBVIOUS
    <3> QED BY <2>6, <3>1, AddedPair, Zenon
  <2>9. b.stage = 3 /\ b.runtime = r
    BY DEF Paired
  <2>10. \A c \in D : c.stage <= b.stage
    <3>1. \A c \in D : c.stage \in {1, 2, 3}
      BY PlannedStages
    <3> HIDE DEF D, b
    <3> QED BY <2>9, <3>1
  <2>11. b \notin D
    <3>1. ASSUME NEW c \in Third(S) PROVE c # b
      <4>1. PICK s \in ProviderPairs \cap S : c = Paired(Provider[s], s, 3)
        BY DEF Third
      <4>2. c.runtime = s
        BY <4>1 DEF Paired
      <4> QED BY <2>9, <4>2
    <3>2. \A c \in First(R) \cup Second : c.stage \in {1, 2}
      BY PlannedStages
    <3> HIDE DEF b
    <3> QED BY <2>9, <3>1, <3>2
  <2>12. First(R) \cup Second \cup Third(S \cup {r}) = D \cup {b}
    BY <1>4 DEF Third
  <2> HIDE DEF b, D
  <2>13. Goes([builds |-> Append(x.builds, Unstaged(b)), ready |-> x.ready \cup Sides(b)], D \cup {b})
    BY <1>1, <2>10, <2>11, OneMore
  <2> QED BY <1>1, <2>7, <2>8, <2>12, <2>13
<1>5. CASE r \notin ProviderPairs
  <2>1. Third(S \cup {r}) = Third(S)
    BY <1>5 DEF Third
  <2>2. RuntimeDisposition(r) = "reuse" \/ Provider[r] = request.kit \/ ~Pairing(r)
    BY <1>5 DEF ProviderPairs
  <2>3. PairProvider(x, r) = x
    BY <1>2, <2>2, BegunReady DEF PairProvider
  <2> QED BY <1>1, <2>1, <2>3
<1> QED BY <1>4, <1>5

\* assemble.py:344-354: the runtimes that are left.
LEMMA RuntimeBody ==
  ASSUME TypeOK, NEW x, NEW S \in SUBSET request.runtimes, NEW r \in request.runtimes, r \notin S,
         Goes(x, Planned("runtimes", S))
  PROVE  Goes(BuildRuntime(x, r), Planned("runtimes", S \cup {r}))
<1> DEFINE R == request.runtimes
           D == First(R) \cup Second \cup Third(R) \cup Fourth(S)
           b == RuntimeAlone(r, 4)
<1>1. Goes(x, D)
      /\ Planned("runtimes", S \cup {r}) = First(R) \cup Second \cup Third(R) \cup Fourth(S \cup {r})
  BY DEF Planned
<1>2. /\ x.ready = Begun.ready \cup Touched(First(R)) \cup Touched(Second) \cup Touched(Third(R))
                     \cup Touched(Fourth(S))
      /\ Touched(First(R)) = UNION {{request.kit, s} : s \in SelectedPairs \cap R}
      /\ Touched(Second) \subseteq {request.kit}
      /\ Touched(Third(R)) = UNION {{Provider[s], s} : s \in ProviderPairs \cap R}
      /\ Touched(Fourth(S)) = SingleRuntimes \cap S
  <2>1. x.ready = Begun.ready \cup Touched(D)
    BY <1>1 DEF Goes
  <2>2. Touched(D) = Touched(First(R)) \cup Touched(Second) \cup Touched(Third(R)) \cup Touched(Fourth(S))
    <3>1. Touched(First(R) \cup Second) = Touched(First(R)) \cup Touched(Second)
      BY TouchedParts
    <3>2. Touched(First(R) \cup Second \cup Third(R)) =
            Touched(First(R) \cup Second) \cup Touched(Third(R))
      BY TouchedParts
    <3>3. Touched(D) = Touched(First(R) \cup Second \cup Third(R)) \cup Touched(Fourth(S))
      BY TouchedParts
    <3> QED BY <3>1, <3>2, <3>3
  <2> HIDE DEF D, R
  <2> QED BY <2>1, <2>2, PlannedTouch
<1>3. /\ request.kit \in Kits /\ R \subseteq Runtimes /\ \A s \in R : Provider[s] \in Kits
      /\ Kits \cap Runtimes = {}
  BY BegunReady, ArtifactsAssumption
<1>4. r \in x.ready <=> RuntimeDisposition(r) = "reuse" \/ r \in SelectedPairs \cup ProviderPairs
  <2>1. r # request.kit /\ \A s \in R : r # Provider[s]
    BY <1>3
  <2>2. r \in Touched(First(R)) <=> r \in SelectedPairs
    BY <1>2, <2>1, OneOfAFamily
  <2>3. r \notin Touched(Second) /\ r \notin Touched(Fourth(S))
    BY <1>2, <2>1
  <2>4. r \in Touched(Third(R)) <=> r \in ProviderPairs
    BY <1>2, <2>1, OneOfAFamily
  <2> QED BY <1>2, <2>2, <2>3, <2>4, BegunReady
<1>5. CASE r \in SingleRuntimes
  <2>1. r \notin x.ready
    BY <1>4, <1>5 DEF SingleRuntimes
  <2>2. Unstaged(b) = Begins(None, "create", r, Mode(RuntimeDisposition(r)))
    BY DEF Unstaged, RuntimeAlone, Begins
  <2>3. Sides(b) = {r}
    BY <1>3, PlannedSides
  <2>4. BuildRuntime(x, r) = [builds |-> Append(x.builds, Unstaged(b)), ready |-> x.ready \cup Sides(b)]
    BY <2>1, <2>2, <2>3 DEF BuildRuntime
  <2>5. b.stage = 4 /\ b.runtime = r
    BY DEF RuntimeAlone
  <2>6. \A c \in D : c.stage <= b.stage
    BY <2>5, PlannedStages
  <2>7. b \notin D
    <3>1. ASSUME NEW c \in Fourth(S) PROVE c.runtime # r
      BY DEF Fourth, RuntimeAlone
    <3> QED BY <2>5, <3>1, PlannedStages
  <2>8. First(R) \cup Second \cup Third(R) \cup Fourth(S \cup {r}) = D \cup {b}
    BY <1>5 DEF Fourth
  <2> HIDE DEF b, D
  <2>9. Goes([builds |-> Append(x.builds, Unstaged(b)), ready |-> x.ready \cup Sides(b)], D \cup {b})
    BY <1>1, <2>6, <2>7, OneMore
  <2> QED BY <1>1, <2>4, <2>8, <2>9
<1>6. CASE r \notin SingleRuntimes
  <2>1. Fourth(S \cup {r}) = Fourth(S)
    BY <1>6 DEF Fourth
  <2>2. BuildRuntime(x, r) = x
    BY <1>4, <1>6 DEF BuildRuntime, SingleRuntimes
  <2> QED BY <1>1, <2>1, <2>2
<1> QED BY <1>5, <1>6

\* One round of any loop.
Loops == {"selected", "providers", "runtimes"}

LEMMA OneRound ==
  ASSUME TypeOK, NEW loop \in Loops, NEW x, NEW S \in SUBSET request.runtimes,
         NEW r \in request.runtimes, r \notin S, Goes(x, Planned(loop, S))
  PROVE  Goes(Body(loop, x, r), Planned(loop, S \cup {r}))
<1>1. CASE loop = "selected"
  <2>1. Planned(loop, S) = First(S) /\ Planned(loop, S \cup {r}) = First(S \cup {r})
    BY <1>1 DEF Planned
  <2>2. Body(loop, x, r) = PairSelected(x, r)
    BY <1>1 DEF Body
  <2> QED BY <2>1, <2>2, SelectedBody
<1>2. CASE loop = "providers"
  BY <1>2, ProviderBody DEF Body
<1>3. CASE loop = "runtimes"
  BY <1>3, RuntimeBody DEF Body
<1> QED BY <1>1, <1>2, <1>3 DEF Loops

\* A list of the runtimes of the variant, each once.
Lined(rs) ==
  /\ Len(rs) \in Nat
  /\ request.runtimes = {rs[i] : i \in 1 .. Len(rs)}
  /\ \A i, j \in 1 .. Len(rs) : i # j => rs[i] # rs[j]

\* A whole loop.
LEMMA WholeLoop ==
  ASSUME TypeOK, NEW loop \in Loops, NEW rs, Lined(rs), NEW x, Goes(x, Planned(loop, {}))
  PROVE  Goes(Loop(loop, x, rs), Planned(loop, request.runtimes))
<1>0. Len(rs) \in Nat
  BY DEF Lined
<1>1. PICK w : /\ w[0] = x /\ w[Len(rs)] = Loop(loop, x, rs)
               /\ \A i \in 1 .. Len(rs) : w[i] = Body(loop, w[i - 1], rs[i])
  BY <1>0, LoopDef
<1> DEFINE Seen(i) == {rs[j] : j \in 1 .. i}
           T == {i \in Nat : i <= Len(rs) => Goes(w[i], Planned(loop, Seen(i)))}
<1>2. 0 \in T
  <2>1. Seen(0) = {}
    OBVIOUS
  <2> HIDE DEF Seen
  <2> QED BY <1>1, <2>1
<1>3. ASSUME NEW n \in Nat, n \in T PROVE n + 1 \in T
  <2> SUFFICES ASSUME n + 1 <= Len(rs) PROVE Goes(w[n + 1], Planned(loop, Seen(n + 1)))
    OBVIOUS
  <2>1. n + 1 \in 1 .. Len(rs) /\ (n + 1) - 1 = n
    BY <1>0
  <2>2. w[n + 1] = Body(loop, w[n], rs[n + 1])
    BY <1>1, <2>1
  <2>3. Seen(n) \in SUBSET request.runtimes /\ rs[n + 1] \in request.runtimes
    BY <2>1 DEF Lined
  <2>4. rs[n + 1] \notin Seen(n)
    BY <2>1 DEF Lined
  <2>5. Seen(n + 1) = Seen(n) \cup {rs[n + 1]}
    OBVIOUS
  <2>6. Goes(w[n], Planned(loop, Seen(n)))
    BY <1>0, <1>3
  <2> HIDE DEF Seen
  <2> QED BY <2>2, <2>3, <2>4, <2>5, <2>6, OneRound
<1>4. Nat \subseteq T
  <2> HIDE DEF T
  <2> QED BY <1>2, <1>3, SetInduction
<1>5. Seen(Len(rs)) = request.runtimes
  BY DEF Lined
<1> HIDE DEF Seen
<1> QED BY <1>0, <1>1, <1>4, <1>5

\* From one loop to the next.
LEMMA LoopsGo ==
  ASSUME TypeOK, NEW rs, Lined(rs)
  PROVE  \E x : LoopPlan(rs) = x.builds /\ Lists(x, PlanAssembly)
<1> DEFINE R == request.runtimes
           x1 == Loop("selected", Begun, rs)
           x2 == BuildSelected(x1)
           x3 == Loop("providers", x2, rs)
           x4 == Loop("runtimes", x3, rs)
<1>1. First({}) = {} /\ Third({}) = {} /\ Fourth({}) = {}
  BY DEF First, Third, Fourth
<1>2. Goes(Begun, Planned("selected", {}))
  <2> DEFINE p == [i \in 1 .. 0 |-> i]
  <2>1. p \in [1 .. 0 -> {}] /\ Begun.builds = [i \in 1 .. 0 |-> Unstaged(p[i])]
    BY DEF Begun
  <2>2. Lists(Begun, {})
    <3>1. \A i \in 1 .. 0 : FALSE
      OBVIOUS
    <3> HIDE DEF p
    <3> QED BY <2>1, <3>1 DEF Lists
  <2>3. Touched({}) = {} /\ Planned("selected", {}) = {}
    BY <1>1 DEF Touched, Planned
  <2> QED BY <2>2, <2>3 DEF Goes
<1>3. Goes(x1, First(R))
  <2>1. Goes(x1, Planned("selected", R))
    BY <1>2, WholeLoop DEF Loops
  <2> QED BY <2>1 DEF Planned
<1>4. Goes(x2, First(R) \cup Second)
  BY <1>3, SelectedKit
<1>5. Goes(x3, Planned("providers", R))
  <2>1. Planned("providers", {}) = First(R) \cup Second
    BY <1>1 DEF Planned
  <2>2. Goes(x2, Planned("providers", {}))
    BY <1>4, <2>1
  <2> HIDE DEF x2
  <2> QED BY <2>2, WholeLoop DEF Loops
<1>6. Goes(x4, Planned("runtimes", R))
  <2>1. Planned("runtimes", {}) = Planned("providers", R)
    BY <1>1 DEF Planned
  <2>2. Goes(x3, Planned("runtimes", {}))
    BY <1>5, <2>1
  <2> HIDE DEF x3
  <2> QED BY <2>2, WholeLoop DEF Loops
<1>7. Planned("runtimes", R) = PlanAssembly
  <2>1. Planned("runtimes", R) = First(R) \cup Second \cup Third(R) \cup Fourth(R)
    BY DEF Planned
  <2>2. /\ SelectedPairs \cap R = SelectedPairs /\ ProviderPairs \cap R = ProviderPairs
        /\ SingleRuntimes \cap R = SingleRuntimes
    BY OneOfAFamily
  <2> HIDE DEF R
  <2>3. /\ First(R) = {Paired(request.kit, r, 1) : r \in SelectedPairs}
        /\ Third(R) = {Paired(Provider[r], r, 3) : r \in ProviderPairs}
        /\ Fourth(R) = {RuntimeAlone(r, 4) : r \in SingleRuntimes}
    BY <2>2 DEF First, Third, Fourth
  <2> QED BY <2>1, <2>3 DEF PlanAssembly, Second
<1>8. LoopPlan(rs) = x4.builds
  BY DEF LoopPlan
<1> QED BY <1>6, <1>7, <1>8 DEF Goes

\* A build is known without its stage.
LEMMA UnstagedOnce ==
  ASSUME TypeOK, NEW b \in PlanAssembly, NEW c \in PlanAssembly, Unstaged(b) = Unstaged(c)
  PROVE  b = c
<1>1. b \in BuildRecords /\ c \in BuildRecords
  BY PlanTypes
<1>2. b.compiler = c.compiler /\ b.runtime = c.runtime
  <2>1. \A d \in BuildRecords :
          Unstaged(d).compiler = d.compiler /\ Unstaged(d).runtime = d.runtime
    BY DEF Unstaged, BuildRecords
  <2> QED BY <1>1, <2>1
<1>3. b.compiler # None \/ b.runtime # None
  BY PlanKindsFit DEF Sensible
<1> QED BY <1>2, <1>3, KitsOnce, RuntimesOnce

\* The lists a variant may give its runtimes in.
LEMMA SeqsAreLined ==
  ASSUME TypeOK, NEW rs \in SetToSeqs(request.runtimes)
  PROVE  Lined(rs)
<1> DEFINE R == request.runtimes
           n == Cardinality(R)
<1>1. IsFiniteSet(R)
  BY RequestsAssumption DEF TypeOK
<1>2. n \in Nat
  BY <1>1, FS_CardinalityType
<1>3. rs \in [1 .. n -> R] /\ \A i, j \in 1 .. n : i # j => rs[i] # rs[j]
  BY DEF SetToSeqs
<1>4. Len(rs) = n
  <2> HIDE DEF n, R
  <2> QED BY <1>2, <1>3
<1>5. R = {rs[i] : i \in 1 .. n}
  <2>1. rs \in Injection(1 .. n, R)
    BY <1>3 DEF Injection, IsInjective
  <2>2. IsFiniteSet(1 .. n) /\ Cardinality(1 .. n) = n
    BY <1>2, FS_Interval
  <2>3. rs \in Surjection(1 .. n, R)
    BY <1>1, <2>1, <2>2, FS_Injection
  <2> QED BY <1>3, <2>3 DEF Surjection
<1> QED BY <1>2, <1>3, <1>4, <1>5 DEF Lined

\* assemble.py:280-366: in whatever order a variant lists its runtimes, the loops make
\* the builds of the plan, each once and stage after stage.
LEMMA LoopsMakeThePlan ==
  ASSUME TypeOK
  PROVE  PlanFollowsLoops
<1> SUFFICES ASSUME NEW rs \in SetToSeqs(request.runtimes)
             PROVE  LET loops == LoopPlan(rs)
                        Staged(i) == {b \in PlanAssembly : Unstaged(b) = loops[i]}
                    IN  /\ Len(loops) = Cardinality(PlanAssembly)
                        /\ {Unstaged(b) : b \in PlanAssembly} = ToSet(loops)
                        /\ \A i, j \in 1 .. Len(loops) :
                             i < j => \A b \in Staged(i), c \in Staged(j) : b.stage <= c.stage
  BY DEF PlanFollowsLoops, Unstaged
<1> DEFINE loops == LoopPlan(rs)
           P == PlanAssembly
<1>1. \E x : loops = x.builds /\ Lists(x, P)
  BY SeqsAreLined, LoopsGo
<1>2. PICK m \in Nat : \E p \in [1 .. m -> P] :
        /\ loops = [i \in 1 .. m |-> Unstaged(p[i])]
        /\ \A b \in P : \E i \in 1 .. m : p[i] = b
        /\ \A i, j \in 1 .. m : i < j => p[i] # p[j] /\ p[i].stage <= p[j].stage
  BY <1>1 DEF Lists
<1>3. PICK p \in [1 .. m -> P] :
        /\ loops = [i \in 1 .. m |-> Unstaged(p[i])]
        /\ \A b \in P : \E i \in 1 .. m : p[i] = b
        /\ \A i, j \in 1 .. m : i < j => p[i] # p[j] /\ p[i].stage <= p[j].stage
  BY <1>2
<1> HIDE DEF loops, P
<1>4. m \in Nat /\ DOMAIN loops = 1 .. m /\ \A i \in 1 .. m : loops[i] = Unstaged(p[i])
  BY <1>2, <1>3
<1>5. Len(loops) = m
  <2>1. loops \in Seq({Unstaged(b) : b \in P})
    BY <1>2, <1>3
  <2> QED BY <1>4, <2>1
<1>6. Cardinality(P) = m
  <2>1. \A i, j \in 1 .. m : p[i] = p[j] => i = j
    BY <1>2, <1>3
  <2>2. p \in Bijection(1 .. m, P)
    BY <1>3, <2>1 DEF Bijection, Injection, Surjection, IsInjective
  <2>3. ExistsBijection(1 .. m, P)
    BY <2>2 DEF ExistsBijection
  <2> QED BY <1>4, <2>3, FS_CountingElements
<1>7. {Unstaged(b) : b \in P} = ToSet(loops)
  <2>1. ToSet(loops) = {loops[i] : i \in 1 .. m}
    BY <1>4 DEF ToSet
  <2>2. ASSUME NEW b \in P PROVE \E i \in 1 .. m : loops[i] = Unstaged(b)
    BY <1>3, <1>4
  <2>3. ASSUME NEW i \in 1 .. m PROVE p[i] \in P /\ loops[i] = Unstaged(p[i])
    BY <1>3, <1>4
  <2> QED BY <2>1, <2>2, <2>3
<1>8. ASSUME NEW i \in 1 .. m, NEW j \in 1 .. m, i < j, NEW b \in P, NEW c \in P,
             Unstaged(b) = loops[i], Unstaged(c) = loops[j]
      PROVE  b.stage <= c.stage
  <2>1. p[i] \in P /\ p[j] \in P /\ Unstaged(b) = Unstaged(p[i]) /\ Unstaged(c) = Unstaged(p[j])
    BY <1>3, <1>4, <1>8
  <2>2. b = p[i] /\ c = p[j]
    BY <2>1, UnstagedOnce DEF P
  <2> QED BY <1>3, <1>8, <2>2
<1> QED BY <1>5, <1>6, <1>7, <1>8 DEF loops, P

-----------------------------------------------------------------------------
(* The theorems.                                                           *)

\* assemble.py:967-1071: every variable keeps its type.
THEOREM TypeCorrect == Spec => []TypeOK
<1>1. Inv => TypeOK
  BY DEF Inv
<1> QED
  BY Invariance, <1>1, PTL

\* assemble.py:280-354, builder.py:1358-1380: whatever an attempt publishes out of a
\* container was missing before, in every interleaving of attempts, stops and damage.
THEOREM OnlyTheMissingIsBuilt == Spec => []BuildsOnlyWhatIsMissing
<1>1. Inv => BuildsOnlyWhatIsMissing
  BY DEF Inv, BuildsOnlyWhatIsMissing, BuildFits, CompilerDone, Prepared, At
<1> QED
  BY Invariance, <1>1, PTL

\* assemble.py:989-993, 1028-1034: at the binding the kit is valid and no publication
\* is missing, nor invalid after a repair or a rebuild.
THEOREM TheBindingIsComplete == Spec => []BindsWhatWasAsked
<1>1. Inv => BindsWhatWasAsked
  BY DEF Inv, BindsWhatWasAsked, KitComes, PublicationsFit, PlanFits, Busy, Ending,
         Building, Rendering, At
<1> QED
  BY Invariance, <1>1, PTL

\* assemble.py:243-366, 523-640: whatever stops, damage and attempts of other variants
\* came before, an attempt that is refused is refused for a wreck.
THEOREM RefusalsAreWrecks == Spec => []OnlyWrecksRefuse
<1>1. Unbroken => OnlyWrecksRefuse
  BY DEF Unbroken
<1> QED
  BY <1>1, UnbrokenAlways, PTL

\* Without stops and damage every attempt assembles its variant, in whatever order
\* variants come and with whatever flags.
THEOREM UndisturbedAssemble == Spec => []UndisturbedAttemptsAssemble
<1>1. TypeOK /\ Sound /\ Tidy => UndisturbedAttemptsAssemble
  <2> SUFFICES ASSUME TypeOK, Sound, Tidy, stops = 0, damages = 0
               PROVE  outcome \in {"none", "assembled"} /\ (pc = "idle" => ~Wreck)
    BY DEF UndisturbedAttemptsAssemble, At
  <2>1. pc = "idle" => \A a \in Artifacts : Clean(a)
    BY DEF Tidy, Building, Rendering
  <2>2. pc = "idle" => \A a \in Artifacts : spoilt[a] = "no"
    BY DEF Sound
  <2>3. request.kit \in Artifacts
    BY RequestsAssumption DEF TypeOK, Artifacts
  <2> QED
    BY <2>1, <2>2, <2>3 DEF Tidy, Wreck, Clean, Owned
<1>2. Unbroken => TypeOK /\ Sound /\ Tidy
  BY DEF Unbroken, Inv
<1> QED
  BY <1>1, <1>2, UnbrokenAlways, PTL

\* assemble.py:866-1034: each step of an attempt leaves it fewer to take, a natural
\* number of them: no attempt goes on for ever.
THEOREM AttemptsEndSoon == Spec => AttemptsEnd /\ [](StepsLeft \in Nat)
<1>1. Init => Finite
  BY FS_EmptySet DEF Init, Finite
<1>2. TypeOK /\ Finite /\ [Next]_vars => Finite'
  BY FiniteStep
<1>3. Inv => TypeOK
  BY DEF Inv
<1>4. TypeOK /\ Finite => StepsLeft \in Nat
  <2> SUFFICES ASSUME TypeOK, Finite PROVE StepsLeft \in Nat
    OBVIOUS
  <2>1. Cardinality(builds) \in Nat /\ Cardinality(unpublished) \in Nat
    BY FS_CardinalityType DEF Finite
  <2> QED
    BY <2>1, StepsAreNatural DEF StepsLeft
<1>5. Inv /\ Finite => [Attempt => StepsLeft' < StepsLeft]_vars
  BY StepsDecrease
<1> QED
  BY Invariance, <1>1, <1>2, <1>3, <1>4, <1>5, PTL DEF Spec, AttemptsEnd

\* assemble.py:280-366: whatever is in the store and in whatever order the variant lists
\* its runtimes, the loops make the builds of PlanAssembly, each once, stage by stage.
THEOREM PlanIsLoops == Spec => []PlanFollowsLoops
<1>1. Inv => PlanFollowsLoops
  BY LoopsMakeThePlan DEF Inv
<1> QED
  BY Invariance, <1>1, PTL

\* docs/architecture.md:57-60: no attempt but --rebuild takes away a valid artifact
\* or publication, whatever earlier attempts have left.
THEOREM ValidWorkStays == Spec => ValidWorkIsKept
<1> DEFINE Kept ==
      pc # "idle" /\ ~request.rebuild =>
        /\ \A a \in Artifacts : artifact[a] = "valid" => artifact'[a] = "valid"
        /\ \A r \in Runtimes : publication[r] = "valid" => publication'[r] = "valid"
<1>1. ASSUME Inv, [Next]_vars PROVE Kept
  <2> USE DEF At, store
  <2> SUFFICES ASSUME pc # "idle", ~request.rebuild
               PROVE  /\ \A a \in Artifacts : artifact[a] = "valid" => artifact'[a] = "valid"
                      /\ \A r \in Runtimes :
                           publication[r] = "valid" => publication'[r] = "valid"
    OBVIOUS
  <2>0. TypeOK /\ WorkspacesHold /\ BuildFits /\ PublicationsFit
    BY <1>1 DEF Inv
  <2>1. CASE UNCHANGED <<artifact, publication>>
    BY <2>1
  <2>2. ASSUME NEW a \in Artifacts, Clear(a)
        PROVE  artifact[a] # "valid" /\ UNCHANGED publication
               /\ \A x \in Artifacts : x # a => artifact'[x] = artifact[x]
    <3>1. \/ pc = "compiler" /\ a = build.compiler /\ build.cmode = "rebuild"
          \/ pc = "runtime" /\ a = build.runtime /\ a # build.compiler /\ build.rmode = "rebuild"
      <4>1. build.compiler \in Kits \cup {None} /\ build.runtime \in Runtimes \cup {None}
        BY <2>0 DEF TypeOK, BuildRecords
      <4> QED
        BY <2>2, <4>1, ArtifactsAssumption DEF Clear, Entering, Rebuilding, Artifacts
    <3>2. a # None
      BY ArtifactsAssumption
    <3>3. artifact[a] # "valid"
      BY <2>0, <3>1, <3>2 DEF BuildFits, RuntimeToCome, Fits
    <3> QED
      BY <2>0, <2>2, <3>3 DEF Clear, TypeOK
  <2>3. ASSUME NEW a \in Artifacts, Mark(a)
        PROVE  artifact[a] # "valid" /\ UNCHANGED publication
               /\ \A x \in Artifacts : x # a => artifact'[x] = artifact[x]
    BY <2>0, <2>3 DEF Mark, Entering, BuildFits, WorkspacesHold, TypeOK
  <2>4. CASE FinishCompiler
    BY <2>0, <2>4 DEF FinishCompiler, TypeOK
  <2>5. CASE FinishRuntime
    BY <2>0, <2>5 DEF FinishRuntime, TypeOK
  <2>6. ASSUME NEW r \in unpublished, SetAside(r)
        PROVE  UNCHANGED artifact
               /\ \A s \in Runtimes : publication[s] = "valid" => publication'[s] = "valid"
    BY <2>0, <2>6 DEF SetAside, PublicationsFit, Busy, Ending, TypeOK
  <2>7. CASE Publish
    BY <2>0, <2>7 DEF Publish, TypeOK
  <2>8. \/ UNCHANGED <<artifact, publication>>
        \/ \E a \in Artifacts : Clear(a) \/ Mark(a)
        \/ FinishCompiler \/ FinishRuntime \/ Publish
        \/ \E r \in unpublished : SetAside(r)
    BY <1>1 DEF Next, Attempt, vars, Begin, RefuseInvalid, Discover, NextBuild, Resume,
       RefuseRender, OpenManifest, Rendered, RefuseBuild, Compile, EndBuilds, EndPublish,
       Bind, Stop, Damage
  <2> QED
    BY <2>1, <2>2, <2>3, <2>4, <2>5, <2>6, <2>7, <2>8
<1> QED
  BY Invariance, <1>1, PTL DEF Spec, ValidWorkIsKept
=============================================================================
