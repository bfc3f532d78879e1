--------------------------- MODULE ManagedAssembly ---------------------------
(***************************************************************************)
(* Managed assembly of a variant (managed/assemble.py) over the artifacts   *)
(* of the producer store: what is missing or invalid is discovered, a plan  *)
(* of builds is made, a compiler kit and the runtime of its family sharing  *)
(* one build where they can, the builds render or resume the workspaces of  *)
(* managed/builder.py, and runtimes are published and bound.                *)
(*                                                                          *)
(* One attempt runs at a time: attempts that share an artifact exclude each *)
(* other by its lease.  Attempts of different variants come in any order    *)
(* and may stop anywhere.  Artifacts are damaged only between attempts.     *)
(***************************************************************************)
EXTENDS Naturals, FiniteSets

CONSTANTS
  Kits,       \* compiler kits
  Runtimes,   \* raw runtimes
  Provider,   \* the kit of the family that builds each runtime
  Requests,   \* [kit, runtimes, rebuild, repair] of the attempts
  None,       \* no artifact
  StopPoints, \* where an attempt may be stopped (an error, Ctrl-C, a kill)
  MaxStops,   \* bound on the number of stopped attempts
  MaxDamage   \* bound on the number of damaged trees

Artifacts == Kits \cup Runtimes

Points == {"idle", "discover", "next", "compiler", "runtime", "clearing", "marked",
           "open", "compile", "finish_compiler", "finish_runtime", "publish", "swap",
           "bind"}

ASSUME ArtifactsAssumption ==
  /\ Kits \cap Runtimes = {} /\ None \notin Artifacts
  /\ Provider \in [Runtimes -> Kits]
ASSUME RequestsAssumption ==
  /\ Requests \subseteq [kit : Kits, runtimes : SUBSET Runtimes,
                         rebuild : BOOLEAN, repair : BOOLEAN]
  \* A variant lists its runtimes: one GCC and one LLVM runtime at most, each with a
  \* provider of its family.
  /\ \A q \in Requests : IsFiniteSet(q.runtimes)
  /\ \A q \in Requests : \A r, s \in q.runtimes : Provider[r] = Provider[s] => r = s
ASSUME BoundsAssumption ==
  StopPoints \subseteq Points \ {"idle"} /\ MaxStops \in Nat /\ MaxDamage \in Nat

VARIABLES
  workspace,   \* of each artifact: "none", "bare" (files but no workspace.json), "torn"
               \* (a workspace.json that does not own it), "unmarked" (so, but readable
               \* as paired), "single" or "paired"
  spoilt,      \* what keeps the container out of it: "no"thing, "gutted" (without build.sh
               \* or output/) or "jammed" (a container id that cannot be read)
  artifact,    \* output/artifacts of each: "none", "valid" or "invalid"
  publication, \* of each runtime: "none", "valid" or "invalid"
  pc,          \* where the running attempt is; "idle" between attempts
  request,     \* its variant and flags
  builds,      \* the builds of its plan that are left
  build,       \* the one it is at
  target,      \* the artifact whose workspace is being rendered
  unpublished, \* runtimes it has yet to publish
  outcome,     \* how the last attempt ended
  stops,       \* number of stopped attempts
  damages      \* number of damaged trees

store == <<workspace, spoilt, artifact, publication>>
plan == <<builds, build, target, unpublished>>
counts == <<stops, damages>>
vars == <<store, pc, request, plan, outcome, counts>>

Owned == {"single", "paired"}
Modes == {"create", "rebuild", "preserve"}
NoBuild == [compiler |-> None, cmode |-> "create", runtime |-> None, rmode |-> "create",
            stage |-> 0]
BuildRecords ==
  [compiler : Kits \cup {None}, cmode : Modes, runtime : Runtimes \cup {None},
   rmode : Modes, stage : 0 .. 4]
Refusals == {"invalid_artifact", "invalid_publication", "nonempty", "unowned",
             "invalid_workspace", "mode_changed", "nothing_to_build", "malformed_cidfile"}

TypeOK ==
  /\ workspace \in [Artifacts -> Owned \cup {"none", "bare", "torn", "unmarked"}]
  /\ spoilt \in [Artifacts -> {"no", "gutted", "jammed"}]
  /\ artifact \in [Artifacts -> {"none", "valid", "invalid"}]
  /\ publication \in [Runtimes -> {"none", "valid", "invalid"}]
  /\ pc \in Points
  /\ request \in Requests
  /\ builds \subseteq BuildRecords /\ build \in BuildRecords
  /\ target \in Artifacts \cup {None}
  /\ unpublished \subseteq Runtimes
  /\ outcome \in {"none", "assembled", "stopped"} \cup Refusals
  /\ stops \in 0 .. MaxStops /\ damages \in 0 .. MaxDamage

Init ==
  /\ workspace = [a \in Artifacts |-> "none"]
  /\ spoilt = [a \in Artifacts |-> "no"]
  /\ artifact = [a \in Artifacts |-> "none"]
  /\ publication = [r \in Runtimes |-> "none"]
  /\ pc = "idle" /\ request \in Requests
  /\ builds = {} /\ build = NoBuild /\ target = None /\ unpublished = {}
  /\ outcome = "none" /\ stops = 0 /\ damages = 0

At(point) == pc = point
Goto(point) == pc' = point /\ UNCHANGED <<request, outcome, counts>>

\* The end of an attempt; its plan is gone.
NoPlan == builds' = {} /\ build' = NoBuild /\ target' = None /\ unpublished' = {}
End(how) == pc' = "idle" /\ outcome' = how /\ NoPlan /\ UNCHANGED <<request, counts>>

-----------------------------------------------------------------------------
(* _discover_assembly_state.                                               *)

\* Mutant: repair rebuilds valid artifacts too.
MutDisposition(a) ==
  IF request.rebuild \/ request.repair \/ artifact[a] = "invalid" THEN "rebuild"
  ELSE IF artifact[a] = "valid" THEN "reuse" ELSE "build"

\* What a fresh look at an artifact asks for.
Disposition(a) ==
  IF request.rebuild \/ artifact[a] = "invalid" THEN "rebuild"
  ELSE IF artifact[a] = "valid" THEN "reuse" ELSE "build"

\* Mutant: repair does not look at the payload.
MutPublicationReady(r) == ~request.rebuild /\ publication[r] # "none"

\* A publication with a receipt is ready; only repair looks at its payload here.
PublicationReady(r) ==
  /\ ~request.rebuild
  /\ publication[r] # "none"
  /\ request.repair => publication[r] = "valid"

RuntimeDisposition(r) == IF PublicationReady(r) THEN "reuse" ELSE Disposition(r)

\* The kits whose state is looked at: the selected one and the providers of
\* runtimes that must be built.
Contexts ==
  {request.kit} \cup
    {Provider[r] : r \in {s \in request.runtimes : RuntimeDisposition(s) # "reuse"}}

\* Without repair an invalid artifact that is looked at raises.
Invalid ==
  /\ ~request.rebuild /\ ~request.repair
  /\ \/ \E k \in Contexts : artifact[k] = "invalid"
     \/ \E r \in request.runtimes : ~PublicationReady(r) /\ artifact[r] = "invalid"

NoManifest(a) == workspace[a] \in {"none", "bare"}
UsesPairedBuild(k) == workspace[k] \in {"paired", "unmarked"}

\* Mutant: any kit may be paired.
MutPairing(r) == Provider[r] \in Contexts

Pairing(r) ==
  LET k == Provider[r]
  IN  /\ k \in Contexts
      /\ \/ request.rebuild
         \/ NoManifest(k) /\ NoManifest(r)
         \/ UsesPairedBuild(k)

-----------------------------------------------------------------------------
(* plan_assembly: builds in four stages.  Runtimes of one request have      *)
(* different providers, so within a stage their order does not matter.      *)

Mode(disposition) ==
  CASE disposition = "reuse" -> "preserve"
    [] disposition = "rebuild" -> "rebuild"
    [] disposition = "build" -> "create"

Paired(k, r, stage) ==
  [compiler |-> k, cmode |-> Mode(Disposition(k)),
   runtime |-> r, rmode |-> Mode(RuntimeDisposition(r)), stage |-> stage]
Alone(k, stage) ==
  [compiler |-> k, cmode |-> Mode(Disposition(k)),
   runtime |-> None, rmode |-> "create", stage |-> stage]
RuntimeAlone(r, stage) ==
  [compiler |-> None, cmode |-> "create",
   runtime |-> r, rmode |-> Mode(RuntimeDisposition(r)), stage |-> stage]

\* The selected kit with the runtime of its family, unless both are there.
SelectedPairs ==
  {r \in request.runtimes :
     /\ Provider[r] = request.kit
     /\ ~PublicationReady(r)
     /\ Disposition(request.kit) # "reuse" \/ RuntimeDisposition(r) # "reuse"
     /\ Pairing(r)}

\* The runtimes of other families with their kits.
ProviderPairs ==
  {r \in request.runtimes :
     /\ RuntimeDisposition(r) # "reuse"
     /\ Provider[r] # request.kit
     /\ Pairing(r)}

\* Mutant: only pairs with other kits count as built.
MutSingleRuntimes ==
  {r \in request.runtimes : RuntimeDisposition(r) # "reuse" /\ r \notin ProviderPairs}

SingleRuntimes ==
  {r \in request.runtimes :
     RuntimeDisposition(r) # "reuse" /\ r \notin SelectedPairs \cup ProviderPairs}

\* Mutant: the selected kit is built alone although a pair has built it.
MutPlanAssembly ==
  {Paired(request.kit, r, 1) : r \in SelectedPairs}
  \cup (IF Disposition(request.kit) # "reuse" THEN {Alone(request.kit, 2)} ELSE {})
  \cup {Paired(Provider[r], r, 3) : r \in ProviderPairs}
  \cup {RuntimeAlone(r, 4) : r \in SingleRuntimes}

PlanAssembly ==
  {Paired(request.kit, r, 1) : r \in SelectedPairs}
  \cup (IF SelectedPairs = {} /\ Disposition(request.kit) # "reuse"
          THEN {Alone(request.kit, 2)} ELSE {})
  \cup {Paired(Provider[r], r, 3) : r \in ProviderPairs}
  \cup {RuntimeAlone(r, 4) : r \in SingleRuntimes}

-----------------------------------------------------------------------------
(* An attempt: assemble_variant.                                           *)

Begin(q) ==
  /\ At("idle")
  /\ pc' = "discover"
  /\ request' = q
  /\ UNCHANGED <<store, plan, outcome, counts>>

RefuseInvalid ==
  /\ At("discover")
  /\ Invalid
  /\ End("invalid_artifact")
  /\ UNCHANGED store

Discover ==
  /\ At("discover")
  /\ ~Invalid
  /\ builds' = PlanAssembly
  /\ unpublished' = {r \in request.runtimes : ~PublicationReady(r)}
  /\ Goto("next")
  /\ UNCHANGED <<store, build, target>>

NextBuild(b) ==
  /\ At("next")
  /\ b \in builds
  /\ \A c \in builds : b.stage <= c.stage
  /\ build' = b
  /\ builds' = builds \ {b}
  /\ Goto(IF b.compiler # None THEN "compiler" ELSE "runtime")
  /\ UNCHANGED <<store, target, unpublished>>

-----------------------------------------------------------------------------
(* Rendering or resuming a workspace: _build_artifact, _build_pair and      *)
(* builder.render_workspace.                                                *)

IsPair == build.compiler # None /\ build.runtime # None
Rebuilding(a) == IF a = build.compiler THEN build.cmode = "rebuild" ELSE build.rmode = "rebuild"

\* At the workspace of artifact a.
Entering(a) ==
  \/ At("compiler") /\ a = build.compiler
  \/ At("runtime") /\ a = build.runtime

After(a) == IF a = build.compiler /\ IsPair THEN "runtime" ELSE "compile"

Resume(a) ==
  /\ Entering(a)
  /\ ~Rebuilding(a) /\ ~NoManifest(a)
  /\ Goto(After(a))
  /\ UNCHANGED <<store, plan>>

\* A directory with anything in it is replaced only if forced and owned.
RefuseRender(a) ==
  /\ Entering(a)
  /\ \/ ~Rebuilding(a) /\ workspace[a] = "bare" /\ End("nonempty")
     \/ Rebuilding(a) /\ workspace[a] \in {"bare", "torn", "unmarked"} /\ End("unowned")
  /\ UNCHANGED store

\* rmtree of the workspace, artifact and all; a stop may leave any part of it, the
\* manifest and the marker without build.sh or output/ too.
Clear(a) ==
  /\ Entering(a)
  /\ Rebuilding(a) /\ workspace[a] \in Owned
  /\ \E left \in {workspace[a], "none", "bare",
                  IF workspace[a] = "paired" THEN "unmarked" ELSE "torn"},
        trouble \in {spoilt[a], "no", "gutted"},
        rest \in {artifact[a], "none", "invalid"} :
       /\ left = "none" \/ artifact[a] = "none" => rest = "none"
       /\ left \notin Owned => trouble = "no"
       /\ spoilt[a] = "gutted" /\ left \in Owned => trouble = "gutted"
       /\ workspace' = [workspace EXCEPT ![a] = left]
       /\ spoilt' = [spoilt EXCEPT ![a] = trouble]
       /\ artifact' = [artifact EXCEPT ![a] = rest]
  /\ target' = a
  /\ Goto("clearing")
  /\ UNCHANGED <<publication, builds, build, unpublished>>

\* A new directory with the marker.
Mark(a) ==
  /\ \/ Entering(a) /\ workspace[a] = "none"
     \/ At("clearing") /\ a = target
  /\ workspace' = [workspace EXCEPT ![a] = "bare"]
  /\ spoilt' = [spoilt EXCEPT ![a] = "no"]
  /\ artifact' = [artifact EXCEPT ![a] = "none"]
  /\ target' = a
  /\ Goto("marked")
  /\ UNCHANGED <<publication, builds, build, unpublished>>

OpenManifest ==
  /\ At("marked")
  /\ workspace' = [workspace EXCEPT ![target] = "torn"]
  /\ Goto("open")
  /\ UNCHANGED <<spoilt, artifact, publication, plan>>

\* Only the kit of a paired build is rendered as paired.
Rendered ==
  /\ At("open")
  /\ workspace' = [workspace EXCEPT ![target] =
                     IF target = build.compiler /\ IsPair THEN "paired" ELSE "single"]
  /\ target' = None
  /\ Goto(After(target))
  /\ UNCHANGED <<spoilt, artifact, publication, builds, build, unpublished>>

-----------------------------------------------------------------------------
(* build_with_docker.                                                      *)

Primary == IF build.compiler # None THEN build.compiler ELSE build.runtime

\* Marker, manifest, build.sh and output/ are there.
Complete(a) == workspace[a] \in Owned /\ spoilt[a] # "gutted"

\* The runtime of a pair comes after the mode of the kit, the container id of an earlier
\* container last.
RefuseBuild ==
  /\ At("compile")
  /\ IF ~Complete(Primary) THEN End("invalid_workspace")
     ELSE IF IsPair /\ build.cmode = "preserve" /\ build.rmode = "preserve"
       THEN End("nothing_to_build")
     ELSE IF (workspace[Primary] = "paired") # IsPair THEN End("mode_changed")
     ELSE IF IsPair /\ ~Complete(build.runtime) THEN End("invalid_workspace")
     ELSE spoilt[Primary] = "jammed" /\ End("malformed_cidfile")
  /\ UNCHANGED store

CanCompile ==
  /\ At("compile")
  /\ Complete(Primary) /\ spoilt[Primary] # "jammed"
  /\ (workspace[Primary] = "paired") = IsPair
  /\ IsPair => /\ build.cmode # "preserve" \/ build.rmode # "preserve"
               /\ Complete(build.runtime)

\* The container builds what is not preserved; anything less is an error (Stop).
Compile ==
  /\ CanCompile
  /\ Goto(IF build.compiler # None /\ build.cmode # "preserve" THEN "finish_compiler"
          ELSE "finish_runtime")
  /\ UNCHANGED <<store, plan>>

\* _finalize_and_publish_artifact; the kit comes first.
FinishCompiler ==
  /\ At("finish_compiler")
  /\ artifact' = [artifact EXCEPT ![build.compiler] = "valid"]
  /\ Goto(IF IsPair /\ build.rmode # "preserve" THEN "finish_runtime" ELSE "next")
  /\ UNCHANGED <<workspace, spoilt, publication, plan>>

FinishRuntime ==
  /\ At("finish_runtime")
  /\ artifact' = [artifact EXCEPT ![build.runtime] = "valid"]
  /\ Goto("next")
  /\ UNCHANGED <<workspace, spoilt, publication, plan>>

-----------------------------------------------------------------------------
(* _publish_runtime_components, and the binding.                           *)

EndBuilds ==
  /\ At("next")
  /\ builds = {}
  /\ Goto("publish")
  /\ UNCHANGED <<store, plan>>

\* The raw runtime is loaded; replace_directory sets the previous publication aside ...
SetAside(r) ==
  /\ At("publish")
  /\ r \in unpublished
  /\ IF artifact[r] # "valid"
       THEN End("invalid_artifact") /\ UNCHANGED publication
       ELSE /\ publication' = [publication EXCEPT ![r] = "none"]
            /\ target' = r
            /\ Goto("swap")
            /\ UNCHANGED <<builds, build, unpublished>>
  /\ UNCHANGED <<workspace, spoilt, artifact>>

\* ... and the new one is put in place and validated.
Publish ==
  /\ At("swap")
  /\ publication' = [publication EXCEPT ![target] = "valid"]
  /\ unpublished' = unpublished \ {target}
  /\ target' = None
  /\ Goto("publish")
  /\ UNCHANGED <<workspace, spoilt, artifact, builds, build>>

EndPublish ==
  /\ At("publish")
  /\ unpublished = {}
  /\ Goto("bind")
  /\ UNCHANGED <<store, plan>>

\* The kit is loaded, the runtime set published, and the binding validates the
\* payload of each runtime.
Bind ==
  /\ At("bind")
  /\ IF artifact[request.kit] # "valid" THEN End("invalid_artifact")
     ELSE IF \E r \in request.runtimes : publication[r] # "valid"
       THEN End("invalid_publication")
     ELSE End("assembled")
  /\ UNCHANGED store

-----------------------------------------------------------------------------
(* Stops and damage.                                                       *)

\* A kill may leave docker's file for the container id empty.
Stop ==
  /\ pc \in StopPoints
  /\ stops < MaxStops
  /\ pc' = "idle" /\ outcome' = "stopped" /\ stops' = stops + 1
  /\ NoPlan
  /\ \/ UNCHANGED spoilt
     \/ CanCompile /\ spoilt' = [spoilt EXCEPT ![Primary] = "jammed"]
  /\ UNCHANGED <<workspace, artifact, publication, request, damages>>

\* A payload changes behind the program's back, the case that repair is for.
Damage ==
  /\ At("idle")
  /\ damages < MaxDamage
  /\ damages' = damages + 1
  /\ \/ \E a \in Artifacts :
          /\ artifact[a] = "valid"
          /\ artifact' = [artifact EXCEPT ![a] = "invalid"]
          /\ UNCHANGED publication
     \/ \E r \in Runtimes :
          /\ publication[r] = "valid"
          /\ publication' = [publication EXCEPT ![r] = "invalid"]
          /\ UNCHANGED artifact
  /\ UNCHANGED <<workspace, spoilt, pc, request, plan, outcome, stops>>

Attempt ==
  \/ RefuseInvalid \/ Discover
  \/ \E b \in builds : NextBuild(b)
  \/ \E a \in Artifacts : Resume(a) \/ RefuseRender(a) \/ Clear(a) \/ Mark(a)
  \/ OpenManifest \/ Rendered
  \/ RefuseBuild \/ Compile \/ FinishCompiler \/ FinishRuntime
  \/ EndBuilds
  \/ \E r \in unpublished : SetAside(r)
  \/ Publish \/ EndPublish \/ Bind

Next ==
  \/ \E q \in Requests : Begin(q)
  \/ Attempt
  \/ Stop
  \/ Damage

\* A started attempt runs on, and attempts are made again.
Spec ==
  /\ Init /\ [][Next]_vars
  /\ WF_vars(Attempt) /\ WF_vars(\E q \in Requests : Begin(q))

-----------------------------------------------------------------------------
(* Properties.                                                             *)

\* docs/architecture.md:57-60: "does not deliberately rebuild an already-valid
\* immutable producer artifact".  Only --rebuild takes anything valid away.
ValidWorkIsKept ==
  [][pc # "idle" /\ ~request.rebuild =>
       /\ \A a \in Artifacts : artifact[a] = "valid" => artifact'[a] = "valid"
       /\ \A r \in Runtimes : publication[r] = "valid" => publication'[r] = "valid"]_vars

\* assemble.py:280-354: a plan builds nothing that is there, and nothing twice: what
\* is published out of a container was missing.
BuildsOnlyWhatIsMissing ==
  /\ At("finish_compiler") => artifact[build.compiler] = "none"
  /\ At("finish_runtime") => artifact[build.runtime] = "none"

\* assemble.py:989-993: what reaches the binding is complete, and after a repair
\* it is valid; only plain attempts leave the payload of a publication to the binding.
BindsWhatWasAsked ==
  At("bind") =>
    /\ artifact[request.kit] = "valid"
    /\ \A r \in request.runtimes :
         /\ publication[r] # "none"
         /\ request.rebuild \/ request.repair => publication[r] = "valid"

\* A workspace some later attempt may refuse: one that a stop in its rendering, in
\* its removal or around its container has left, or that of a kit begun with a
\* runtime this request does not need; or damage that a plain attempt does not repair.
Wreck ==
  \/ \E a \in Artifacts : workspace[a] \in {"bare", "torn", "unmarked"} \/ spoilt[a] # "no"
  \/ /\ workspace[request.kit] = "paired" /\ artifact[request.kit] = "none"
     /\ \A r \in request.runtimes :
          Provider[r] = request.kit => publication[r] # "none"
  \/ /\ ~request.rebuild /\ ~request.repair
     /\ \/ \E a \in Artifacts : artifact[a] = "invalid"
        \/ \E r \in Runtimes : publication[r] = "invalid"

\* assemble.py:243-366, 523-640: an attempt that is neither stopped nor makes a
\* wreck of its own assembles its variant: no plan leads it to a workspace of another
\* kind, to a preserved pair or to a runtime that nothing has built.
OnlyWrecksRefuse == At("idle") /\ outcome \in Refusals => Wreck

\* The same code: without stops and damage, attempts of any variants in any order, with
\* any flags, assemble them all and leave no wreck.
UndisturbedAttemptsAssemble ==
  stops = 0 /\ damages = 0 =>
    outcome \in {"none", "assembled"} /\ (At("idle") => ~Wreck)

\* The most steps the running attempt can still take, from where it is ...
StepsFrom(point) ==
  CASE point = "idle" -> 0
    [] point = "bind" -> 1
    [] point = "swap" -> 2
    [] point = "publish" -> 3
    [] point = "next" -> 4
    [] point = "finish_runtime" -> 5
    [] point = "finish_compiler" -> 6
    [] point = "compile" -> 7
    [] point = "open" -> IF target = build.compiler THEN 12 ELSE 8
    [] point = "marked" -> IF target = build.compiler THEN 13 ELSE 9
    [] point = "clearing" -> IF target = build.compiler THEN 14 ELSE 10
    [] point = "runtime" -> 11
    [] point = "compiler" -> 15
    [] point = "discover" -> 12 * Cardinality(PlanAssembly) + 2 * Cardinality(request.runtimes) + 5

\* ... with the builds and the publications that are left.
StepsLeft == 12 * Cardinality(builds) + 2 * Cardinality(unpublished) + StepsFrom(pc)

\* assemble.py:866-1034: no attempt goes on for ever: whatever it finds and whichever
\* way it takes, each step leaves it fewer to take.
AttemptsEnd == [][Attempt => StepsLeft' < StepsLeft]_vars

\* docs/managed-compilers.md:178: "After an interruption, run the same command
\* again; matching producer work is reused after validation."  But for wrecks, once
\* stops and damage have ceased every attempt assembles its variant.
RerunsRecover == <>[](At("idle") => outcome = "assembled" \/ Wreck)

\* The same without the exception.
RerunsAlwaysRecover == <>[](At("idle") => outcome = "assembled")
=============================================================================
