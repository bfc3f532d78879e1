---------------------------- MODULE SdkWorkspace ----------------------------
(***************************************************************************)
(* The life of one SDK workspace of the producer store (sdk/crosstool_ng.py *)
(* as driven by setup._ensure_sdk): rendering, the crosstool-NG build and   *)
(* its receipt, the export of the SDK tree and the "built" state that       *)
(* managed assembly demands of a compiler backend.                          *)
(*                                                                          *)
(* One attempt at a time holds the exclusive lease of the workspace; the    *)
(* setups that have ensured it consume it later, under a shared lease, when *)
(* other attempts may have come between.  Every file written in place       *)
(* (marker, defconfig, workspace.json) is open for a step, so an attempt    *)
(* that stops there leaves it torn; files published by rename (receipt, SDK *)
(* tree) do not tear.  What each file says is abstracted to what the code   *)
(* tests of it.  The builder contract is part of the store identity, so one *)
(* workspace sees one contract.                                             *)
(***************************************************************************)
EXTENDS Naturals

CONSTANTS
  Commands,   \* the setups that use the workspace: [goal, force] records
  Reruns,     \* for each command, those that may be run after it
  StopPoints, \* for each, where it may be stopped (an error, Ctrl-C, a kill)
  MaxStops    \* bound on the number of stopped attempts

Goals == {"sdk", "full"}

\* The steps of an attempt, in the order of the code.
RenderPoints == {"render", "mark", "defconfig", "render_manifest", "manifest_open"}
BuildPoints == {"build", "reset_toolchain", "reset_build", "reset_defconfig",
                "acquire", "record", "record_open", "unreceipt", "container",
                "running", "receipt"}
ExportPoints == {"export", "swap", "state", "state_open"}
Points == {"idle", "check"} \cup RenderPoints \cup BuildPoints \cup ExportPoints

ASSUME CommandsAssumption == Commands \subseteq [goal : Goals, force : BOOLEAN]
ASSUME RerunsAssumption == Reruns \in [Commands -> SUBSET Commands]
ASSUME StopPointsAssumption == StopPoints \in [Commands -> SUBSET (Points \ {"idle"})]
ASSUME MaxStopsAssumption == MaxStops \in Nat

VARIABLES
  marker,    \* .linux-toolchain-workspace: "none", "torn" or "ok"
  manifest,  \* workspace.json: "none", "torn" or "ok"
  state,     \* its "state" field
  prov,      \* the builder provenance it records: "none" or "recorded"
  defconfig, \* build/crosstool-ng/defconfig: "none" or the spec's, "ok"
  receipt,   \* goal of the toolchain receipt, or "none"
  outputs,   \* goal the toolchain outputs are complete for, "partial" or "none"
  sdk,       \* the exported SDK: "none" or "tree"
  hidden,    \* the backup of the running replace_directory: "none" or "tree"
  pc,        \* where the running attempt is; "idle" when the lease is free
  command,   \* its goal and force flag
  found,     \* the goals the workspace was ready for when the attempt began
  pending,   \* goals of setups that have ensured but not yet consumed
  outcome,   \* how the last attempt or consumption ended
  stops      \* number of stopped attempts

files == <<marker, manifest, state, prov, defconfig, receipt, outputs, sdk, hidden>>
users == <<pending, outcome, stops>>
attempt == <<pc, command, found>>
vars == <<files, attempt, users>>

Refusals == {"invalid_workspace", "needs_force", "unowned", "needs_render",
             "changed", "incomplete_backend"}

TypeOK ==
  /\ marker \in {"none", "torn", "ok"}
  /\ manifest \in {"none", "torn", "ok"}
  /\ state \in {"rendered", "built"}
  /\ prov \in {"none", "recorded"} /\ defconfig \in {"none", "ok"}
  /\ receipt \in Goals \cup {"none"}
  /\ outputs \in Goals \cup {"none", "partial"}
  /\ sdk \in {"none", "tree"} /\ hidden \in {"none", "tree"}
  /\ pc \in Points
  /\ command \in Commands
  /\ found \subseteq Goals
  /\ pending \subseteq Goals
  /\ outcome \in {"none", "ensured", "stopped", "consumed"} \cup Refusals
  /\ stops \in Nat /\ stops <= MaxStops

Init ==
  /\ marker = "none" /\ manifest = "none" /\ state = "rendered"
  /\ prov = "none" /\ defconfig = "none"
  /\ receipt = "none" /\ outputs = "none" /\ sdk = "none" /\ hidden = "none"
  /\ pc = "idle" /\ command \in Commands /\ found = {}
  /\ pending = {} /\ outcome = "none" /\ stops = 0

-----------------------------------------------------------------------------
(* What the code tests of the workspace.                                   *)

\* _goal_satisfies: a full build also serves the SDK goal.
Satisfies(recorded, requested) ==
  recorded \in Goals /\ (recorded = requested \/ recorded = "full")

\* _toolchain_outputs_ready looks for a few files of the goal, which a tree
\* that is being built or removed may well contain.
OutputsLookReady(goal) == outputs = "partial" \/ Satisfies(outputs, goal)

\* workspace_satisfies_build_goal: receipt, manifest, defconfig, provenance
\* and outputs agree.
BuildSatisfied(goal) ==
  /\ Satisfies(receipt, goal)
  /\ manifest = "ok" /\ prov = "recorded" /\ defconfig = "ok"
  /\ OutputsLookReady(goal)

\* setup._sdk_is_ready.
Ready(goal) == sdk = "tree" /\ BuildSatisfied(goal)

\* The directory is not empty.
Populated == marker # "none"

\* render_workspace's test that a forced render may overwrite.
Owned == marker = "ok" /\ manifest = "ok"

-----------------------------------------------------------------------------
(* An attempt of setup._ensure_sdk.                                        *)

At(point) == pc = point
Goto(point) == pc' = point /\ UNCHANGED <<command, found>>
End(how) == pc' = "idle" /\ outcome' = how /\ UNCHANGED <<command, found>>

Begin(c) ==
  /\ At("idle")
  /\ c \in Reruns[command]
  /\ pc' = "check"
  /\ command' = c
  /\ found' = {goal \in Goals : Ready(goal)}
  /\ UNCHANGED <<files, users>>

\* Mutant: the receipt alone decides whether a workspace is returned.
MutReuse ==
  /\ At("check")
  /\ BuildSatisfied(command.goal)
  /\ pending' = pending \cup {command.goal}
  /\ End("ensured")
  /\ UNCHANGED <<files, stops>>

\* The workspace is ready: it is returned as it is, with --force too.
Reuse ==
  /\ At("check")
  /\ Ready(command.goal)
  /\ pending' = pending \cup {command.goal}
  /\ End("ensured")
  /\ UNCHANGED <<files, stops>>

\* load_workspace outside the try: a torn workspace.json stops every run.
RefuseTorn ==
  /\ At("check")
  /\ ~Ready(command.goal)
  /\ manifest = "torn"
  /\ End("invalid_workspace")
  /\ UNCHANGED <<files, pending, stops>>

\* Mutant: --force dismantles a workspace that is ready.
MutContinue ==
  /\ At("check")
  /\ command.force \/ ~Ready(command.goal)
  /\ manifest # "torn"
  /\ Goto(IF manifest = "ok" /\ ~command.force THEN "build" ELSE "render")
  /\ UNCHANGED <<files, users>>

\* An existing workspace is resumed unless --force asks to render it again.
Continue ==
  /\ At("check")
  /\ ~Ready(command.goal)
  /\ manifest # "torn"
  /\ Goto(IF manifest = "ok" /\ ~command.force THEN "build" ELSE "render")
  /\ UNCHANGED <<files, users>>

\* render_workspace(force = command.force or an existing manifest).
RefuseRender ==
  /\ At("render")
  /\ Populated
  /\ IF command.force \/ manifest # "none"
       THEN ~Owned /\ End("unowned")
       ELSE End("needs_force")
  /\ UNCHANGED <<files, pending, stops>>

\* mkdir, then the marker is opened for writing ...
RenderMarker ==
  /\ At("render")
  /\ Populated => Owned
  /\ marker' = "torn"
  /\ Goto("mark")
  /\ UNCHANGED <<manifest, state, prov, defconfig, receipt, outputs, sdk, hidden, users>>

\* ... and written; the defconfig is opened ...
RenderMarked ==
  /\ At("mark")
  /\ marker' = "ok"
  /\ defconfig' = "none"
  /\ Goto("defconfig")
  /\ UNCHANGED <<manifest, state, prov, receipt, outputs, sdk, hidden, users>>

RenderDefconfig ==
  /\ At("defconfig")
  /\ defconfig' = "ok"
  /\ Goto("render_manifest")
  /\ UNCHANGED <<marker, manifest, state, prov, receipt, outputs, sdk, hidden, users>>

\* Opening workspace.json for writing truncates it.
OpenManifest(from, to) ==
  /\ At(from)
  /\ manifest' = "torn"
  /\ Goto(to)
  /\ UNCHANGED <<marker, state, prov, defconfig, receipt, outputs, sdk, hidden, users>>

\* A fresh manifest: state "rendered" and no provenance.
RenderManifest ==
  /\ At("manifest_open")
  /\ manifest' = "ok" /\ state' = "rendered" /\ prov' = "none"
  /\ Goto("build")
  /\ UNCHANGED <<marker, defconfig, receipt, outputs, sdk, hidden, users>>

-----------------------------------------------------------------------------
(* build_with_docker.                                                      *)

RefuseDefconfig ==
  /\ At("build")
  /\ defconfig # "ok"
  /\ End("needs_render")
  /\ UNCHANGED <<files, pending, stops>>

\* Without matching provenance the outputs are not trusted.
CheckProvenance ==
  /\ At("build")
  /\ defconfig = "ok"
  /\ Goto(IF prov = "recorded" THEN "acquire" ELSE "reset_toolchain")
  /\ UNCHANGED <<files, users>>

\* _reset_toolchain_for_builder_contract: toolchain, then build with the receipt and
\* the defconfig, then the defconfig again.  A stop may leave a part of each.
ResetToolchain ==
  /\ At("reset_toolchain")
  /\ outputs' \in {"none", "partial"}
  /\ receipt' \in {receipt, "none"} /\ defconfig' \in {defconfig, "none"}
  /\ Goto("reset_build")
  /\ UNCHANGED <<marker, manifest, state, prov, sdk, hidden, users>>

ResetBuild ==
  /\ At("reset_build")
  /\ outputs' = "none" /\ receipt' = "none" /\ defconfig' = "none"
  /\ Goto("reset_defconfig")
  /\ UNCHANGED <<marker, manifest, state, prov, sdk, hidden, users>>

ResetDefconfig ==
  /\ At("reset_defconfig")
  /\ defconfig' = "ok"
  /\ Goto("acquire")
  /\ UNCHANGED <<marker, manifest, state, prov, receipt, outputs, sdk, hidden, users>>

\* Mutant: recorded provenance is taken for a finished build.
MutAcquire ==
  /\ At("acquire")
  /\ Goto(IF prov = "recorded" THEN "export" ELSE "record")
  /\ UNCHANGED <<files, users>>

\* A build that already satisfies the goal is reused; otherwise the sources
\* and the builder image are acquired and the provenance is recorded.
Acquire ==
  /\ At("acquire")
  /\ Goto(IF BuildSatisfied(command.goal) THEN "export" ELSE "record")
  /\ UNCHANGED <<files, users>>

RecordProvenance ==
  /\ At("record_open")
  /\ manifest' = "ok" /\ prov' = "recorded"
  /\ Goto("unreceipt")
  /\ UNCHANGED <<marker, state, defconfig, receipt, outputs, sdk, hidden, users>>

\* Mutant: the receipt of the previous build stays while the next one runs.
MutRemoveReceipt ==
  /\ At("unreceipt")
  /\ Goto("container")
  /\ UNCHANGED <<files, users>>

RemoveReceipt ==
  /\ At("unreceipt")
  /\ receipt' = "none"
  /\ Goto("container")
  /\ UNCHANGED <<marker, manifest, state, prov, defconfig, outputs, sdk, hidden, users>>

\* ct-ng build replaces the previous toolchain prefix bit by bit ...
StartContainer ==
  /\ At("container")
  /\ outputs' = "partial"
  /\ Goto("running")
  /\ UNCHANGED <<marker, manifest, state, prov, defconfig, receipt, sdk, hidden, users>>

\* ... and leaves the outputs of the goal; anything less is an error (Stop).
FinishContainer ==
  /\ At("running")
  /\ outputs' = command.goal
  /\ Goto("receipt")
  /\ UNCHANGED <<marker, manifest, state, prov, defconfig, receipt, sdk, hidden, users>>

\* write_json_atomic, after the outputs have been checked.
WriteReceipt ==
  /\ At("receipt")
  /\ receipt' = command.goal
  /\ Goto("export")
  /\ UNCHANGED <<marker, manifest, state, prov, defconfig, outputs, sdk, hidden, users>>

-----------------------------------------------------------------------------
(* export_sdk and the use of the workspace.                                *)

\* replace_directory, first half: the previous SDK tree is set aside.
SetAsideSdk ==
  /\ At("export")
  /\ sdk' = "none" /\ hidden' = sdk
  /\ Goto("swap")
  /\ UNCHANGED <<marker, manifest, state, prov, defconfig, receipt, outputs, users>>

PublishSdk ==
  /\ At("swap")
  /\ sdk' = "tree" /\ hidden' = "none"
  /\ Goto("state")
  /\ UNCHANGED <<marker, manifest, state, prov, defconfig, receipt, outputs, users>>

\* Only now does workspace.json say "built".
WriteBuilt ==
  /\ At("state_open")
  /\ manifest' = "ok" /\ state' = "built"
  /\ pending' = pending \cup {command.goal}
  /\ End("ensured")
  /\ UNCHANGED <<marker, prov, defconfig, receipt, outputs, sdk, hidden, stops>>

\* Managed assembly under shared leases: _sdk_is_ready once more, and for a
\* compiler backend the "built" state (_compiler_backend_evidence).
Consume(goal) ==
  /\ At("idle")
  /\ goal \in pending
  /\ pending' = pending \ {goal}
  /\ IF Ready(goal) /\ (goal = "full" => state = "built")
       THEN outcome' = "consumed"
       ELSE outcome' = IF Ready(goal) THEN "incomplete_backend" ELSE "changed"
  /\ UNCHANGED <<files, attempt, stops>>

\* An error, Ctrl-C or a kill.  An exception inside replace_directory puts the
\* previous SDK tree back, a kill does not.
Stop ==
  /\ pc \in StopPoints[command]
  /\ stops < MaxStops
  /\ stops' = stops + 1
  /\ sdk' \in {sdk} \cup ({hidden} \ {"none"})
  /\ hidden' = "none"
  /\ End("stopped")
  /\ UNCHANGED <<marker, manifest, state, prov, defconfig, receipt, outputs, pending>>

Attempt ==
  \/ Reuse \/ RefuseTorn \/ Continue
  \/ RefuseRender \/ RenderMarker \/ RenderMarked \/ RenderDefconfig
  \/ OpenManifest("render_manifest", "manifest_open") \/ RenderManifest
  \/ RefuseDefconfig \/ CheckProvenance
  \/ ResetToolchain \/ ResetBuild \/ ResetDefconfig
  \/ Acquire \/ OpenManifest("record", "record_open") \/ RecordProvenance
  \/ RemoveReceipt \/ StartContainer \/ FinishContainer \/ WriteReceipt
  \/ SetAsideSdk \/ PublishSdk \/ OpenManifest("state", "state_open") \/ WriteBuilt

Next ==
  \/ \E c \in Commands : Begin(c)
  \/ Attempt
  \/ \E goal \in Goals : Consume(goal)
  \/ Stop

\* A started attempt runs on, a setup that ensured goes on to consume, and the
\* user runs the command again.
Fairness ==
  /\ WF_vars(Attempt)
  /\ WF_vars(\E c \in Commands : Begin(c))
  /\ \A goal \in Goals : SF_vars(Consume(goal))

Spec == Init /\ [][Next]_vars /\ Fairness

-----------------------------------------------------------------------------
(* Properties.                                                             *)

\* sdk/crosstool_ng.py:1374-1457: a workspace that a reader takes for ready has
\* complete outputs, although the file check alone would accept a half-built
\* toolchain, wherever earlier attempts were stopped.
ReadyMeansComplete ==
  \A goal \in Goals : Ready(goal) => Satisfies(outputs, goal)

\* docs/architecture.md:57-60: an attempt leaves a workspace ready for what it
\* was ready for, unless it upgrades an SDK build to a full one; --force and
\* stops make no difference.
ReadyOnlyLostToUpgrade ==
  [][pc # "idle" /\ pc' = "idle" =>
       \A goal \in found :
         Ready(goal)' \/ (goal = "sdk" /\ command.goal = "full")]_vars

\* What no rerun repairs: a first render that a stop left half-written or a
\* workspace.json torn in place, both refused for ever; a reset that has removed
\* the defconfig, which plain runs refuse; a complete export that workspace.json does
\* not call "built", which setup finds ready and assembly refuses.
Wreck ==
  /\ At("idle")
  /\ \/ Populated /\ ~Owned
     \/ Owned /\ defconfig = "none"
     \/ Ready("full") /\ state # "built"

\* Setup refuses a workspace (setup.py:429-483, sdk/crosstool_ng.py:613-632, 1505-1545)
\* only if it is one of those wrecks; "changed" is a consumer that an upgrade came before.
OnlyWrecksRefuse ==
  At("idle") /\ outcome \in Refusals \ {"changed"} => Wreck

\* setup.py:429-483: what an attempt returns is ready for its goal, and a full build
\* that a setup relies on stays ready whatever the attempts in between do.
EnsuredStaysReady ==
  At("idle") =>
    /\ outcome = "ensured" => Ready(command.goal)
    /\ "full" \in pending => Ready("full")

\* Where no attempt is stopped every setup gets the SDK it has ensured, in any order
\* of goals and --force flags.
UndisturbedSetupsConsume ==
  stops = 0 =>
    /\ outcome \in {"none", "ensured", "consumed"}
    /\ At("idle") => ~Wreck /\ \A goal \in pending : Ready(goal)

\* docs/managed-compilers.md:178: "After an interruption, run the same command
\* again; matching producer work is reused after validation."  Wherever attempts
\* were stopped, later ones get their SDK consumed, but for the wrecks.
RerunsRecover == []<>(outcome = "consumed" \/ Wreck)

\* The same without exceptions, as the documentation has it.
RerunsAlwaysRecover == []<>(outcome = "consumed")
=============================================================================
