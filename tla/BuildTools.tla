------------------------------ MODULE BuildTools ------------------------------
(* One build-tools producer workspace, as build_tools_builder.build_build_    *)
(* tools runs it under its exclusive producer lease: the workspace marker and *)
(* script, the builder image behind a tag, the staging directory, and the     *)
(* guarded container (container.temporary_container_run, process.run_logged). *)
(* Several docker clients may be alive: the one of this attempt and those of   *)
(* attempts that were killed.  A client opens the cidfile, has the daemon      *)
(* create a container, writes its id, and only then starts it; with --rm the   *)
(* daemon removes a container that has ended.                                 *)
EXTENDS Integers

CONSTANTS
  Clients,      \* names of docker clients and of their containers; a name is
                \* used again when nothing is left of its former bearer
  MaxPlain,     \* runs without --force (bound)
  MaxTroubles   \* kills, interrupts, failures outside this code (bound)

ASSUME BoundsAssumption == MaxPlain \in Nat /\ MaxTroubles \in Nat

Absent == "absent"
Empty == "empty"
Torn == "torn"
ASSUME NamesAssumption == Clients \cap {Absent, Empty} = {}

VARIABLES
  marker, manifest,   \* of the workspace: ownership marker, recorded selection
  script,             \* build/build.sh
  tag,                \* the image the builder's tag names: Absent, "mine", "other"
  artifact,           \* the published directory: by whom it was written
  staging,            \* the staging directory: what has written into it
  cidfile,            \* Absent, Empty, or the container it names
  client,             \* per client: how far it is
  container,          \* per client: its container at the daemon
  mounted,            \* the containers whose /output is the present staging
  pc, force, own, image,   \* of the attempt: its client, its image
  errand,             \* why it is removing a container
  killed,             \* the last attempt ended without its handlers (history)
  plain, troubles

workspace == <<marker, manifest, script>>
docker == <<tag, cidfile, client, container, mounted>>
attempt == <<force, own, image, errand, killed>>
vars == <<workspace, artifact, staging, docker, pc, attempt, plain, troubles>>

\* Who has written to a directory: this attempt's container alone; before it one
\* that a killed attempt's client started late; anything else.
Written == {"own", "overtaken", "mixed"}

Alive == {"starting", "opened", "created", "named", "running"}
Over == {"none", "ok", "failed"}
Working == {"workspace", "claim", "manifest", "existing", "sources", "script", "writing",
            "inspect", "build", "require", "staging"}
Guarded == {"spawn", "wait", "signal", "discard", "remove", "leave"}
Finishing == {"finalize", "aside", "install"}

TypeOK ==
  /\ marker \in {Absent, Torn, "good"}
  /\ manifest \in BOOLEAN
  /\ script \in {Absent, Torn, "good"}
  /\ tag \in {Absent, "mine", "other"}
  /\ artifact \in {Absent, "damaged"} \cup Written
  /\ staging \in {Absent, Empty} \cup Written
  /\ cidfile \in Clients \cup {Absent, Empty}
  /\ client \in [Clients -> Alive \cup Over]
  /\ container \in [Clients -> {Absent, "created", "running"}]
  /\ mounted \subseteq Clients
  /\ pc \in {"idle"} \cup Working \cup Guarded \cup Finishing
  /\ force \in BOOLEAN
  /\ own \in Clients
  /\ image \in {Absent, "mine", "other"}
  /\ errand \in {"stale", "cancel", "release"}
  /\ killed \in BOOLEAN
  /\ plain \in 0..MaxPlain
  /\ troubles \in 0..MaxTroubles

Init ==
  /\ marker = Absent /\ manifest = FALSE /\ script = Absent
  /\ tag = Absent
  /\ artifact = Absent /\ staging = Absent
  /\ cidfile = Absent
  /\ client = [c \in Clients |-> "none"]
  /\ container = [c \in Clients |-> Absent]
  /\ mounted = {}
  /\ pc = "idle" /\ force = FALSE /\ own \in Clients
  /\ image = Absent /\ errand = "stale"
  /\ killed = FALSE
  /\ plain = 0 /\ troubles = 0

-----------------------------------------------------------------------------
Go(from, to) == pc = from /\ pc' = to
Local == UNCHANGED <<attempt, plain, troubles>>
Trouble == troubles < MaxTroubles /\ troubles' = troubles + 1

\* Nothing is left of client c: a new one may get its name.
Unused(c) == client[c] \in Over /\ container[c] = Absent /\ cidfile # c

Begin(f) ==
  /\ Go("idle", "workspace")
  /\ force' = f
  /\ IF f THEN UNCHANGED plain ELSE plain < MaxPlain /\ plain' = plain + 1
  /\ \E c \in {d \in Clients : Unused(d)} :
       /\ own' = c
       /\ client' = [client EXCEPT ![c] = "none"]
       /\ mounted' = mounted \ {c}
  /\ image' = Absent /\ errand' = "stale" /\ killed' = FALSE
  /\ UNCHANGED <<workspace, artifact, staging, tag, cidfile, container, troubles>>

-----------------------------------------------------------------------------
(* _prepare_workspace, and an artifact that is there already.              *)

UseWorkspace ==
  /\ Go("workspace", "existing") /\ marker = "good" /\ manifest
  /\ Local /\ UNCHANGED <<workspace, artifact, staging, docker>>

\* "refusing to use unowned build tools workspace".
RefuseWorkspace ==
  /\ Go("workspace", "idle") /\ marker # Absent /\ ~(marker = "good" /\ manifest)
  /\ Local /\ UNCHANGED <<workspace, artifact, staging, docker>>

\* The marker is created, written, and only then the manifest is there.
CreateMarker ==
  /\ Go("workspace", "claim") /\ marker = Absent
  /\ marker' = Torn
  /\ Local /\ UNCHANGED <<manifest, script, artifact, staging, docker>>

WriteMarker ==
  /\ Go("claim", "manifest")
  /\ marker' = "good"
  /\ Local /\ UNCHANGED <<manifest, script, artifact, staging, docker>>

WriteManifest ==
  /\ Go("manifest", "existing")
  /\ manifest' = TRUE
  /\ Local /\ UNCHANGED <<marker, script, artifact, staging, docker>>

\* Mutant: --force changes nothing for an artifact that no longer validates.
MutExisting ==
  /\ artifact # Absent
  /\ Go("existing", "idle")
  /\ Local /\ UNCHANGED <<workspace, artifact, staging, docker>>

\* A valid artifact is returned, with --force too; an invalid one without it is
\* an error.
Existing ==
  /\ \/ artifact \in Written
     \/ artifact = "damaged" /\ ~force
  /\ Go("existing", "idle")
  /\ Local /\ UNCHANGED <<workspace, artifact, staging, docker>>

Missing ==
  /\ \/ artifact = Absent
     \/ artifact = "damaged" /\ force
  /\ Go("existing", "sources")
  /\ Local /\ UNCHANGED <<workspace, artifact, staging, docker>>

-----------------------------------------------------------------------------
(* Sources, script, image, staging.                                        *)

DownloadSources ==
  /\ Go("sources", "script")
  /\ Local /\ UNCHANGED <<workspace, artifact, staging, docker>>

CreateScript ==
  /\ Go("script", "writing") /\ script = Absent
  /\ script' = Torn
  /\ Local /\ UNCHANGED <<marker, manifest, artifact, staging, docker>>

WriteScript ==
  /\ Go("writing", "inspect")
  /\ script' = "good"
  /\ Local /\ UNCHANGED <<marker, manifest, artifact, staging, docker>>

UseScript ==
  /\ Go("script", "inspect") /\ script = "good"
  /\ Local /\ UNCHANGED <<workspace, artifact, staging, docker>>

\* "build tools workspace contains a different build script".
RefuseScript ==
  /\ Go("script", "idle") /\ script = Torn
  /\ Local /\ UNCHANGED <<workspace, artifact, staging, docker>>

\* inspect_builder_image: the tag counts only with this contract's label, and
\* what is used from here on is the image's own id.
TakeImage ==
  /\ image' = tag
  /\ UNCHANGED <<workspace, artifact, staging, docker, force, own, errand, killed,
                 plain, troubles>>

CachedImage == Go("inspect", "staging") /\ tag = "mine" /\ TakeImage

NoImage ==
  /\ Go("inspect", "build") /\ tag # "mine"
  /\ Local /\ UNCHANGED <<workspace, artifact, staging, docker>>

BuildImage ==
  /\ Go("build", "require")
  /\ tag' = "mine"
  /\ Local /\ UNCHANGED <<workspace, artifact, staging, cidfile, client, container, mounted>>

\* Mutant: what the tag names after the build is taken for what was built.
MutRequireImage == Go("require", "staging") /\ TakeImage

\* require_builder_image looks the tag up again, and at the label.
RequireImage == Go("require", "staging") /\ tag = "mine" /\ TakeImage

RefuseImage ==
  /\ Go("require", "idle") /\ tag # "mine"
  /\ Local /\ UNCHANGED <<workspace, artifact, staging, docker>>

\* rmtree and mkdir: a container that had the old directory keeps the old one.
PrepareStaging ==
  /\ Go("staging", "remove")
  /\ staging' = Empty
  /\ mounted' = {}
  /\ Local /\ UNCHANGED <<workspace, artifact, tag, cidfile, client, container>>

-----------------------------------------------------------------------------
(* _remove_owned_container, before the run (stale), from run_logged when it   *)
(* is interrupted (cancel), and on the way out of the guard (release).       *)

\* Errors of the removal are an error before the run and are swallowed after it.
AfterRemoval == CASE errand = "stale" -> "spawn" [] errand = "cancel" -> "signal"
                  [] errand = "release" -> "idle"
AfterFailure == IF errand = "cancel" THEN "signal" ELSE "idle"

NothingToRemove ==
  /\ Go("remove", AfterRemoval) /\ cidfile = Absent
  /\ Local /\ UNCHANGED <<workspace, artifact, staging, docker>>

\* "temporary container cidfile is malformed".
Malformed ==
  /\ Go("remove", AfterFailure) /\ cidfile = Empty
  /\ Local /\ UNCHANGED <<workspace, artifact, staging, docker>>

\* rm --force; a container that is gone already needs none.  Its client notices.
Remove ==
  /\ Go("remove", "discard") /\ cidfile \in Clients
  /\ container' = [container EXCEPT ![cidfile] = Absent]
  /\ client' = [client EXCEPT ![cidfile] = IF @ = "running" THEN "failed" ELSE @]
  /\ Local /\ UNCHANGED <<workspace, artifact, staging, tag, cidfile, mounted>>

\* The daemon fails or is too slow: inspect, ls or rm gives up, the file stays.
CannotRemove ==
  /\ Go("remove", AfterFailure) /\ cidfile \in Clients
  /\ Trouble
  /\ UNCHANGED <<workspace, artifact, staging, docker, attempt, plain>>

Discard ==
  /\ Go("discard", AfterRemoval)
  /\ cidfile' = Absent
  /\ Local /\ UNCHANGED <<workspace, artifact, staging, tag, client, container, mounted>>

-----------------------------------------------------------------------------
(* run_logged in the guard.                                                *)

Spawn ==
  /\ Go("spawn", "wait")
  /\ client' = [client EXCEPT ![own] = "starting"]
  /\ Local /\ UNCHANGED <<workspace, artifact, staging, tag, cidfile, container, mounted>>

ClientSucceeded ==
  /\ Go("wait", "leave") /\ client[own] = "ok"
  /\ Local /\ UNCHANGED <<workspace, artifact, staging, docker>>

ClientFailed ==
  /\ Go("wait", "remove") /\ client[own] = "failed"
  /\ errand' = "release"
  /\ UNCHANGED <<workspace, artifact, staging, docker, force, own, image, killed, plain, troubles>>

\* Mutant: one SIGINT, whether the client heeds it or not.
MutSignal ==
  /\ Go("signal", "remove")
  /\ errand' = "release"
  /\ \/ UNCHANGED client
     \/ client' = [client EXCEPT ![own] = IF @ \in Alive THEN "failed" ELSE @]
  /\ UNCHANGED <<workspace, artifact, staging, tag, cidfile, container, mounted, force, own,
                 image, killed, plain, troubles>>

\* _stop_process_group: SIGINT, SIGTERM, SIGKILL; after that the client is gone.
\* A client that had only opened the cidfile may or may not take it along, a
\* running container may or may not have ended by the signal.
Signal ==
  /\ Go("signal", "remove")
  /\ errand' = "release"
  /\ client' = [client EXCEPT ![own] = IF @ \in Alive THEN "failed" ELSE @]
  /\ \/ UNCHANGED <<cidfile, container>>
     \/ /\ client[own] = "opened" /\ cidfile' = Absent
        /\ UNCHANGED container
     \/ /\ client[own] = "running"
        /\ container' = [container EXCEPT ![own] = Absent]
        /\ UNCHANGED cidfile
  /\ UNCHANGED <<workspace, artifact, staging, tag, mounted, force, own, image, killed,
                 plain, troubles>>

Leave ==
  /\ Go("leave", "finalize")
  /\ cidfile' = Absent
  /\ Local /\ UNCHANGED <<workspace, artifact, staging, tag, client, container, mounted>>

\* _finalize_artifact; replace_directory sets an old artifact aside.
Finalize ==
  /\ Go("finalize", "aside") /\ staging \in Written
  /\ Local /\ UNCHANGED <<workspace, artifact, staging, docker>>

SetAside ==
  /\ Go("aside", "install")
  /\ artifact' = Absent
  /\ Local /\ UNCHANGED <<workspace, staging, docker>>

Install ==
  /\ Go("install", "idle")
  /\ artifact' = staging
  /\ staging' = Absent
  /\ Local /\ UNCHANGED <<workspace, docker>>

-----------------------------------------------------------------------------
(* The docker clients and the daemon.                                      *)

Elsewhere == UNCHANGED <<workspace, artifact, tag, pc, attempt, plain>>
Becomes(c, state) == client' = [client EXCEPT ![c] = state]

\* docker run --cidfile: the file must not be there.
OpenCidfile(c) ==
  /\ client[c] = "starting"
  /\ IF cidfile = Absent
       THEN cidfile' = Empty /\ Becomes(c, "opened")
       ELSE Becomes(c, "failed") /\ UNCHANGED cidfile
  /\ Elsewhere /\ UNCHANGED <<staging, container, mounted, troubles>>

CreateContainer(c) ==
  /\ client[c] = "opened" /\ Becomes(c, "created")
  /\ container' = [container EXCEPT ![c] = "created"]
  /\ Elsewhere /\ UNCHANGED <<staging, cidfile, mounted, troubles>>

\* Mutant: a client that starts its container before it writes the id.
MutNameContainer(c) ==
  /\ client[c] = "created" /\ Becomes(c, "named")
  /\ container' = [container EXCEPT ![c] = "running"]
  /\ Elsewhere /\ UNCHANGED <<staging, cidfile, mounted, troubles>>

NameContainer(c) ==
  /\ client[c] = "created" /\ Becomes(c, "named")
  /\ cidfile' = c
  /\ Elsewhere /\ UNCHANGED <<staging, container, mounted, troubles>>

\* The staging directory there now is what the container writes to.
StartContainer(c) ==
  /\ client[c] = "named" /\ container[c] = "created" /\ Becomes(c, "running")
  /\ container' = [container EXCEPT ![c] = "running"]
  /\ mounted' = IF staging = Absent THEN mounted ELSE mounted \cup {c}
  /\ staging' = CASE staging = Absent -> Absent
                   [] c = own /\ image = "mine" /\ staging = Empty -> "own"
                   [] c = own /\ image = "mine" /\ staging = "overtaken" -> "overtaken"
                   [] c # own /\ staging \in {Empty, "overtaken"} -> "overtaken"
                   [] OTHER -> "mixed"
  /\ Elsewhere /\ UNCHANGED <<cidfile, troubles>>

\* The container was removed before its client started it.
CannotStart(c) ==
  /\ client[c] = "named" /\ container[c] = Absent /\ Becomes(c, "failed")
  /\ Elsewhere /\ UNCHANGED <<staging, cidfile, container, mounted, troubles>>

\* The script ends; it is done only if the directories it needs are its own.  It
\* takes longer than a client needs to open the cidfile (timing assumption).
Exit(c) ==
  /\ container[c] = "running" /\ \A d \in Clients : client[d] # "starting"
  /\ container' = [container EXCEPT ![c] = Absent]
  /\ client' = [client EXCEPT ![c] =
                  IF @ # "running" THEN @ ELSE IF c \in mounted THEN "ok" ELSE "failed"]
  /\ Elsewhere /\ UNCHANGED <<staging, cidfile, mounted, troubles>>

\* The build fails, or the client is killed and its container goes on.
Fail(c) ==
  /\ client[c] = "running" /\ Trouble /\ Becomes(c, "failed")
  /\ \/ UNCHANGED container
     \/ container' = [container EXCEPT ![c] = Absent]
  /\ Elsewhere /\ UNCHANGED <<staging, cidfile, mounted>>

-----------------------------------------------------------------------------
\* Ctrl-C: Python unwinds.  One that arrives while run_logged is cancelling or
\* signalling skips what is left of that; the guard still tries once.
Interrupt ==
  /\ Trouble /\ pc # "idle"
  /\ LET cancelling == pc = "signal" \/ (pc \in {"remove", "discard"} /\ errand = "cancel")
     IN  IF pc \in {"spawn", "wait"} THEN pc' = "remove" /\ errand' = "cancel"
         ELSE IF cancelling \/ pc = "leave" THEN pc' = "remove" /\ errand' = "release"
         ELSE pc' = "idle" /\ UNCHANGED errand
  /\ UNCHANGED <<workspace, artifact, staging, docker, force, own, image, killed, plain>>

\* The process is killed; its docker client has a session of its own.
Kill ==
  /\ Trouble /\ pc # "idle"
  /\ pc' = "idle"
  /\ killed' = TRUE
  /\ UNCHANGED <<workspace, artifact, staging, docker, force, own, image, errand, plain>>

\* Sources, image build, staging or final validation fail.
Error ==
  /\ Trouble /\ pc \in {"sources", "build", "staging", "finalize"}
  /\ pc' = "idle"
  /\ UNCHANGED <<workspace, artifact, staging, docker, attempt, plain>>

\* Somebody gives the tag to an image of another contract, or takes it away.
Retag ==
  /\ Trouble
  /\ tag' \in {Absent, "other"} \ {tag}
  /\ UNCHANGED <<workspace, artifact, staging, cidfile, client, container, mounted, pc,
                 attempt, plain>>

\* The published artifact no longer validates.
Damage ==
  /\ Trouble /\ artifact \in Written /\ pc = "idle"
  /\ artifact' = "damaged"
  /\ UNCHANGED <<workspace, staging, docker, pc, attempt, plain>>

Step ==
  \/ UseWorkspace \/ RefuseWorkspace \/ CreateMarker \/ WriteMarker \/ WriteManifest
  \/ Existing \/ Missing \/ DownloadSources \/ CreateScript \/ WriteScript \/ UseScript
  \/ RefuseScript \/ CachedImage \/ NoImage \/ BuildImage \/ RequireImage \/ RefuseImage
  \/ PrepareStaging \/ NothingToRemove \/ Malformed \/ Remove \/ Discard \/ Spawn
  \/ ClientSucceeded \/ ClientFailed \/ Signal \/ Leave \/ Finalize \/ SetAside \/ Install

ClientStep(c) ==
  \/ OpenCidfile(c) \/ CreateContainer(c) \/ NameContainer(c) \/ StartContainer(c)
  \/ CannotStart(c) \/ Exit(c)

Next ==
  \/ \E f \in BOOLEAN : Begin(f)
  \/ Step \/ CannotRemove
  \/ \E c \in Clients : ClientStep(c) \/ Fail(c)
  \/ Interrupt \/ Kill \/ Error \/ Retag \/ Damage

\* The build goes on, so do the clients and the daemon; a build with --force is
\* run again and again.
Fairness ==
  /\ WF_vars(Step) /\ WF_vars(Begin(TRUE))
  /\ \A c \in Clients : WF_vars(ClientStep(c))

Spec == Init /\ [][Next]_vars /\ Fairness

-----------------------------------------------------------------------------
\* container.temporary_container_run: a container that is running is named by
\* the cidfile, however its build ended, so that the next attempt finds it; in
\* particular no two containers write to the workspace at once.
NoLostWriter == \A c \in Clients : container[c] = "running" => cidfile = c

\* build_tools_builder.build_build_tools: what is published was written by this
\* attempt's own container, run from an image of this contract, whatever
\* containers and clients earlier attempts have left and whoever moves the tag.
\* One trace of them remains: the staging directory is prepared before the old
\* container is removed, and a client that a kill has left behind may start its
\* container in between ("overtaken").
PublishedIsOwn == artifact # "mixed"

\* container.py:431, "cancellation cannot leave a writer behind": when a build
\* has ended through its handlers, its container is not running.  So after one
\* interrupt or failure; a second Ctrl-C that arrives while run_logged cancels
\* skips _stop_process_group, and a client that had not yet written the cidfile
\* goes on to start its container.
CancellationLeavesNoWriter ==
  (pc = "idle" /\ ~killed /\ troubles <= 1) => container[own] # "running"

\* What no repetition repairs: a marker without manifest, a script or a cidfile
\* that a stop has left half written.
Wreck ==
  \/ pc = "idle" /\ marker # Absent /\ ~(marker = "good" /\ manifest)
  \/ pc = "idle" /\ script = Torn
  \/ cidfile = Empty /\ \A c \in Clients : client[c] \notin {"opened", "created"}

\* build_tools_builder.build_build_tools: while nothing has stopped or disturbed a
\* build, each one that ends has published what its own container wrote or found
\* it published, has taken the container and the cidfile along, and leaves a
\* workspace that no later build refuses.
UndisturbedBuildsPublish ==
  troubles = 0 =>
    /\ artifact \in {Absent, "own"} /\ ~Wreck
    /\ pc = "idle" => /\ marker # Absent => artifact = "own"
                      /\ cidfile = Absent /\ \A c \in Clients : container[c] = Absent

\* docs/managed-compilers.md:178, "After an interruption, run the same command
\* again": builds with --force, run again and again, end with an artifact that
\* validates, but for the named wrecks.
RerunsRecover == []<>(artifact \in Written \/ Wreck)

=============================================================================
