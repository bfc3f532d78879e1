# linux-toolchain in TLA+

linux-toolchain builds GCC and Clang toolchains, their runtimes and SDKs in
containers, keeps them as immutable identities in a shared *producer store*, and
assembles from them prepared setups, bundles and installations. This directory
models the program where several processes, errors, kills, releases and files
that change meet: how trees are published, how workspaces live through
interrupted attempts, how concurrent commands lease what they share, what a
work directory remembers of its last setup, how installations share a prefix,
how containers outlive the build that started them, how archives are cached, and
by which evidence an artifact, a runtime export or a binding is accepted. All
source paths below are under `src/src/linux_toolchain/` unless they start with
`docs/`.

## 1. The system

### Components, their state and operations

| Component | State | Operations | What makes it correct |
|---|---|---|---|
| Directory publication (`publication.py`) | destination, staging and backup paths; `flock` lock files | `file_lock`, `replace_directory`, `write_json_atomic` | a reader keeps the tree it validated; the last validated tree is never lost; an ordinary error changes nothing |
| SDK producer workspace (`sdk/crosstool_ng.py`) | marker, `workspace.json`, defconfig, toolchain receipt, outputs, exported SDK | `render_workspace`, `build_with_docker`, `_reset_toolchain_for_builder_contract`, `export_sdk` | what looks ready is complete; a rerun recovers from a stop; a valid SDK stays valid |
| Producer store (`producer_store.py`) | store marker, identity directories, lock files | `create_producer_store`, `lock`, `lock_many` | compatible leases, one global order |
| Setup orchestration (`setup.py`) | ownership markers, `setup.json`, lock file, binding, `prepared.json`, smoke result; leases held | `prepare_setup`, reuse, `_ensure_sdk`, build tools, assembly, smoke, install, bundle | nobody writes what another uses; every command ends; only tested inputs are qualified and delivered |
| Managed assembly (`managed/assemble.py`) | the plan: which artifacts are missing, valid, invalid | `discover`, `plan_assembly`, execution of paired builds | builds exactly what is missing, each kit once |
| Managed artifact builder (`managed/builder.py` and build scripts) | managed workspace, its marker and manifest | render, resume, preflight, build, publish | a rerun recovers; hours of building do not end in a refusal that could be foreseen |
| Artifact publication (`managed/publication.py`, `managed/artifacts.py`) | artifacts with the action they were built by, publications, runtime sets | audit, record, load, publish | what is accepted serves the lock it is accepted for |
| Lock resolution (`managed/lockfile.py`, `catalog.py`, `models.py`, `selection.py`, `versions.py`) | immutable lock | resolve, validate, select | a GCC variant uses the runtime of its own version; one kit provides a runtime |
| Sources (`source_archive.py`, `managed/sources.py`) | cache objects, managed entries and workspace copies | download, verify, fall back | only verified archives are used; a good file stays good |
| Containers, processes (`container.py`, `process.py`) | cidfile, docker clients, containers, image tag, process group | run, cancel, stop, remove | no container outlives its owner unnoticed |
| Build tools (`build_tools*.py`) | build-tools workspace, its script, staging and artifact | render, build, reuse | a rerun recovers; what is published is this attempt's own work |
| Bundles and prefixes (`bundle.py`, `bundle_installer.py`) | installation prefix, Conan home, runtime selection | install, replace, generated installer, launcher | a reported installation stays, with its configuration; Conan files a command finds are not changed |
| Runtime import (`runtime/importer.py`, `runtime/llvm.py`) | exports of the libraries of a compiler's prefix | copy, inspect, publish, load again | an export is what its source reaches and every name reaches its owner |
| Compiler bindings (`compiler/binding.py`, `runtime_binding.py`) | binding with wrappers | plan, publish, qualify, roll back | made of checked exports only; what is planned qualifies |
| ELF audits (`elf/`, `host_artifact.py`) | none | audit | three audits of the same rules agree |
| Smoke verification (`smoke.py`) | verification directory, marker, result | claim, run, record | the result is of the binding it stands beside |
| Integrations, CLI, diagnostics, licences | none that outlives a command | render, report | one process, text |

### How they interact

`setup` takes the exclusive lease of its state directory, and then enters one
*with* block after another: it reuses the prepared state under shared leases of
its inputs, or ensures the target SDK and the compiler backend under their
exclusive leases, builds the build tools (backend shared, tools exclusive),
assembles the managed artifacts (SDKs shared, artifacts exclusive), runs the smoke
test and installs under shared leases again. Between two blocks it holds only
the state lease, so other commands come in between. `bundle create` takes the
state shared, lets it go, and takes it again together with the inputs. Downloads
lock one cache object inside a block. A build starts a docker client, which
names its container in a cidfile; the daemon and the container go on when the
build is killed. The separate commands (`managed build`, `runtime import-*`,
`binding create`, generated installers, the launcher) take no leases at all: they
rely on what they find recorded beside the files, and check it again. There are
no messages and no threads: everything is shared files, `flock`, the daemon and
the exit of child processes, and every process may be killed at any instruction.

### What is hard

Kills between two writes that describe one fact; files written in place; two
commands of different goals in one workspace; checks made before the lease under
which they are relied on, or without any; nested leases; containers that nobody
waits for any more; evidence read under another release of the program than the
one that wrote it. `PROJECT.json` lists each place under `hazards` with the
properties that watch it. One has none: the builder context that two build-tools
builds write at once under a shared lease (`sdk/crosstool_ng.py:487`). Both write
the same bytes, and what docker makes of a file caught half written is its own
affair.

## 2. The modules

| Module | Stands for |
|---|---|
| `StableTree` | what an artifact promises those who lease it (docs/architecture.md:79-84), with no paths in it |
| `Publication` | `replace_directory` and `file_lock` step by step, with readers, errors and kills; implements `StableTree` |
| `SdkWorkspace` | one SDK workspace under a sequence of `_ensure_sdk` attempts and consumers |
| `ProducerLeases` | commands of several work directories, their *with* blocks, leases and downloads |
| `SetupState` | the files of one work directory under setups of any release and bundle commands |
| `ManagedAssembly` | attempts to assemble variants over the kits, runtimes and publications of one store, with the builder's workspaces |
| `AssemblyLoops` | `plan_assembly` loop by loop, the reference for the plan as a set |
| `BuildTools` | one build-tools workspace with its docker clients, containers and image tag |
| `SourceCache` | one archive in workspace copies, the shared object and the managed entry |
| `InstallPrefix` | setups, installers and launchers on one prefix and its Conan homes |
| `RuntimeImport` | the exports of GCC and LLVM runtimes: copied, inspected, published, loaded |
| `CompilerBinding` | extends it with `binding create`: the composition of both components |
| `AbiVersions`, `LockResolution`, `ElfAudit` | pure: the order of versions; specification, catalog, lock and selection; the three audits |
| `ManagedEvidence` | uses the three: locks, SDKs, builds, artifacts and publications under changing releases |
| `PublicationProofs` (of `Publication` and `ManagedEvidence`), `ProducerProofs` (of `SdkWorkspace` and `ProducerLeases`), `ManagedAssemblyProofs`, `SetupStateProofs`, `BuildToolsProofs`, `SourceCacheProofs`, `InstallPrefixProofs`, `CompilerBindingProofs` | the theorems |
| `MC...` | instances for TLC |

Definitions whose name begins with `Mut` are what a plausible bug would make of
the definition they stand before; `PROJECT.json` pairs them with the properties
that notice.

**Publication.** `dest`, `staging` and `backup` are the paths of
`replace_directory`; `orphans` are backups of dead publishers. `SetAside`,
`Install` and `Validate` are the body of its `try`; `Raise`, `Unwind`, `Restore`
and `RestoreFails` its `except`, with the same test of which renames took place.
`LockShared`/`LockExclusive` are the callers' lease. `CrashPublisher` drops the
lease and leaves the paths. The history variables `prev`, `stable` and
`disturbed` serve the properties only. What a tree contains is reduced to
whether its validator accepts it.

The refinement hides the paths: while a publisher runs, `StableTree.visible` is
what was there when it took the lease, otherwise what a validator would accept
now; a publication becomes one abstract step, at its end. So the implementation
shows that no reader can see anything in between.

**SdkWorkspace.** One action per write, in the code's order, and for a file
written in place a second point while it is open, where a stop leaves it torn.
`OutputsLookReady` keeps the weakness of `_toolchain_outputs_ready`, which looks
for a few files: a half-built toolchain may pass, and the protocol of the receipt
has to make up for it. `Consume` is managed assembly's second look, in another
*with* block. `Stop` is any error, Ctrl-C or kill. Single steps stand for the
container run, downloads, the build of the builder image, and the check of
configuration and ELF files; their failure is `Stop`. The builder contract is
part of the store identity, so a workspace sees only one.

**ProducerLeases.** A phase is a *with* block; `Leases` lists what it takes,
`TakeLease` takes the next missing one in the canonical order, `Move` ends one
block and starts the next. `Writes` and `Reads` say which identities the code in a
block touches, and do not follow from the leases: assembly also writes the kits that
provide missing runtimes (`ProviderKits`), and those have no lease of their own.
`ProviderAssumption` makes this safe: it is what `resolve_lock` and
`ManagedLock.validate` (`managed/lockfile.py:556-574`) guarantee together
(`SetupsOwnProviders` in section 4). `Leave` is an error or a
kill in any phase.

**ManagedAssembly.** An attempt discovers what is there (`Disposition`,
`PublicationReady`, `Pairing`), plans its builds (`PlanAssembly`, in stages),
goes through them (`NextBuild`, then `Resume`, `RefuseRender` or `Clear`, `Mark`,
`OpenManifest`, `Rendered` for one workspace or the two of a pair, then
`RefuseBuild` or `Compile`, then the artifacts), publishes runtimes (`SetAside`,
`Publish`) and binds. A workspace is one of six values: what later attempts can
tell apart of the marker and `workspace.json`. Beside it `spoilt` says what makes a
workspace with both of them useless: build.sh or `output` is gone (gutted), or a stop
around the container has left an empty cidfile (jammed). `Clear` is `rmtree`, which a
stop may leave at any point and in any order of the files: `build.sh` may go before
the marker and `workspace.json`, and the workspace is then resumed and refused
(`managed/builder.py:909-916`, 1276, 1333). `Damage` is a payload that
changes between attempts, the case `--force` (repair) is for; it is no action of the
code. One attempt runs at a time: `ProducerLeases` shows that two which share an
artifact exclude each other. The container is one step; the publication of an
artifact is atomic, since `Publication` looks into it and no artifact is there
to be set aside (`BuildsOnlyWhatIsMissing`). The set `PlanAssembly` says what is
built without the order in which the code finds it; `AssemblyLoops` states the three
loops as they are written, each a recursive function over the list of runtimes, and
`PlanFollowsLoops` says that both agree.

**SetupState.** Every command is run as some `request`: the selection asked for
and what its release of the program makes of it (lock, producer identities, smoke
project). A setup prepares its three directories one by one (`Claim`, then the
marker in place, so that a stop leaves it torn), withdraws the record under
`--force`, reuses or rebuilds, writes the lock file, takes the binding away and makes
it again, runs the verification, records the result, qualifies `prepared.json`
and installs. `bundle create` reads the record, lets the state lease go and takes it
again (`Relock`). The work on the store is one step, `LoseInputs` is another work
directory that spoils shared inputs which nobody has leased. It stands between
`ProducerLeases` (which locks) and `SdkWorkspace` and `ManagedAssembly` (what the
steps on the store do).

**BuildTools.** The attempt's points are those of `build_build_tools` and of
`temporary_container_run` around it. A docker `client` is a process of its own: it
opens the cidfile, has the daemon create the container, writes its id, starts it. A
kill of the attempt leaves client and container at work; an interrupt runs the
handlers: removal by cidfile, then the signals (`Signal`), unless there is a second
interrupt. The next attempt removes what the cidfile names before it starts its
own. `Retag` is another build that moves the image tag. `Written` says who has
written to a directory, which is how `PublishedIsOwn` sees a foreign container.

**SourceCache.** Pinned processes check their copy and the object under the
object's lock, fill or take, or fetch from one server after another; the managed
entry has a rule of its own. `Damage` makes files bad or takes them away while
nobody holds their lock, servers fail and recover, and a kill drops the lock.

**InstallPrefix.** A tree is named after the process that made it. The setup's
steps are those of `publish_installation_from_validated_inputs` with
`replace_directory` inlined, since no lease protects its destination; the
installer's and the launcher's are those of the generated shell scripts, command by
command where another process may come in between (the test for a Conan file, `cp` to
a temporary one and `mv`; `rmdir`; `mv -T`; the trap that removes the staging tree and
the temporary file and returns). Commands may bring different Conan files (`Config`).
`found`, the Conan files that were there when a command began, and `raced`, those that
a script has moved over other contents, are histories for the properties.

**RuntimeImport and CompilerBinding.** A prefix is a function from paths to what
the inspection tells apart: a shared library with SONAME, newest glibc and needed
names, a link (absolute or not, inside or out), an archive, a thin one, a linker
script, something foreign. The copy is the worklist of the code; the manifest is
recorded, checked and, when a binding loads the export, checked again against
the files. `binding create` plans from the exports of that moment, publishes and
then qualifies in place, by the links the wrapper flags produce (`Flags`, `Wrapper`,
`Qualifies`). The driver is external: it searches the directories it is given.
Imports, tampering with exports and bindings interleave; a kill strands either.

**LockResolution, ElfAudit and ManagedEvidence.** The pure modules say what a
specification may ask for, what it resolves to, which locks validate and what a
name selects; and what each of the audits accepts of a file. `ManagedEvidence` puts
them in time: a user locks, edits the lock, builds SDKs and backends, upgrades the
program; a build is rendered, preflighted, runs with the program it started
with and publishes what its container left, whatever the files are; loading and
publishing decide by the recorded action. History is kept in `refusal` and in what
`artifact` really contains beside what it records.

## 3. The runs

| Run | Instance | What it shows |
|---|---|---|
| `publication` | 2 processes; trees old, new (valid) and bad | readers keep their tree, nothing validated is lost, errors roll back, publications end; the implementation of `StableTree` |
| `sdk_workspace` | both goals, with and without `--force`, 3 stops anywhere | a ready workspace is complete; what was ensured stays ready, and readiness is lost only to an upgrade; reruns end with the SDK in use, but for `Wreck` |
| `sdk_unwritten_state` | 1 stop at the named point | counterexample (section 5) |
| `leases` | 2 setups with their bundles, 2 runs each; one builds the kit of the other | no conflicting access, no circle of waiters, every command ends |
| `assembly` | GCC and Clang kits, their runtimes; 4 variants, with `--force`, `--rebuild` or neither; 1 stop anywhere, in `rmtree` too, 1 damaged tree | the plan is that of the loops, builds nothing that is there and keeps what is valid; reruns assemble the variant but for `Wreck` |
| `assembly_pair` | 1 stop at the named point | counterexample (section 5) |
| `setup_state` | a setup of five releases and selections, a forced one, a bundle; 2 troubles | the record is qualified only beside the binding that passed; nothing else is delivered; reruns qualify again but for `Wreck` |
| `build_tools` | 3 clients, 3 troubles | no container is out of reach, cancelling leaves none, what is published is the attempt's own; reruns recover but for `Wreck` |
| `source_cache` | 2 workspaces, a managed build, 2 servers, 2 troubles | what is returned has the pinned bytes, good files stay, acquiring repairs while a server delivers |
| `install_prefix` | 2 setups (one forced), an installer with another Conan file, a launcher, 2 Conan files | what was reported stays installed, with its configuration; no command changes a Conan file that it found; a script that overwrites one which has come since is reached (382,684 states) |
| `runtime_import` | GCC and LLVM prefixes as they should be or with one of 21 deviations, two circles of links, newer floors, tampered exports, GCC and Clang, 2 imports, 1 kill | the six properties of the import and of bindings (141,645 states, 2 minutes) |
| `managed_evidence` | 6 specifications, 2 floors, 3 releases, products with one fault each or with a needed library that is found by a name with a slash, as a text file or in another directory, 4 changes | what is accepted serves the lock; refusals of the load and of the publication have a named cause; the leases' assumption; the audits agree |

Thirteen properties and the type invariants are proved for every instance (section 4),
were checked on these instances before, and are not part of the runs:
`QuietDestinationIsStable`, `OnlySetupsDisplace`, `SelectionIsKept`, the
`OnlyWrecksRefuse` of SdkWorkspace and of ManagedAssembly, `UndisturbedSetupsConsume`,
`UndisturbedAttemptsAssemble`, `AttemptsEnd`, `ForcedRefusedForACause`, `ImportsEndSoon`,
`UndisturbedBuildsPublish`, `ReturnsRepair` and `RefusedOnlyUnserved`. In
`ManagedEvidence` the states are records whose fields the other properties use.

**Bounds.** In Publication the lease admits one publisher, and a reader's
obligations do not involve other readers: one of each is every combination of
roles, and both processes play both. Two valid trees tell the old from the new, a
third fails validation. Publications and crashes are not bounded.
In SdkWorkspace `MaxStops` bounds only the stops: three allow a stop in an SDK
build, one in the upgrade and one in the repair; attempts are not bounded. In
ProducerLeases the instance has two selections that share SDKs and a runtime, one of
which builds the other's kit as a provider; setups that share more only exclude each
other more often. `MaxRuns`
bounds the starts, which ends every behaviour, hence `CHECK_DEADLOCK FALSE`
there: `DeadlockFree` states the absence of deadlock instead.

In ManagedAssembly the four variants are GCC with its runtime and Clang with
either runtime or both: shared kits, shared runtimes and both kinds of pair; one
stop and one damaged tree allow a stop inside a repair, in any order with
attempts of other variants, whose number is not bounded. In SetupState a plain
setup runs once, as any of five requests (same, other recipe, other catalogue,
elsewhere, another selection), which is every kind of disagreement with the
record a forced setup of one request can meet; two troubles are a stop and a loss of
inputs, or two stops. In BuildTools three clients are the attempt's own and two
that killed attempts left: three of them in the cidfile protocol at once need three
kills, which `MaxTroubles` allows. In SourceCache two workspaces and the managed
entry are all kinds of processes, and two servers the fallback. In InstallPrefix
the installer is of a bundle with other build tools, so that validation can tell
its installation from the setups', and is run with `--conan-cppstd`, so that the last
of its Conan files is another: it overwrites that of a setup, or one refuses the
other; a forced setup runs twice. A second installer would do to the first what the
first does to a setup; the theorems are for any number. In `runtime_import` two imports are one of each kind or a replacement,
and prefixes deviate in one place or in the two that close a circle. In
ManagedEvidence four changes (`MaxChanges`) allow lock, SDK, backend and one
upgrade, edit or replacement, before, during or after a build; the two floors lie
below and at the glibc that knows DT_RELR. The theorems of section 4 hold
without any of these bounds.

**Fairness.** Publication: a process that holds a lease goes on (weak fairness
of `Step`); crashes are never required, and taking a lease is not either.
SdkWorkspace: a started attempt runs on and the command is run again (weak
fairness), and a setup that has ensured its SDK gets to consume it although
others may take the workspace in between (strong fairness of `Consume`): each is
a process running towards its next `flock`. ManagedAssembly: weak fairness of
`Attempt` and of the start of some attempt, whichever variant it is for: a
process runs on, and the user tries again. ProducerLeases: weak fairness of each
process's `Step`. The kernel wakes waiters when a lock is released, and with
bounded starts nobody can be overtaken for ever; the code itself claims no more.
SetupState: each command at work goes on, and the forced command is run again
when it has ended. BuildTools: the same for the build, and every docker client
goes on by itself, which is what the daemon does. SourceCache: strong fairness of
each process's steps, as the lock may be taken by others again and again and
`flock` gives everybody a turn. CompilerBinding: an import at work goes on; of
bindings safety only is stated. InstallPrefix and ManagedEvidence state safety only: their commands are
run by people, once.

## 4. The proofs

All are for every value of the constants, under the named assumptions of the
modules, and none uses fairness. The types of each component with a `TypeOK` are
proved (`TypeCorrect`, `LeaseTypeCorrect`).

* **PublicationProofs.** The inductive invariant joins the types with: readers
  and writer are who their `pc` says, at most one writer and never with a
  reader, and for each point of the publisher where the previous tree is. Alone,
  `LastValidatedTreeSurvives` is not inductive: that `SetAside` destroys nothing
  needs `backup = NoTree` before it. From it follow `ReadersKeepTheirTree`,
  `LastValidatedTreeSurvives`, `QuietDestinationIsStable`, `OrdinaryRollback`, and
  `PublicationImplementsStableTree`: initial states map to initial states, each
  step to a step of `StableTree` or to a stutter.
* **PublicationProofs, of ManagedEvidence.** Two invariants carry most of it.
  `RecordInv` says that an action which is recorded names the selection, the source,
  the SDK and the backend it was built from, and that the files beside it passed the
  audit for the kind, machine and floor that the action names. Whoever accepts the
  action for another lock or release compares it as a whole, so that the files pass
  the audit of that selection too: `AcceptedServes` and `AuditsAgree` are then about
  the audits alone. `InputInv` says that a lock is valid and of releases some program
  so far has pinned, that backends are of pinned floors, and that a running build has
  passed the preflight. `RefusalsHaveCauses` needs it, and three facts about the pure
  part: the order of versions is total and transitive, so that a finite set has a
  last version and what an audit records is one of the needed ones
  (`RecordedIsNeeded`, by induction over a least counterexample); a resolved lock is
  valid (`LockIsValid`, one lemma per kind of entry); and a full version selects one
  release of a catalog. A third invariant, `MadeInv`, says that a publication was valid
  in the lock and release it was made for: a selection that is still the same, under a
  release with the same pins and scripts, finds it valid again (`PublishedAlikeLoads`),
  so that whatever refuses it was made otherwise. `SetupsOwnProviders` is about two locks and no behaviour:
  equal actions of kits have equal kits, sources, SDKs and backends
  (`SameKitAction`), and a libc++ is built by the kit that is also its compiler. It is
  what `ProviderAssumption` of ProducerLeases asks, with the directories of the store
  named by their actions.
* **ProducerProofs, of SdkWorkspace.** The file check cannot tell a half-built toolchain from
  a complete one, so the invariant rests on the order of the other files: while
  provenance is recorded, a receipt vouches for complete outputs; the receipt is
  gone before a container touches them; a reset works on them only without
  provenance. `ReadyIsComplete` follows at once. `ReadyIsKept` needs a second
  invariant about `found`: an attempt that found the workspace ready for a goal
  either returns it, or was made for a goal it was not ready for, which can only
  be the full one. What `RerunsRecover` needs of the attempts is proved too.
  `RefusalsAreWrecks`: the files are written in an order (`OrderInv`), so that a
  workspace which is refused misses what a stop has kept from being written.
  `EnsuredIsReady`: a full build on which some setup relies was found by every later
  attempt (`PromiseInv`), which therefore leaves it alone. `UndisturbedConsume`: where
  nothing is stopped, no file is missing for the next attempt (`Orderly`) and each SDK
  that was ensured is accepted by managed assembly.
* **ProducerProofs, of ProducerLeases.** The invariant is exclusion of the leases held, and
  for each process that it holds only what it needs, in canonical order
  (everything held lies before everything missing). `AccessesDoNotConflict`:
  every access is leased except those to provider kits, and of two commands that
  would touch one kit, one holds exclusively a runtime that the other leases too.
  `LeasesDoNotDeadlock`: the running process whose next lock lies furthest in the
  order finds it free, as its holder would miss something further on.
* **ManagedAssemblyProofs.** First the plan: each build fits what is in the store
  (`create` nothing, `preserve` something valid, `rebuild` something invalid unless
  `--rebuild` asks for it), and no two builds of a plan touch one artifact
  (`PlanIsFit`; this is where `RequestsAssumption` comes in, one runtime of a
  family in a variant). The invariant carries this through the execution: what is
  left of the plan goes on fitting, because a build changes its own sides only;
  for the current build it says which sides are prepared; a directory that does not
  exist holds no artifact; the selected kit is valid or some build makes it; and
  publications kept are those that were ready. From it follow
  `OnlyTheMissingIsBuilt`, `TheBindingIsComplete` and `ValidWorkStays`.
* **ManagedAssemblyProofs, of attempts.** `RefusalsAreWrecks` adds to the invariant that
  every build that is left can be carried out unless its workspace is a wreck
  (`BuildsCanGo`) and that every runtime to be published is there or will be made
  (`RuntimesCome`). `UndisturbedAssemble` is about stores that no stop and no damage has
  touched: outside the build at hand every workspace is as its rendering left it, with
  its artifact (`Tidy`). `AttemptsEndSoon` gives the steps an attempt has left as a
  natural number which every step decreases; it needs finite lists of runtimes.
* **ManagedAssemblyProofs, of AssemblyLoops.** `PlanIsLoops`: after `m` runtimes a loop
  has appended a build for each of those that the set plans for this loop, in their
  order, and what it calls ready is what was ready and what these builds make (`Goes`,
  by induction over `m`). Two builds of one loop have no side in common, because a
  variant has one runtime of a family (`RequestsAssumption`): what a loop finds ready of
  its own making is never what the next runtime asks for.
* **SetupStateProofs.** The record is the witness: from the point where a setup
  starts to rebuild until it qualifies again the record is not qualified, and
  where it qualifies, binding and result are those of its own run. Since one
  setup is at work and none while a bundle is copied, whoever delivers does so under
  a record that stays. From it `QualifiedMeansVerified`, `DeliveredWasVerified`, and
  `SelectionIsKept` for work directories. `ForcedRefusals` says why a forced setup
  gives up of itself: at a wreck, or since `LoseInputs` took away what it had made. What
  it has made sure of on its way (`ForcedAt`) no other command undoes (`Spares`).
* **BuildToolsProofs.** The cidfile is a lock: empty, it belongs to the one client
  that is about to name its container; otherwise it names the only container
  that may run. The build lets it go only when that container is gone, and the
  attempt's own client is not there before it is spawned. `NoLostWriter` and
  `PublishedIsOwn` follow, for any number of clients left behind.
  `CancellationLeavesNoWriter` counts troubles, and so has an invariant of its own
  (`HandledInv`): a container runs without its client only after a trouble, and a build
  with one trouble at most is on its way out only when that client is over.
  `UndisturbedBuilds` follows a build that nothing has disturbed: cidfile, container and
  staging directory go through six states together (`Underway`), no file but the one at
  hand is half written, and it ends with its own work published (`CalmInv`).
* **SourceCacheProofs.** Between its checks and its return a process relies on
  files others write too; what it relies on holds since it has the lock all the
  while, and whoever is not idle is the one who has it. The same invariant says that
  who is given a copy leaves a good object (`ReturnsRepairTheObject`), and while the
  servers stay as they are those already tried do not deliver (`TriedInv`), so that
  failures are those of unserved archives (`UnservedAreRefused`).
* **InstallPrefixProofs.** Without a lock nothing can rest on exclusion. For any
  commands an installation leaves the prefix only when a setup sets it aside or
  rolls back (`DisplacedBySetups`). For the Conan files the argument is growth, for
  commands of any configurations: no file is ever removed; a setup writes only over
  nothing or its own contents, and a script over nothing, its own contents, or what
  `raced` then records. So a file that a process has passed stays as it wants it or is in
  `raced`, and all are passed before its tree reaches the prefix
  (`InstalledConfigured`). A script that is about to move a file did not find it when it
  began (`FoundInv`), and files do not go away, hence `FilesAreKept`.
  `ReportedInstallations` is for setups of one work directory (`OneWorkDirectory`),
  which its state lease keeps apart, and any installers and launchers: while one of
  them publishes, what was reported is at the prefix or in its backup (`HeldInv`).
  With two work directories it is false (section 5).
* **CompilerBindingProofs.** Links are walked one hop at a time. A walk that has
  reached a file stays there; one that has not after as many hops as there are paths
  never will. `CopyFaithful` follows the worklist of the copy: every library is still
  to come, on the list or copied, and what a copied link leads to is copied or on the
  list; when the list is empty, each walk through the copy ends where the walk through
  the source does. `NamesAreOwned` walks the links of a valid LLVM export, each of
  which stays in its component. A binding is made of what was loaded, so
  `NothingNewer` and `PlansQualify` rest on what the load has checked (`PlanAt`), and
  hold under any tampering; `KillsStrand` follows who holds the previous binding.
  `ImportsEnd` gives the steps an import has left as a natural number which every step
  of it decreases: each library may visit every path once, however the links run.

The assumptions say what the code makes sure of before the modelled part begins.
Those of ManagedEvidence: the packaged index has each release once, by its full version
(`CatalogAssumption`, `managed/catalog.py`); recipes spell each glibc in one way, and
releases of the program that pin other floors differ in what they pin
(`ProgramsAssumption`, `recipes.py`); what readelf reports is finite and its version
numbers are not empty (`ProductsAssumption`). Those of RuntimeImport and
CompilerBinding: links within a tree lead to paths of it (`ImportsAssumption`,
`TamperingAssumption`), the names of libraries (`NamesAssumption`), all paths are
listed (`OrderAssumption`), floors are numbers (`SdksAssumption`).

Induction is by the least counterexample: a set of numbers has a smallest element
(`SetSmallest`, from `WFMin`), since the library's induction rules take an
operator, which the provers cannot instantiate.

Every invariant and action property of a passing run is a theorem. Only model-checked
are the liveness properties: `PublicationEnds`, the four `RerunsRecover`, `RunsEnd`,
`AcquiringRepairs` and `ImportEnds`, because fairness and ENABLED are outside what TLAPS
proves. For SdkWorkspace, ManagedAssembly, SetupState, SourceCache and imports their
safety half is proved: attempts give up only for the named causes, and for assembly and
imports also that a measure decreases with each step; that a next step is always enabled
is not. The refuted properties are of course not proved.

## 5. What the runs found

Two runs refute what the documentation says:

1. `sdk_unwritten_state`: `export_sdk` publishes the SDK, then writes state
   "built" (`sdk/crosstool_ng.py:1963`). Stopped in between, the workspace is
   ready for setup, so that no later run touches it, and not built for assembly
   (`managed/builder.py:394`), so that every later run fails.
2. `assembly_pair`: Clang with its own runtime is built as a pair in a workspace
   that says so. When that build stops, Clang with the GCC runtime needs the same
   kit alone, resumes the workspace and is refused (`managed/builder.py:1106`),
   with `--force` too.

The other runs pass with exceptions that their properties name. Each is a place
where the code does less than a reader might expect.

* **Wrecks**, which no repetition of a command repairs. Markers, `workspace.json`
  and `build.sh` are written in place, and a torn one is refused for good, with
  `--force` too: SdkWorkspace (a first render stopped before `workspace.json`, a torn
  one, a reset that has removed the defconfig), ManagedAssembly (a repair stopped
  while `rmtree` removes the damaged workspace, `managed/builder.py:617`, leaves
  files that nobody owns, or a workspace that is owned and resumed but has lost
  `build.sh` or `output`, which every later run refuses; a build killed between the
  opening of the cidfile and its first byte leaves one that is "malformed",
  `container.py:367-381`), SetupState (the markers of root, state, store and of the
  verification directory, `setup.py:213`, `smoke.py:286`), BuildTools (marker,
  script, and an empty cidfile whose client has died). A corrupt entry of the
  managed source cache is reported and never replaced (`managed/sources.py:125`).
  A binding killed while it qualifies has no `binding.json`, and no later command
  replaces it (`compiler/binding.py:1477`; docs/cli-reference.md:416 offers
  `--force`).
* **Upgrades in place.** The upgrade of an SDK build to a full one works in place;
  if it fails, those who used the SDK find it gone, against docs/architecture.md:81.
  `ReadyOnlyLostToUpgrade` says that nothing else takes an SDK away.
* **Containers.** A second Ctrl-C while a container is being removed skips the
  signals (`process.py:218`): `CancellationLeavesNoWriter` allows one trouble. A
  client of a killed attempt that starts its container only after the next attempt has
  looked at the cidfile writes to that attempt's staging directory until it is removed
  (`overtaken`, `build_tools_builder.py:375`). `Exit` assumes that a client which was
  signalled ends before the build goes on.
* **The prefix.** docs/artifact-formats.md:339 says that existing different Conan
  configuration fails closed. Of setups, which link their files into place, this is
  true at every moment. An installer tests for a file, copies its own and moves that in
  place (`bundle_installer.py:175-192`), and overwrites whatever has come in between, a
  file of an installation that was reported too. (`conan-init` runs the same lines, but
  finds every file there unless somebody has removed one, which is not modelled.) `ConanFilesStay`
  says what holds of all of them, that no command changes a file which was there when it
  began, and `InstalledIsConfigured` exempts the overwritten ones (`raced`). The
  installer's trap removes the staging tree and lets the script go on (1507). `lxtc.info` is
  written some time after the runtime selection was read, and may name another
  runtime (docs/cli-reference.md:304). A setup that found an empty prefix sets
  aside whatever an installer has put there since (docs/cli-reference.md:102); the
  displaced installation is lost when the setup succeeds. Setups of two work
  directories do not exclude each other: one may reuse and report the installation that
  the other has just moved to the prefix, and the other takes it back when its
  validation fails (`ReportedStays` with a `WorkDir` for each setup has this
  counterexample).
* **Evidence.** A floor spelled "2.17.0" passes the preflight of a build, which
  compares values, and fails the load of the result, which compares spellings
  (`managed/publication.py:272`); so does a backend of the right floor that is not
  the pinned one (276-280). Both are refused after the container ran: `PreflightIsLax`.
  `managed build` takes no leases, so an SDK or a backend replaced under it is not
  what the action records (the property asks for builds that were not disturbed). The
  audit of a kit joins every needed name to the search path and takes any regular file
  (`host_artifact.py:98-106`): an absolute name is looked up on the machine that audits, a
  relative one with a slash below or beside the directory, and a text file will do for
  a library. The loader takes none of these, and the policy audit rejects names with a
  slash (`elf/audit.py:209`, docs/compatibility.md:265). The audits of products do not
  compare ELF classes either. `AcceptedServesTheLock` exempts the names in
  `TakenOnTrust` and does not ask for the class, and `AuditorsAgree` compares only what both audits look for.
  A publication that is in the way is loaded before it is replaced
  (`managed/publication.py:715`, 738). When it was made for another selection or by a
  release with other pins or scripts it no longer loads, and the next one is refused,
  with `--force` too; `RefusedForACause` names it (`PublishedOtherwise`). When a release of the program pins LLVM's source again, an artifact that is still
  accepted cannot be published any more. A Clang with two libstdc++ is a valid
  specification of which no lock is (`TwoOfAKind`). In a lock edited by hand the kit of
  a variant may be for another host than the kit that provides its runtimes; of such
  locks `ProvidersAreOwn` is false, and it is stated of the locks that setups, the only
  commands with leases, resolve themselves (`setup.py:1302`).
* **Bindings.** The default links of a qualification inherit
  `LINUX_TOOLCHAIN_CXX_RUNTIME` from the environment of the command
  (`compiler/binding.py:2488`). The SONAME a linker script names is not looked for
  among the copied libraries (`runtime/llvm.py:346`).

## 6. Not modelled

Integrations, the command line, diagnostics and licence collection render or read
text in one process and keep no state across commands; the text of build scripts,
the launcher's formatting and bundle manifests are of the same kind. File validation
by content (digests, schemas) appears only as "accepted" or not, and the build inside
a container as one step that may fail. Readelf's output and policy files are taken as
parsed; tar archives are not read; downloads without a source cache are left out.

RuntimeImport and CompilerBinding leave out headers, CRT objects, licences, the
probes of compiler versions and targets, bindings without a runtime, and outputs
that were never owned; names and search paths with a slash are folded into "foreign",
of several linker scripts one is kept, and the choice of the linker does not appear.
An export that is imported again with `--force` under an existing binding is not
related to that binding. ManagedEvidence has one workspace of each kind, and a
running build keeps the program it started with: an upgrade in place under a
running process, which would read packaged files of the new release, is left out.
`write_json_atomic` without replacement is not modelled. File system faults beyond
failing calls (writes lost at a power failure) are left out; the code calls `fsync`
for atomic JSON files and downloaded archives only.

The text of a component's `note` in `PROJECT.json` says what of it is left out.
All components are therefore "partly" modelled, except the two above that
are not modelled at all.

## 7. What could come next

1. The runtime set as a publication of its own, composed with `Publication`'s
   readers.
2. Larger instances of `leases` (three selections in a chain of providers) and of
   `managed_evidence` (two architectures).
3. Decreasing measures for the attempts of SdkWorkspace, SetupState and BuildTools, as
   for those of ManagedAssembly.
