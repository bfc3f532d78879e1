--------------------------- MODULE ManagedEvidence ---------------------------
(***************************************************************************)
(* How a managed artifact proves what it is.  The lock (managed/lockfile.py)*)
(* says what to build; a workspace records the SDK, target tools, compiler  *)
(* backend and script it was rendered for (managed/builder.py); the build   *)
(* checks them again, runs, audits its product and writes the action it was *)
(* built by (managed/artifacts.py); whoever loads or publishes the artifact *)
(* later, with another lock or another release of the program, decides by   *)
(* this record whether it is what the lock asks for                         *)
(* (managed/publication.py).                                                *)
(*                                                                          *)
(* These are the separate commands of the CLI, which take no leases: locks  *)
(* are edited, SDKs rebuilt and the program upgraded in between.  A running *)
(* build keeps the lock and the program it started with.  One target SDK    *)
(* workspace, one backend workspace and one managed workspace exist, and    *)
(* nothing but the commands changes them; a workspace of another name is a  *)
(* workspace that was removed first.  Pairs of builds are in ManagedAssembly.*)
(***************************************************************************)
EXTENDS LockResolution, ElfAudit, Naturals

CONSTANTS
  Programs,   \* the releases of the program, in order: [catalog, glibcs, pins, scripts]
  Specs,      \* specifications a user locks
  Hosts,      \* hosts a kit of an edited lock may be given
  SdkSpecs,   \* SDKs and backends a user builds: [arch, floor, kernel]
  Products,   \* what a container may leave: [payload, links, complete, files, others]
  MaxChanges  \* bound on locks, edits, SDK and backend builds and upgrades

ASSUME ChangesAssumption == MaxChanges \in Nat

\* COMPILER_RELEASES has each release once and by its full version.
ASSUME CatalogAssumption == \A i \in DOMAIN Programs : \A x, y \in Programs[i].catalog :
  /\ x = [family |-> x.family, version |-> x.version, sha512 |-> x.sha512]
  /\ x.family \in Families /\ Len(x.version) > 1
  /\ SourceId(x) = SourceId(y) => x = y

\* A recipe spells each glibc in one way, and a release that pins another glibc
\* pins other components.
ASSUME ProgramsAssumption ==
  /\ Programs \in Seq({Programs[i] : i \in DOMAIN Programs}) /\ Programs # <<>>
  /\ \A i, j \in DOMAIN Programs :
       Programs[i].pins = Programs[j].pins => Programs[i].glibcs = Programs[j].glibcs
  /\ \A i \in DOMAIN Programs : \A g, h \in Programs[i].glibcs : Same(g, h) => g = h

\* What readelf reports of a file.
ASSUME ProductsAssumption == \A product \in Products :
  /\ IsFiniteSet(product.files)
  /\ \A place \in product.others : place.file \in product.files \cup {None}
  /\ \A f \in product.files :
       /\ {"machine", "interpreter", "needs", "relr", "search"} \subseteq DOMAIN f
       /\ IsFiniteSet(f.needs)
       /\ \A n \in f.needs : n.version = None \/ n.version \in Seq(Nat) \ {<<>>}

VARIABLES
  program,     \* the installed release, an index of Programs
  lock,        \* the lockfile, None before it is written
  sdk,         \* the target SDK workspace: its spec and the pins it was built by
  backend,     \* the compiler backend workspace
  workspace,   \* the managed workspace's manifest
  artifact,    \* its output: what artifact.json records and what is really there
  publication, \* the runtime publication, and for what and by which release it was made
  running,     \* the build under way
  refusal,     \* the last refusal of work that was accepted before
  changes      \* number of changes

evidenceVars ==
  <<program, lock, sdk, backend, workspace, artifact, publication, running, refusal, changes>>

Current == Programs[program]
NoRefusal == [why |-> "none", about |-> None]
NoArtifact == [payload |-> "none"]

-----------------------------------------------------------------------------
(* Identities.                                                             *)

\* get_recipe finds the pinned glibc that parses like the requested one.
Pinned(p, floor) == \E g \in p.glibcs : Same(g, floor)
Recipe(p, arch, floor) ==
  [arch |-> arch, floor |-> CHOOSE g \in p.glibcs : Same(g, floor), kernel |-> "default"]

\* sdk_producer_identity: the specification without its name, and everything the
\* release of the program pins for it.
SdkIdentity(p, spec) == [spec |-> spec, pins |-> p.pins]

\* Mutant: a kit is the same for every floor of its target.
MutAction(p, sel, sdkId, backendId) ==
  [artifact |-> [f \in DOMAIN sel \ {"source", "platform", "build_host"} |-> sel[f]],
   source |-> sel.source.sha512,
   sdk |-> IF sel.kind = "runtime" THEN sdkId ELSE [sdkId EXCEPT !.spec.floor = <<2>>],
   backend |-> backendId, builder |-> <<p.pins, sel.platform>>, script |-> p.scripts]

\* managed_artifact_action: everything that can change the artifact.  The target
\* tools are those of the SDK, and the script is rendered by the program.
Action(p, sel, sdkId, backendId) ==
  [artifact |-> [f \in DOMAIN sel \ {"source", "platform", "build_host"} |-> sel[f]],
   source |-> sel.source.sha512, sdk |-> sdkId, backend |-> backendId,
   builder |-> <<p.pins, sel.platform>>, script |-> p.scripts]

\* managed_artifact_action_for_specs with the pinned backend.
PinnedAction(p, sel, sdkSpec) ==
  Action(p, sel, SdkIdentity(p, sdkSpec),
         SdkIdentity(p, Recipe(p, sel.build_host.arch, sel.build_host.floor)))

-----------------------------------------------------------------------------
(* What is checked before a build.                                         *)

\* _stable_sdk_identity: a directory records the build environment, components and
\* revisions it was made with, and they are those the program pins for its specification.
ProducedBy(p, w) == w # None /\ w = SdkIdentity(p, w.spec)

\* Mutant: the floor of the SDK is taken on trust.
MutSdkEvidence(p, sel, w) == ProducedBy(p, w) /\ w.spec.arch = sel.arch

\* _sdk_evidence and _target_tools_evidence: the SDK is what this program would
\* build from its specification, for the architecture and, of a runtime, the floor.
SdkEvidence(p, sel, w) ==
  /\ ProducedBy(p, w) /\ w.spec.arch = sel.arch
  /\ sel.floor # None => Same(w.spec.floor, sel.floor)

\* _compiler_backend_evidence.
BackendEvidence(p, sel, w) ==
  /\ ProducedBy(p, w)
  /\ w.spec.arch = sel.build_host.arch /\ Same(w.spec.floor, sel.build_host.floor)

Manifest(p, sel, s, b) ==
  [input |-> Action(p, sel, s, b), sdk |-> s, backend |-> b, script |-> p.scripts]

\* _verify_workspace_selection and _validated_workspace_inputs.
InputsValid(p, sel, w) ==
  /\ w # None
  /\ SdkEvidence(p, sel, sdk) /\ BackendEvidence(p, sel, backend)
  /\ w.sdk = sdk /\ w.backend = backend
  /\ w.input = Action(p, sel, sdk, backend)

-----------------------------------------------------------------------------
(* What is checked after it.                                               *)

PayloadName(sel) == IF sel.kind = "compiler-kit" THEN "compiler" ELSE "runtime"

\* finalize_artifact: payloads are not mixed, links stay inside, drivers, tools and
\* licences are there, and the files pass their audit.
ProductPasses(sel, product) ==
  /\ product.payload = PayloadName(sel) /\ product.links = "inside" /\ product.complete
  /\ IF sel.kind = "compiler-kit"
     THEN HostAuditPasses(product, sel.host.arch, sel.host.floor)
     ELSE RuntimeAuditPasses(product.files, sel.arch, sel.floor)

\* _validate_build_action: the action, read back, is the one this program would
\* record for the selection with the SDK that the action names.
ActionValid(p, sel, action) ==
  /\ action.sdk = SdkIdentity(p, action.sdk.spec)
  /\ action.sdk.spec.arch = sel.arch
  /\ sel.floor # None => action.sdk.spec.floor = sel.floor
  /\ Pinned(p, sel.build_host.floor)
  /\ action = PinnedAction(p, sel, action.sdk.spec)

FloorOf(sel) == IF sel.kind = "compiler-kit" THEN sel.host.floor ELSE sel.floor
MachineOf(sel) == IF sel.kind = "compiler-kit" THEN sel.host.arch ELSE sel.arch

\* _validate_provenance: the builder image was one of the platform of the selection.
ProvenanceValid(sel, a) == a.platform = sel.platform /\ sel.platform = sel.build_host.arch

\* _validate_common_artifact: the action, the recorded audit and, of a kit, the
\* manifest written beside it.
Loads(p, l, sel, a) ==
  /\ a # NoArtifact /\ ActionValid(p, sel, a.action)
  /\ ValidLock(l) /\ sel \in Artifacts(l)
  /\ ProvenanceValid(sel, a)
  /\ a.audit # None => AtMost(a.audit, FloorOf(sel))
  /\ a.payload = PayloadName(sel)
  /\ sel.kind = "compiler-kit" =>
       a.kit = <<sel.family, sel.version, sel.host, sel.arch>>

\* load_managed_llvm_source_evidence looks the release up again, in the catalog of
\* the program that publishes.
SourceEvidence(p, sel) ==
  sel.runtime_kind = "llvm-runtime" =>
    /\ Resolves(p.catalog, "clang", sel.version)
    /\ ResolveRelease(p.catalog, "clang", sel.version).sha512 = sel.source.sha512

\* load_managed_runtime_publication: the action again, and the manifest of the
\* runtime.
PublicationLoads(p, l, sel, pub) ==
  /\ sel.kind = "runtime" /\ pub # None /\ ActionValid(p, sel, pub.action)
  /\ ValidLock(l) /\ sel \in Artifacts(l)
  /\ pub.manifest = <<sel.runtime_kind, sel.version, sel.arch, sel.floor>>

-----------------------------------------------------------------------------
(* Locks, SDKs and the program.                                            *)

EvidenceInit ==
  /\ program = 1 /\ lock = None /\ sdk = None /\ backend = None
  /\ workspace = None /\ artifact = NoArtifact /\ publication = None /\ running = None
  /\ refusal = NoRefusal /\ changes = 0

Change == changes < MaxChanges /\ changes' = changes + 1

\* managed lock: resolve_lock and write_lockfile.
WriteLock(s) ==
  /\ Change /\ ValidSpec(s) /\ SelectorsResolve(Current.catalog, s)
  /\ LET l == Resolve(Current.catalog, s)
     IN IF ValidLock(l) THEN lock' = l /\ UNCHANGED refusal
        ELSE refusal' = [why |-> "lock", about |-> s] /\ UNCHANGED lock
  /\ UNCHANGED <<program, sdk, backend, workspace, artifact, publication, running>>

\* A lockfile is a text file: an entry is taken out, a kit is added for another host
\* and named by the variants, or the entries of another lock are added.
WithoutKit(l, k) == [l EXCEPT !.kits = @ \ {k}]
WithoutVariant(l, v) == [l EXCEPT !.variants = @ \ {v}]
WithKitFor(l, k, h) ==
  [l EXCEPT !.kits = @ \cup {[k EXCEPT !.host = h]},
            !.variants = {IF v.kit = k THEN [v EXCEPT !.kit.host = h] ELSE v : v \in @}]
Joined(l, m) ==
  [l EXCEPT !.sources = @ \cup m.sources, !.kits = @ \cup m.kits,
            !.runtimes = @ \cup m.runtimes, !.variants = @ \cup m.variants]

\* The specifications that the installed program resolves.
Resolvable == {s \in Specs : ValidSpec(s) /\ SelectorsResolve(Current.catalog, s)}

Edits(l) ==
  {WithoutKit(l, k) : k \in l.kits} \cup {WithoutVariant(l, v) : v \in l.variants}
  \cup {WithKitFor(l, k, h) : k \in l.kits, h \in Hosts}
  \cup {Joined(l, Resolve(Current.catalog, s)) : s \in Resolvable}

EditLock ==
  /\ Change /\ lock # None
  /\ \E l \in Edits(lock) : l # lock /\ ValidLock(l) /\ lock' = l
  /\ UNCHANGED <<program, sdk, backend, workspace, artifact, publication, running, refusal>>

\* sdk build; the spec is a recipe's or the user's own, with pinned components.
BuildSdk(spec) ==
  /\ Change /\ spec.floor \in Current.glibcs
  /\ sdk' = SdkIdentity(Current, spec)
  /\ UNCHANGED <<program, lock, backend, workspace, artifact, publication, running, refusal>>

BuildBackend(spec) ==
  /\ Change /\ spec.floor \in Current.glibcs
  /\ backend' = SdkIdentity(Current, spec)
  /\ UNCHANGED <<program, lock, sdk, workspace, artifact, publication, running, refusal>>

Upgrade ==
  /\ Change /\ program < Len(Programs) /\ program' = program + 1
  /\ UNCHANGED <<lock, sdk, backend, workspace, artifact, publication, running, refusal>>

-----------------------------------------------------------------------------
(* Builds.                                                                 *)

\* render_workspace: without a workspace, or over one for the same inputs, which
\* goes with its output.
Render(sel) ==
  /\ running = None
  /\ SdkEvidence(Current, sel, sdk) /\ BackendEvidence(Current, sel, backend)
  /\ LET w == Manifest(Current, sel, sdk, backend)
     IN /\ workspace # None => workspace.input = w.input
        /\ workspace' = w
  /\ artifact' = NoArtifact
  /\ UNCHANGED <<program, lock, sdk, backend, publication, running, refusal, changes>>

\* The user starts afresh in another directory.
RemoveWorkspace ==
  /\ running = None /\ workspace # None
  /\ workspace' = None /\ artifact' = NoArtifact
  /\ UNCHANGED <<program, lock, sdk, backend, publication, running, refusal, changes>>

\* build_with_docker up to the container.
StartBuild(sel) ==
  /\ running = None /\ InputsValid(Current, sel, workspace)
  /\ running' = [selection |-> sel, lock |-> lock, program |-> program,
                 manifest |-> workspace, sdk |-> sdk, backend |-> backend]
  /\ UNCHANGED <<program, lock, sdk, backend, workspace, artifact, publication, refusal,
                 changes>>

\* What artifact.json and the kit's manifest record, and what the container used:
\* the directories were mounted by name and may have changed since.
Finalized(product) ==
  LET sel == running.selection
  IN [action |-> running.manifest.input, audit |-> MaxRequired(product.files),
      platform |-> sel.platform, payload |-> product.payload,
      kit |-> <<sel.family, sel.version, sel.host, sel.arch>>,
      product |-> product, source |-> sel.source,
      sdk |-> sdk, backend |-> backend,
      undisturbed |-> sdk = running.sdk /\ backend = running.backend]

\* The container leaves a product that is refused.
RefuseProduct(product) ==
  /\ running # None /\ ~ProductPasses(running.selection, product)
  /\ refusal' = [why |-> "product", about |-> running.selection]
  /\ running' = None
  /\ UNCHANGED <<program, lock, sdk, backend, workspace, artifact, publication, changes>>

\* _finalize_and_publish_artifact: the result is loaded in its final place; if that
\* fails the previous one is put back.
FinishBuild(product) ==
  /\ running # None /\ ProductPasses(running.selection, product)
  /\ LET a == Finalized(product)
     IN IF Loads(Programs[running.program], running.lock, running.selection, a)
        THEN artifact' = a /\ UNCHANGED refusal
        ELSE /\ refusal' = [why |-> "action", about |-> running]
             /\ UNCHANGED artifact
  /\ running' = None
  /\ UNCHANGED <<program, lock, sdk, backend, workspace, publication, changes>>

\* A kill or an error; what there was stays.
StopBuild ==
  /\ running # None /\ running' = None
  /\ UNCHANGED <<program, lock, sdk, backend, workspace, artifact, publication, refusal,
                 changes>>

-----------------------------------------------------------------------------
(* Publications.                                                           *)

\* publish_managed_runtime_publication: a publication that is there is returned (which
\* changes nothing), or with --force replaced.  One that does not load, and a release
\* that is not found, make it fail with --force too.
Publish(sel) ==
  /\ sel.kind = "runtime" /\ Loads(Current, lock, sel, artifact)
  /\ LET made == [selection |-> sel, program |-> program]
     IN IF publication # None /\ ~PublicationLoads(Current, lock, sel, publication)
          THEN /\ refusal' = [why |-> "publication", about |-> <<made, publication.made>>]
               /\ UNCHANGED publication
        ELSE IF ~SourceEvidence(Current, sel)
          THEN refusal' = [why |-> "source", about |-> made] /\ UNCHANGED publication
        ELSE /\ publication' =
                   [action |-> artifact.action,
                    manifest |-> <<sel.runtime_kind, sel.version, sel.arch, sel.floor>>,
                    product |-> artifact.product, made |-> made]
             /\ UNCHANGED refusal
  /\ UNCHANGED <<program, lock, sdk, backend, workspace, artifact, running, changes>>

Locked == IF lock = None THEN {} ELSE Artifacts(lock)

EvidenceNext ==
  \/ \E s \in Specs : WriteLock(s)
  \/ EditLock
  \/ \E spec \in SdkSpecs : BuildSdk(spec) \/ BuildBackend(spec)
  \/ Upgrade
  \/ \E sel \in Locked : Render(sel) \/ StartBuild(sel) \/ Publish(sel)
  \/ RemoveWorkspace
  \/ \E product \in Products : RefuseProduct(product) \/ FinishBuild(product)
  \/ StopBuild

EvidenceSpec == EvidenceInit /\ [][EvidenceNext]_evidenceVars

-----------------------------------------------------------------------------
(* Properties.                                                             *)

\* The code these are about trusts the container with three things.  A DT_NEEDED with
\* a slash, which the loader opens as it is written, is joined to the search path; any
\* regular file will do for a library; and no audit of a product looks at the ELF class.
TakenOnTrust(product, f, n) ==
  n.path # "plain" \/ \E place \in Leads(product, f, n) : place.file = None

\* What a kit or a runtime is used for: a kit runs on its host, the files of a
\* runtime are linked into programs of its target.
Usable(sel, product) ==
  \A f \in product.files :
    IF sel.kind = "compiler-kit"
    THEN /\ Starts(f, sel.host.arch, sel.host.floor)
         /\ \A n \in f.needed :
              Linked(product, f, n, sel.host.arch) \/ TakenOnTrust(product, f, n)
    ELSE Starts([f EXCEPT !.interpreter = None], sel.arch, sel.floor) /\ f.search = {}

\* Whatever happened since it was built - another lock, an edited one, another SDK,
\* another release of the program - an artifact or a publication is accepted for a
\* selection only if its files serve the selection's own floor, they come of its
\* source, and, unless a directory was replaced under the running build, of the SDK
\* and the backend this program would build for it.
AcceptedServesTheLock ==
  \A sel \in Locked :
    /\ Loads(Current, lock, sel, artifact) =>
         /\ Usable(sel, artifact.product)
         /\ artifact.source.sha512 = sel.source.sha512
         /\ artifact.undisturbed =>
              /\ artifact.sdk.pins = Current.pins
              /\ sel.floor # None => artifact.sdk.spec.floor = sel.floor
              /\ artifact.backend = SdkIdentity(Current, Recipe(Current, sel.build_host.arch,
                                                               sel.build_host.floor))
    /\ PublicationLoads(Current, lock, sel, publication) => Usable(sel, publication.product)

\* What the preflight of a build compares by value and the load by spelling: a floor
\* written "2.17.0", and a backend that is not the pinned one.
PreflightIsLax(r) ==
  LET pinned == Recipe(Programs[r.program], r.selection.build_host.arch,
                       r.selection.build_host.floor)
  IN \/ /\ r.selection.floor # None /\ r.sdk.spec.floor # r.selection.floor
        /\ Same(r.sdk.spec.floor, r.selection.floor)
     \/ /\ r.backend.spec # pinned
        /\ <<r.backend.spec.arch, r.backend.spec.floor>> = <<pinned.arch, pinned.floor>>

\* Two libstdc++ for one Clang: the specification is accepted, no lock of it is.
TwoOfAKind(s) ==
  \E c \in s.compilers : \E x, y \in c.runtimes : x.kind = y.kind /\ x # y

\* What was published was published for another selection, or by a release that pins
\* or scripts its builds otherwise.
PublishedOtherwise(made, now) ==
  \/ made.selection # now.selection
  \/ Programs[made.program].pins # Programs[now.program].pins
  \/ Programs[made.program].scripts # Programs[now.program].scripts

\* Hours of building end in a refusal only for what the container left, or where the
\* preflight is laxer than the load; an accepted specification has a lock unless it
\* asks for two runtimes of a kind; and an artifact that loads can be published unless
\* the pinned release moved or something published otherwise is in the way, which
\* --force does not replace.
RefusedForACause ==
  /\ refusal.why = "action" => PreflightIsLax(refusal.about)
  /\ refusal.why = "lock" => TwoOfAKind(refusal.about)
  /\ refusal.why = "publication" =>
       PublishedOtherwise(refusal.about[2], refusal.about[1])
  /\ refusal.why = "source" =>
       /\ refusal.about.program > 1
       /\ [family |-> "clang", version |-> refusal.about.selection.version,
           sha512 |-> refusal.about.selection.source.sha512]
            \notin Programs[refusal.about.program].catalog

\* The directories of the store that a setup of a variant takes, by the actions that
\* name them: its kit, and of each runtime the kit that provides it and itself.  A
\* setup whose floor is not spelled as pinned does not get that far.
StoreOf(p, l, v) ==
  LET sdkSpec == Recipe(p, v.target.arch, v.target.floor)
  IN [kit |-> PinnedAction(p, SelectKit(l, v.kit), sdkSpec),
      runtimes |-> {[provider |-> PinnedAction(p, SelectKit(l, CHOOSE k \in ProviderKits(l, x.runtime) : TRUE),
                                               sdkSpec),
                     itself |-> PinnedAction(p, SelectRuntime(l, x.runtime), sdkSpec)] :
                    x \in v.runtimes}]
Stores(p, l) == {StoreOf(p, l, v) : v \in {x \in l.variants : x.target.floor \in p.glibcs}}

\* Of all locks that a setup with the installed program resolves.
SetupStores ==
  UNION {Stores(Current, l) : l \in {m \in {Resolve(Current.catalog, s) : s \in Resolvable} : ValidLock(m)}}

OwnProviders(v, w) ==
  \A r \in v.runtimes :
    /\ r.provider = w.kit =>
         r.provider = v.kit \/ \E q \in w.runtimes : q.itself = r.itself
    /\ \A q \in w.runtimes : r.provider = q.provider => r.itself = q.itself

\* What the leases of two setups rest on (ProviderAssumption of ProducerLeases): a
\* kit that provides a runtime of one setup and is the compiler of the other is the
\* compiler of both, or the other builds that runtime too; and one kit provides one
\* runtime.  Setups resolve their own locks; an edited lock, whose kit may be for
\* another host than the providers of its runtimes, would not do.  This is about the
\* installed program alone, and so is asked before there is a lock.
ProvidersAreOwn == lock = None => \A v, w \in SetupStores : OwnProviders(v, w)

\* The codes of the policy audit that the audits of products look for too.
CommonCodes ==
  {"machine_mismatch", "forbidden_version_required", "unknown_glibc_version_required",
   "glibc_floor_exceeded", "glibc_abi_dt_relr_unsupported", "dt_relr_unsupported",
   "search_path"}

\* The three audits are written apart.  In what the audit of a build accepts, a user who
\* audits the published files under the policy of the same floor finds nothing that
\* both look for.  The class, the interpreter and names with slashes they judge apart.
AuditorsAgree ==
  \A sel \in Locked :
    Loads(Current, lock, sel, artifact) =>
      \A f \in {g \in artifact.product.files : g.type # "REL"} :
        Violations(f, PolicyForFloor(MachineOf(sel), FloorOf(sel))) \cap CommonCodes = {}
=============================================================================
