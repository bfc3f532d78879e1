--------------------------- MODULE InstallPrefix ---------------------------
(* Commands that install into one prefix: `setup --prefix` of several work  *)
(* directories (bundle.publish_installation_from_validated_inputs),          *)
(* generated installers, and the launcher commands that write outside the    *)
(* prefix.  Setups of one work directory exclude each other by its state     *)
(* lease; nothing locks the prefix or the Conan homes.  A tree is named      *)
(* after the process that made it.                                          *)
EXTENDS Integers, FiniteSets

CONSTANTS
  Setups, Installers, Launchers,   \* processes
  WorkDir,              \* the work directory of a setup
  Forced,               \* the setups run with --force
  Selection,            \* what a process installs: lock, variant, integrations, id
  Homes, Home,          \* the Conan home a process configures
  FileCount,            \* files of a Conan home, written in order
  Config,               \* their contents, as a process wants them
  Runtimes, DefaultRuntime,
  MaxRuns               \* how often each runs (bound)

Makers == Setups \cup Installers
Procs == Makers \cup Launchers
UserFile == "user"     \* a Conan file that the user wrote
Missing == "missing"
Empty == "empty"
Files == 1..FileCount

ASSUME ProcsAssumption ==
  /\ Setups \cap Installers = {} /\ Makers \cap Launchers = {}
  /\ Missing \notin Makers /\ Empty \notin Makers
ASSUME ConfigAssumption ==
  /\ FileCount \in Nat
  /\ Home \in [Procs -> Homes]
  /\ \A p \in Makers : \A f \in Files : Config[p][f] # Missing
ASSUME ForcedAssumption == Forced \subseteq Setups
ASSUME RuntimesAssumption == DefaultRuntime \in Runtimes /\ Missing \notin Runtimes
ASSUME MaxRunsAssumption == MaxRuns \in [Procs -> Nat]

\* Setups of one work directory have one selection.
ASSUME WorkDirAssumption ==
  \A p, q \in Setups : WorkDir[p] = WorkDir[q] => Selection[p] = Selection[q]

VARIABLES
  prefix,     \* Missing, Empty, or the process whose installation is there
  staging,    \* per process: its sibling directory
  backup,     \* per process: what replace_directory has set aside
  conf,       \* the files of each Conan home
  selection,  \* the persistent C++ runtime choice of the bundle
  info,       \* the runtime that lxtc.info of each Conan home names
  pc, file, chosen,   \* per process: point, next Conan file, runtime read
  copy,       \* per process: the temporary copy that a script is about to move
  reported,   \* processes whose last run reported an installation
  runs,
  found,      \* per process: Conan files that were there when it began (history)
  raced,      \* files that a script has put over other contents (history)
  disturbed   \* a stop has left a backup behind (history)

trees == <<prefix, staging, backup>>
home == <<conf, info>>
local == <<file, chosen, copy>>
history == <<found, raced, disturbed>>
vars == <<trees, home, selection, pc, local, reported, runs, history>>

Contents == {Config[p][f] : p \in Makers, f \in Files} \cup {UserFile}
SetupPoints == {"check", "stage", "link", "read", "info", "aside", "install", "validate",
                "unwind", "restore", "discard"}
InstallerPoints == {"look", "rmdir", "extract", "test", "cp", "mv", "load", "write", "move"}
Points == {"idle"} \cup SetupPoints \cup InstallerPoints

Trees == Makers \cup {Missing, Empty}
TypeOK ==
  /\ prefix \in Trees
  /\ staging \in [Procs -> Trees]
  /\ backup \in [Procs -> Trees]
  /\ conf \in [Homes -> [Files -> Contents \cup {Missing}]]
  /\ selection \in Runtimes \cup {Missing}
  /\ info \in [Homes -> Runtimes \cup {Missing}]
  /\ pc \in [Procs -> Points]
  /\ file \in [Procs -> 1..(FileCount + 1)]
  /\ chosen \in [Procs -> Runtimes]
  /\ copy \in [Procs -> Contents \cup {Missing}]
  /\ found \in [Procs -> SUBSET Files]
  /\ raced \subseteq Homes \X Files
  /\ reported \subseteq Makers
  /\ runs \in [Procs -> Nat]
  /\ disturbed \in BOOLEAN

Init ==
  /\ prefix \in {Missing, Empty}
  /\ staging = [p \in Procs |-> Missing]
  /\ backup = [p \in Procs |-> Missing]
  /\ conf \in [Homes -> [Files -> {Missing, UserFile}]]
  /\ selection = Missing
  /\ info = [h \in Homes |-> Missing]
  /\ pc = [p \in Procs |-> "idle"]
  /\ file = [p \in Procs |-> 1]
  /\ chosen = [p \in Procs |-> DefaultRuntime]
  /\ reported = {}
  /\ runs = [p \in Procs |-> 0]
  /\ copy = [p \in Procs |-> Missing]
  /\ found = [p \in Procs |-> {}]
  /\ raced = {}
  /\ disturbed = FALSE

-----------------------------------------------------------------------------
At(p, point) == pc[p] = point
Goto(p, point) == pc' = [pc EXCEPT ![p] = point]
Occupied(path) == path \in Makers

\* os.replace and mv -T rename a directory over nothing or an empty directory.
CanReceive(path) == ~Occupied(path)

\* The command ends, and its local state with it.
Leave(p) ==
  /\ Goto(p, "idle")
  /\ file' = [file EXCEPT ![p] = 1]
  /\ chosen' = [chosen EXCEPT ![p] = DefaultRuntime]
  /\ copy' = [copy EXCEPT ![p] = Missing]
  /\ found' = [found EXCEPT ![p] = {}]
  /\ UNCHANGED raced

\* An installation it reports is at the prefix.
Report(p) == Leave(p) /\ reported' = reported \cup {p}
Matching(p) == Occupied(prefix) /\ Selection[prefix] = Selection[p]

\* An error: the finally clause and the trap remove the staging directory.
Fail(p) ==
  /\ Leave(p)
  /\ staging' = [staging EXCEPT ![p] = Missing]
  /\ UNCHANGED <<prefix, backup, home, selection, reported, runs, disturbed>>

\* resolve_runtime_state_file, load_runtime_selection.
PersistentRuntime == IF selection = Missing THEN DefaultRuntime ELSE selection

Conf(p) == conf[Home[p]]
Configured(p) ==
  \A f \in Files : <<Home[p], f>> \notin raced => Conf(p)[f] = Config[p][f]
Present(p) == {f \in Files : Conf(p)[f] # Missing}

\* The state lease is held by another setup of the work directory.
Leased(p) == \E q \in Setups \ {p} : WorkDir[q] = WorkDir[p] /\ pc[q] # "idle"

Start(p, point) ==
  /\ At(p, "idle") /\ runs[p] < MaxRuns[p]
  /\ runs' = [runs EXCEPT ![p] = @ + 1]
  /\ found' = [found EXCEPT ![p] = Present(p)]
  /\ Goto(p, point)
  /\ UNCHANGED <<trees, home, selection, local, reported, raced, disturbed>>

-----------------------------------------------------------------------------
(* setup --prefix.                                                         *)

\* Mutant: the installation is published without the state lease.
MutBeginSetup(p) == p \in Setups /\ Start(p, "check")

BeginSetup(p) == p \in Setups /\ ~Leased(p) /\ Start(p, "check")

\* A validated installation of the same selection and Conan home is returned.
Reuse(p) ==
  /\ At(p, "check") /\ p \notin Forced
  /\ Matching(p) /\ Home[prefix] = Home[p]
  /\ Report(p)
  /\ UNCHANGED <<trees, home, selection, runs, disturbed>>

Refuse(p) ==
  /\ At(p, "check") /\ Occupied(prefix)
  /\ Matching(p) => p \notin Forced /\ Home[prefix] # Home[p]
  /\ Fail(p)

GoOn(p) ==
  /\ At(p, "check")
  /\ Occupied(prefix) => Matching(p) /\ p \in Forced
  /\ Goto(p, "stage")
  /\ UNCHANGED <<trees, home, selection, local, reported, runs, history>>

\* _write_payload and _instantiate_payload fill a fresh sibling directory.
Stage(p) ==
  /\ At(p, "stage")
  /\ staging' = [staging EXCEPT ![p] = p]
  /\ Goto(p, "link")
  /\ UNCHANGED <<prefix, backup, home, selection, local, reported, runs, history>>

\* Mutant: os.replace instead of os.link, so that an existing file is replaced.
MutWriteConfiguration(p) ==
  /\ At(p, "link") /\ file[p] \in Files
  /\ conf' = [conf EXCEPT ![Home[p]][file[p]] = Config[p][file[p]]]
  /\ file' = [file EXCEPT ![p] = @ + 1]
  /\ UNCHANGED <<trees, info, selection, pc, chosen, copy, reported, runs, history>>

\* _write_conan_configuration: os.link creates the file or finds it there, and
\* then it must have the wanted content.
WriteConfiguration(p) ==
  /\ At(p, "link") /\ file[p] \in Files
  /\ Conf(p)[file[p]] \in {Missing, Config[p][file[p]]}
  /\ conf' = [conf EXCEPT ![Home[p]][file[p]] = Config[p][file[p]]]
  /\ file' = [file EXCEPT ![p] = @ + 1]
  /\ UNCHANGED <<trees, info, selection, pc, chosen, copy, reported, runs, history>>

RefuseConfiguration(p) ==
  /\ At(p, "link") /\ file[p] \in Files
  /\ Conf(p)[file[p]] \notin {Missing, Config[p][file[p]]}
  /\ Fail(p)

\* Mutant: only the first file decides.
MutConfigure(p) ==
  /\ At(p, "link") /\ file[p] > 1
  /\ Goto(p, "read")
  /\ UNCHANGED <<trees, home, selection, local, reported, runs, history>>

Configure(p) ==
  /\ At(p, "link") /\ file[p] \notin Files
  /\ Goto(p, "read")
  /\ UNCHANGED <<trees, home, selection, local, reported, runs, history>>

\* _conan_runtime_selection, or load_runtime_selection of the installer ...
ReadSelection(p, from, to) ==
  /\ At(p, from)
  /\ chosen' = [chosen EXCEPT ![p] = PersistentRuntime]
  /\ Goto(p, to)
  /\ UNCHANGED <<trees, home, selection, file, copy, reported, runs, history>>

\* ... and later lxtc.info, replaced as a whole.
WriteInfo(p, from) ==
  /\ At(p, from)
  /\ info' = [info EXCEPT ![Home[p]] = chosen[p]]
  /\ UNCHANGED <<trees, conf, selection, reported, runs, disturbed>>

Snapshot(p) ==
  /\ WriteInfo(p, "info")
  /\ Goto(p, "aside")
  /\ UNCHANGED <<local, found, raced>>

-----------------------------------------------------------------------------
(* replace_directory, without a lease on the destination.                  *)

SetAside(p) ==
  /\ At(p, "aside")
  /\ backup' = [backup EXCEPT ![p] = prefix]
  /\ prefix' = Missing
  /\ Goto(p, "install")
  /\ UNCHANGED <<staging, home, selection, local, reported, runs, history>>

Install(p) ==
  /\ At(p, "install") /\ CanReceive(prefix)
  /\ prefix' = staging[p]
  /\ staging' = [staging EXCEPT ![p] = Missing]
  /\ Goto(p, "validate")
  /\ UNCHANGED <<backup, home, selection, local, reported, runs, history>>

\* What is at the prefix now must be a whole installation of this selection.
Validate(p) ==
  /\ At(p, "validate")
  /\ Matching(p) /\ Home[prefix] = Home[p]
  /\ Goto(p, "discard")
  /\ UNCHANGED <<trees, home, selection, local, reported, runs, history>>

\* A rename that finds the prefix taken or gone, a failed validation, an error.
Raise(p) ==
  /\ pc[p] \in {"aside", "install", "validate"}
  /\ Goto(p, "unwind")
  /\ UNCHANGED <<trees, home, selection, local, reported, runs, history>>

\* The new tree leaves the prefix if it got there.
Unwind(p) ==
  /\ At(p, "unwind")
  /\ IF prefix # Missing /\ staging[p] = Missing
       THEN staging' = [staging EXCEPT ![p] = prefix] /\ prefix' = Missing
       ELSE UNCHANGED <<staging, prefix>>
  /\ Goto(p, "restore")
  /\ UNCHANGED <<backup, home, selection, local, reported, runs, history>>

Restore(p) ==
  /\ At(p, "restore")
  /\ backup[p] # Missing => CanReceive(prefix)
  /\ prefix' = IF backup[p] = Missing THEN prefix ELSE backup[p]
  /\ backup' = [backup EXCEPT ![p] = Missing]
  /\ staging' = [staging EXCEPT ![p] = Missing]
  /\ Leave(p)
  /\ UNCHANGED <<home, selection, reported, runs, disturbed>>

\* The prefix was taken meanwhile: the backup stays where it is.
RestoreFails(p) ==
  /\ At(p, "restore")
  /\ backup[p] # Missing /\ ~CanReceive(prefix)
  /\ backup' = [backup EXCEPT ![p] = Missing]
  /\ staging' = [staging EXCEPT ![p] = Missing]
  /\ Leave(p)
  /\ UNCHANGED <<prefix, home, selection, reported, runs, disturbed>>

Discard(p) ==
  /\ At(p, "discard")
  /\ backup' = [backup EXCEPT ![p] = Missing]
  /\ Report(p)
  /\ UNCHANGED <<prefix, staging, home, selection, runs, disturbed>>

\* Any other error before the publication.
Abort(p) == pc[p] \in {"stage", "link", "read", "info"} /\ Fail(p)

SetupStep(p) ==
  \/ BeginSetup(p) \/ Reuse(p) \/ Refuse(p) \/ GoOn(p) \/ Stage(p)
  \/ WriteConfiguration(p) \/ RefuseConfiguration(p) \/ Configure(p)
  \/ ReadSelection(p, "read", "info") \/ Snapshot(p)
  \/ SetAside(p) \/ Install(p) \/ Validate(p) \/ Raise(p) \/ Unwind(p)
  \/ Restore(p) \/ RestoreFails(p) \/ Discard(p) \/ Abort(p)

-----------------------------------------------------------------------------
(* The generated installer, a shell script.                                *)

\* Where a script reads the bundle: an installer from its staging directory, a
\* launcher from the installation.
Source(p) == IF p \in Installers THEN staging[p] ELSE prefix

BeginInstaller(p) == p \in Installers /\ Start(p, "look")

\* The prefix must be absent or empty; an empty one is removed ...
Look(p) ==
  /\ At(p, "look") /\ ~Occupied(prefix)
  /\ Goto(p, IF prefix = Empty THEN "rmdir" ELSE "extract")
  /\ UNCHANGED <<trees, home, selection, local, reported, runs, history>>

RefusePrefix(p) == At(p, "look") /\ Occupied(prefix) /\ Fail(p)

\* ... if it is still there and empty.
Rmdir(p) ==
  /\ At(p, "rmdir") /\ prefix = Empty
  /\ prefix' = Missing
  /\ Goto(p, "extract")
  /\ UNCHANGED <<staging, backup, home, selection, local, reported, runs, history>>

RmdirFails(p) == At(p, "rmdir") /\ prefix # Empty /\ Fail(p)

\* mktemp -d, tar, the templates.
Extract(p) ==
  /\ At(p, "extract")
  /\ staging' = [staging EXCEPT ![p] = p]
  /\ Goto(p, "test")
  /\ UNCHANGED <<prefix, backup, home, selection, local, reported, runs, history>>

\* install_conan_file returns when the file is there with the wanted content ...
KeepFile(p) ==
  /\ At(p, "test") /\ file[p] \in Files /\ Occupied(Source(p))
  /\ Conf(p)[file[p]] = Config[Source(p)][file[p]]
  /\ file' = [file EXCEPT ![p] = @ + 1]
  /\ UNCHANGED <<trees, home, selection, pc, chosen, copy, reported, runs, history>>

\* ... refuses another content ...
RefuseFile(p) ==
  /\ At(p, "test") /\ file[p] \in Files /\ Occupied(Source(p))
  /\ Conf(p)[file[p]] \notin {Missing, Config[Source(p)][file[p]]}
  /\ Fail(p)

\* ... and when it is absent copies the wanted one to a temporary file
AbsentFile(p) ==
  /\ At(p, "test") /\ file[p] \in Files /\ Occupied(Source(p))
  /\ Conf(p)[file[p]] = Missing
  /\ Goto(p, "cp")
  /\ UNCHANGED <<trees, home, selection, local, reported, runs, history>>

CopyFile(p) ==
  /\ At(p, "cp") /\ Occupied(Source(p))
  /\ copy' = [copy EXCEPT ![p] = Config[Source(p)][file[p]]]
  /\ Goto(p, "mv")
  /\ UNCHANGED <<trees, home, selection, file, chosen, reported, runs, history>>

\* and moves that in place, whatever is there by now.
MoveFile(p) ==
  /\ At(p, "mv") /\ copy[p] # Missing
  /\ conf' = [conf EXCEPT ![Home[p]][file[p]] = copy[p]]
  /\ raced' = raced \cup (IF Conf(p)[file[p]] \in {Missing, copy[p]} THEN {}
                          ELSE {<<Home[p], file[p]>>})
  /\ copy' = [copy EXCEPT ![p] = Missing]
  /\ file' = [file EXCEPT ![p] = @ + 1]
  /\ Goto(p, "test")
  /\ UNCHANGED <<trees, info, selection, chosen, reported, runs, found, disturbed>>

MoveFileFails(p) == At(p, "mv") /\ copy[p] = Missing /\ Fail(p)

\* The launcher has loaded the runtime before, the installer loads it now.
FilesDone(p) ==
  /\ At(p, "test") /\ file[p] \notin Files
  /\ Goto(p, IF p \in Launchers THEN "write" ELSE "load")
  /\ UNCHANGED <<trees, home, selection, local, reported, runs, history>>

\* write_conan_info copies toolchain.info of the bundle.
WriteSnapshot(p) ==
  /\ Occupied(Source(p)) /\ WriteInfo(p, "write")
  /\ IF p \in Launchers THEN Leave(p)
     ELSE Goto(p, "move") /\ UNCHANGED <<local, found, raced>>

\* mv -T.
Move(p) ==
  /\ At(p, "move") /\ Occupied(Source(p)) /\ CanReceive(prefix)
  /\ prefix' = staging[p]
  /\ staging' = [staging EXCEPT ![p] = Missing]
  /\ Report(p)
  /\ UNCHANGED <<backup, home, selection, runs, disturbed>>

MoveFails(p) == At(p, "move") /\ ~CanReceive(prefix) /\ Fail(p)

\* HUP, INT or TERM: the trap removes the staging directory and the temporary
\* file, and the script goes on, until a command misses what was removed.
Signal(p) ==
  /\ p \in Installers /\ Occupied(staging[p])
  /\ staging' = [staging EXCEPT ![p] = Missing]
  /\ copy' = [copy EXCEPT ![p] = Missing]
  /\ UNCHANGED <<prefix, backup, home, selection, pc, file, chosen, reported, runs, history>>

SourceGone(p) ==
  /\ pc[p] \in {"test", "cp", "write", "move"}
  /\ ~Occupied(Source(p))
  /\ Fail(p)

ScriptStep(p) ==
  \/ BeginInstaller(p) \/ Look(p) \/ RefusePrefix(p) \/ Rmdir(p) \/ RmdirFails(p)
  \/ Extract(p) \/ KeepFile(p) \/ RefuseFile(p) \/ AbsentFile(p) \/ CopyFile(p)
  \/ MoveFile(p) \/ MoveFileFails(p) \/ FilesDone(p) \/ ReadSelection(p, "load", "write") \/ WriteSnapshot(p)
  \/ Move(p) \/ MoveFails(p) \/ Signal(p) \/ SourceGone(p)

-----------------------------------------------------------------------------
(* The launcher of the installation: runtime set and reset, conan-init.    *)

Launch(l) ==
  /\ l \in Launchers /\ At(l, "idle") /\ runs[l] < MaxRuns[l]
  /\ Occupied(prefix) /\ Home[prefix] = Home[l]
  /\ runs' = [runs EXCEPT ![l] = @ + 1]
  /\ found' = [found EXCEPT ![l] = Present(l)]
  /\ UNCHANGED <<file, copy, raced, disturbed>>

\* The selection is replaced or removed first, lxtc.info refreshed afterwards.
Switch(l, r) ==
  /\ Launch(l)
  /\ selection' \in IF r = DefaultRuntime THEN {r, Missing} ELSE {r}
  /\ chosen' = [chosen EXCEPT ![l] = r]
  /\ Goto(l, "write")
  /\ UNCHANGED <<trees, home, reported>>

ConanInit(l) ==
  /\ Launch(l)
  /\ chosen' = [chosen EXCEPT ![l] = PersistentRuntime]
  /\ Goto(l, "test")
  /\ UNCHANGED <<trees, home, selection, reported>>

-----------------------------------------------------------------------------
\* A stop at any point: the staging directory and the backup stay behind.
Kill(p) ==
  /\ pc[p] # "idle"
  /\ Leave(p)
  /\ staging' = [staging EXCEPT ![p] = Missing]
  /\ backup' = [backup EXCEPT ![p] = Missing]
  /\ disturbed' = (disturbed \/ backup[p] # Missing)
  /\ UNCHANGED <<prefix, home, selection, reported, runs>>

Done == (\A p \in Procs : At(p, "idle")) /\ UNCHANGED vars

Next ==
  \/ \E p \in Setups : SetupStep(p)
  \/ \E p \in Installers \cup Launchers : ScriptStep(p)
  \/ \E l \in Launchers : ConanInit(l) \/ \E r \in Runtimes : Switch(l, r)
  \/ \E p \in Procs : Kill(p)
  \/ Done

Spec == Init /\ [][Next]_vars

-----------------------------------------------------------------------------
Quiet == \A p \in Procs : At(p, "idle")

\* bundle.publish_installation_from_validated_inputs without a lease on the
\* prefix: once a command has reported an installation, the prefix holds one of a
\* selection that was reported whenever nobody is at work, unless a command was
\* killed while its backup held the previous installation.  Setups of one work
\* directory exclude each other; with two of them it does not hold, since one
\* may report the tree of the other before that is validated.
ReportedStays ==
  (Quiet /\ ~disturbed /\ reported # {}) =>
    /\ Occupied(prefix)
    /\ \E q \in reported : Selection[q] = Selection[prefix]

\* The installer's promise of an absent or empty prefix: an installation leaves
\* the prefix only when a setup sets it aside or rolls its publication back.
OnlySetupsDisplace ==
  [][(Occupied(prefix) /\ prefix' # prefix) =>
       \E p \in Setups : pc[p] \in {"aside", "unwind"} /\ pc'[p] # pc[p]]_vars

\* The Conan home is prepared before the installation is published: every file of
\* the home of what is at the prefix is there with its configuration, unless a
\* script has put its own over one of other contents (ConanFilesStay).
InstalledIsConfigured ==
  Occupied(prefix) => Configured(prefix)

\* docs/artifact-formats.md:339, "Existing different configuration fails closed":
\* no command changes or removes a Conan file that was there when it began, and a
\* setup changes none at all.  Of a file that has come since, the sentence is
\* false of the scripts: they may have found it absent, and then move theirs over
\* it (bundle_installer.py:192).
ConanFilesStay ==
  [][\A h \in Homes : \A f \in Files :
       (conf[h][f] # Missing /\ conf'[h][f] # conf[h][f]) =>
         \E p \in Installers \cup Launchers :
           pc[p] # "idle" /\ Home[p] = h /\ f \notin found[p] /\ pc'[p] # pc[p]]_vars

=============================================================================
