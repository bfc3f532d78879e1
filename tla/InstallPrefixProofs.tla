------------------------- MODULE InstallPrefixProofs -------------------------
(***************************************************************************)
(* What commands that share a prefix and Conan homes without a lock cannot   *)
(* do to each other, whatever configurations they bring.  An occupied prefix *)
(* is left only by setups that set it aside or roll back.  A file that was   *)
(* there when a command began is not changed by it, since whoever moves a     *)
(* file in place has found it absent since (FoundInv).  An installation is at  *)
(* the prefix only after its files were all there, and those not overwritten   *)
(* in the race (raced) still are (IInv).  For setups of one work directory     *)
(* (OneWorkDirectory) and any installers, what was reported is at the prefix   *)
(* when nobody is at work.                                                   *)
(***************************************************************************)
EXTENDS InstallPrefix, TLAPS

\* Where a maker has all its files in its Conan home.
AfterFiles == {"read", "info", "aside", "install", "validate", "load", "write", "move"}

\* File f of its home is as p wants it, or was overwritten.
Kept(p, f) == <<Home[p], f>> \in raced \/ conf[Home[p]][f] = Config[p][f]

Progress(p) ==
  /\ p \in Makers => \A f \in Files : f < file[p] => Kept(p, f)
  /\ (p \in Makers /\ pc[p] \in AfterFiles) => file[p] = FileCount + 1
  /\ pc[p] # "restore" => staging[p] \in {Missing, p}
  /\ (p \in Makers /\ pc[p] = "mv") => copy[p] \in {Missing, Config[p][file[p]]}
  /\ Occupied(backup[p]) => Configured(backup[p])

\* A launcher installs nothing.
LauncherAt(p) == p \in Launchers => pc[p] \in {"idle", "test", "cp", "mv", "write"}

\* A file is copied and moved while there is one.
FileAt(p) == pc[p] \in {"cp", "mv"} => file[p] \in Files

TypeInv == TypeOK /\ \A p \in Procs : LauncherAt(p) /\ FileAt(p)

IInv == InstalledIsConfigured /\ \A p \in Procs : Progress(p)

\* What a command found when it began is still there, and is not what it moves.
FoundAt(p) ==
  /\ \A f \in found[p] : conf[Home[p]][f] # Missing
  /\ pc[p] \in {"cp", "mv"} => file[p] \notin found[p]

FoundInv == \A p \in Procs : FoundAt(p)

-----------------------------------------------------------------------------
(* Types.                                                                   *)

LEMMA InitTypeOK == Init => TypeOK
<1> SUFFICES ASSUME Init PROVE TypeOK
  OBVIOUS
<1>1. /\ prefix \in Trees /\ staging \in [Procs -> Trees] /\ backup \in [Procs -> Trees]
      /\ selection \in Runtimes \cup {Missing} /\ info \in [Homes -> Runtimes \cup {Missing}]
  BY DEF Init, Trees
<1>2. pc \in [Procs -> Points] /\ chosen \in [Procs -> Runtimes] /\ reported \subseteq Makers
  BY RuntimesAssumption DEF Init, Points, RuntimesAssumption
<1>3. file \in [Procs -> 1..(FileCount + 1)] /\ runs \in [Procs -> Nat]
  BY ConfigAssumption DEF Init, ConfigAssumption
<1>4. disturbed \in BOOLEAN
  BY Zenon DEF Init
<1>5. conf \in [Homes -> [Files -> Contents \cup {Missing}]]
  BY DEF Init, Contents
<1>6. copy \in [Procs -> Contents \cup {Missing}] /\ found \in [Procs -> SUBSET Files]
      /\ raced \subseteq Homes \X Files
  BY DEF Init
<1> QED BY <1>1, <1>2, <1>3, <1>4, <1>5, <1>6 DEF TypeOK

\* Who leaves keeps nothing.
LEMMA LeaveTypes ==
  ASSUME TypeOK, NEW p \in Procs, Leave(p)
  PROVE  /\ pc' \in [Procs -> Points] /\ pc'[p] = "idle"
         /\ file' \in [Procs -> 1..(FileCount + 1)] /\ chosen' \in [Procs -> Runtimes]
         /\ copy' \in [Procs -> Contents \cup {Missing}] /\ found' \in [Procs -> SUBSET Files]
         /\ raced' = raced /\ file'[p] = 1 /\ copy'[p] = Missing /\ found'[p] = {}
         /\ \A q \in Procs \ {p} : /\ pc'[q] = pc[q] /\ file'[q] = file[q]
                              /\ copy'[q] = copy[q] /\ found'[q] = found[q]
BY RuntimesAssumption, ConfigAssumption
   DEF TypeOK, Leave, Goto, Points, RuntimesAssumption, ConfigAssumption

Wrote(h, g, x) == conf' = [conf EXCEPT ![h][g] = x]

\* What writing one file of a Conan home does to the home.
LEMMA ConfWrite ==
  ASSUME TypeOK, NEW h \in Homes, NEW g \in Files, NEW x \in Contents,
         Wrote(h, g, x)
  PROVE  /\ conf' \in [Homes -> [Files -> Contents \cup {Missing}]]
         /\ conf'[h][g] = x
         /\ \A k \in Homes : \A f \in Files : (k # h \/ f # g) => conf'[k][f] = conf[k][f]
<1>1. conf \in [Homes -> [Files -> Contents \cup {Missing}]] /\ conf[h] \in [Files -> Contents \cup {Missing}]
  BY DEF TypeOK
<1>2. conf' = [conf EXCEPT ![h] = [conf[h] EXCEPT ![g] = x]]
  BY DEF Wrote
<1>3. [conf[h] EXCEPT ![g] = x] \in [Files -> Contents \cup {Missing}]
  BY <1>1
<1> QED BY <1>1, <1>2, <1>3

LEMMA Sources ==
  ASSUME TypeOK, NEW p \in Procs, Occupied(Source(p)), NEW f \in Files
  PROVE  Source(p) \in Makers /\ Config[Source(p)][f] \in Contents
BY DEF Occupied, Contents

LEMMA SetupTypeOK ==
  ASSUME TypeOK, NEW p \in Setups, SetupStep(p)
  PROVE  TypeOK'
<1> USE RuntimesAssumption, ConfigAssumption
    DEF TypeOK, trees, home, local, history, At, Goto, Fail, Report, Points, SetupPoints,
        InstallerPoints, RuntimesAssumption, ConfigAssumption
<1>p. p \in Procs /\ p \in Makers
  BY DEF Procs, Makers
<1>1. CASE BeginSetup(p)
  BY <1>1, <1>p DEF BeginSetup, Start, Present
<1>2. CASE Reuse(p) \/ Discard(p)
  <2>1. staging' \in [Procs -> Trees] /\ backup' \in [Procs -> Trees]
    BY <1>2, <1>p DEF Reuse, Discard, Trees
  <2> QED BY <1>2, <1>p, <2>1, LeaveTypes DEF Reuse, Discard
<1>3. CASE Refuse(p) \/ RefuseConfiguration(p) \/ Abort(p)
  BY <1>3, <1>p, LeaveTypes DEF Refuse, RefuseConfiguration, Abort, Trees
<1>4. CASE GoOn(p) \/ Configure(p) \/ Validate(p) \/ Raise(p)
  BY <1>4, <1>p DEF GoOn, Configure, Validate, Raise
<1>5. CASE Stage(p)
  BY <1>5, <1>p DEF Stage, Trees
<1>6. CASE WriteConfiguration(p)
  <2>4. Home[p] \in Homes /\ file[p] \in Files
    BY <1>6, <1>p, ConfigAssumption DEF WriteConfiguration, ConfigAssumption
  <2>1. Config[p][file[p]] \in Contents /\ Home[p] \in Homes /\ file[p] \in Files
    BY <1>p, <2>4 DEF Contents
  <2>2. conf' \in [Homes -> [Files -> Contents \cup {Missing}]]
    BY <1>6, <2>1, ConfWrite DEF WriteConfiguration, Wrote
  <2>3. file' \in [Procs -> 1..(FileCount + 1)]
    BY <1>6, <1>p, <2>1, ConfigAssumption DEF WriteConfiguration, Files, ConfigAssumption
  <2> QED BY <1>6, <2>2, <2>3 DEF WriteConfiguration
<1>7. CASE ReadSelection(p, "read", "info")
  BY <1>7, <1>p, RuntimesAssumption DEF ReadSelection, PersistentRuntime, RuntimesAssumption
<1>8. CASE Snapshot(p)
  BY <1>8, <1>p DEF Snapshot, WriteInfo
<1>9. CASE SetAside(p)
  BY <1>9, <1>p DEF SetAside, Trees
<1>10. CASE Install(p)
  BY <1>10, <1>p DEF Install, Trees
<1>11. CASE Unwind(p)
  <2>1. prefix' \in Trees /\ staging' \in [Procs -> Trees]
    BY <1>11, <1>p DEF Unwind, Trees
  <2> QED BY <1>11, <1>p, <2>1 DEF Unwind
<1>12. CASE Restore(p) \/ RestoreFails(p)
  <2>1. prefix' \in Trees
    BY <1>12, <1>p DEF Restore, RestoreFails, Trees
  <2>2. staging' \in [Procs -> Trees] /\ backup' \in [Procs -> Trees]
    BY <1>12, <1>p DEF Restore, RestoreFails, Trees
  <2> QED BY <1>12, <1>p, <2>1, <2>2, LeaveTypes DEF Restore, RestoreFails
<1> QED BY <1>1, <1>2, <1>3, <1>4, <1>5, <1>6, <1>7, <1>8, <1>9, <1>10, <1>11, <1>12 DEF SetupStep

LEMMA ScriptTypeOK ==
  ASSUME TypeInv, NEW p \in Installers \cup Launchers, ScriptStep(p)
  PROVE  TypeOK'
<1> USE RuntimesAssumption, ConfigAssumption
    DEF TypeOK, trees, home, local, history, At, Goto, Fail, Report, Points, SetupPoints,
        InstallerPoints, RuntimesAssumption, ConfigAssumption
<1>p. p \in Procs /\ TypeOK /\ LauncherAt(p) /\ FileAt(p)
  BY DEF Procs, Makers, TypeInv
<1>1. CASE BeginInstaller(p)
  BY <1>1, <1>p DEF BeginInstaller, Start, Present
<1>2. CASE Look(p) \/ AbsentFile(p) \/ FilesDone(p)
  BY <1>2, <1>p DEF Look, AbsentFile, FilesDone
<1>3. CASE \/ RefusePrefix(p) \/ RmdirFails(p) \/ RefuseFile(p) \/ MoveFileFails(p) \/ MoveFails(p)
           \/ SourceGone(p)
  BY <1>3, <1>p, LeaveTypes DEF RefusePrefix, RmdirFails, RefuseFile, MoveFileFails, MoveFails, SourceGone, Trees
<1>4. CASE Rmdir(p)
  BY <1>4, <1>p DEF Rmdir, Trees
<1>5. CASE Extract(p)
  <2>1. p \in Makers
    BY <1>5, <1>p DEF Extract, LauncherAt, Makers
  <2> QED BY <1>5, <1>p, <2>1 DEF Extract, Trees
<1>6. CASE KeepFile(p)
  <2>1. file' \in [Procs -> 1..(FileCount + 1)]
    BY <1>6, <1>p, ConfigAssumption DEF KeepFile, Files, ConfigAssumption
  <2> QED BY <1>6, <1>p, <2>1 DEF KeepFile
<1>7. CASE MoveFile(p)
  <2>1. file[p] \in Files /\ Home[p] \in Homes /\ copy[p] \in Contents
    BY <1>7, <1>p DEF MoveFile, FileAt
  <2>2. conf' \in [Homes -> [Files -> Contents \cup {Missing}]]
    BY <1>7, <1>p, <2>1, ConfWrite DEF MoveFile, Wrote
  <2>3. file' \in [Procs -> 1..(FileCount + 1)] /\ raced' \subseteq Homes \X Files
    BY <1>7, <1>p, <2>1 DEF MoveFile, Files
  <2> QED BY <1>7, <1>p, <2>2, <2>3 DEF MoveFile
<1>8. CASE ReadSelection(p, "load", "write")
  BY <1>8, <1>p, RuntimesAssumption DEF ReadSelection, PersistentRuntime, RuntimesAssumption
<1>9. CASE WriteSnapshot(p)
  BY <1>9, <1>p, LeaveTypes DEF WriteSnapshot, WriteInfo
<1>10. CASE Move(p)
  <2>1. p \in Makers
    BY <1>10, <1>p DEF Move, LauncherAt, Makers
  <2> QED BY <1>10, <1>p, <2>1, LeaveTypes DEF Move, Trees
<1>11. CASE Signal(p)
  BY <1>11, <1>p DEF Signal, Trees
<1>12. CASE CopyFile(p)
  <2>1. Config[Source(p)][file[p]] \in Contents
    BY <1>12, <1>p, Sources DEF CopyFile, FileAt
  <2> QED BY <1>12, <1>p, <2>1 DEF CopyFile
<1> QED BY <1>1, <1>2, <1>3, <1>4, <1>5, <1>6, <1>7, <1>8, <1>9, <1>10, <1>11, <1>12 DEF ScriptStep

\* A step of one process.
StepOf(p) ==
  \/ p \in Setups /\ SetupStep(p)
  \/ p \in Installers \cup Launchers /\ ScriptStep(p)
  \/ p \in Launchers /\ (ConanInit(p) \/ \E r \in Runtimes : Switch(p, r))
  \/ Kill(p)

LEMMA LauncherTypeOK ==
  ASSUME TypeOK, NEW p \in Procs,
         Kill(p) \/ (p \in Launchers /\ (ConanInit(p) \/ \E r \in Runtimes : Switch(p, r)))
  PROVE  TypeOK'
<1> USE DEF TypeOK, trees, home, local, history, At, Goto, Leave, Points, SetupPoints, InstallerPoints
<1>1. CASE Kill(p)
  <2>1. disturbed' \in BOOLEAN
    BY <1>1, Zenon DEF Kill
  <2> QED BY <1>1, <2>1, LeaveTypes DEF Kill, Trees
<1>2. CASE p \in Launchers /\ ConanInit(p)
  BY <1>2, RuntimesAssumption, ConfigAssumption
     DEF ConanInit, Launch, Present, PersistentRuntime, RuntimesAssumption, ConfigAssumption
<1>3. ASSUME NEW r \in Runtimes, Switch(p, r) PROVE TypeOK'
  BY <1>3, RuntimesAssumption, ConfigAssumption
     DEF Switch, Launch, Present, RuntimesAssumption, ConfigAssumption
<1> QED BY <1>1, <1>2, <1>3

\* Nobody but p moves, and p goes from a point of its script to the next.
Alone(p) ==
  \A q \in Procs \ {p} :
    /\ pc'[q] = pc[q] /\ file'[q] = file[q] /\ copy'[q] = copy[q] /\ found'[q] = found[q]
    /\ staging'[q] = staging[q] /\ backup'[q] = backup[q]

LEMMA StepsAlone ==
  ASSUME TypeOK, NEW p \in Procs, StepOf(p)
  PROVE  Alone(p)
<1> USE LeaveTypes DEF TypeOK, trees, home, local, history, At, Goto, Fail, Report, Start, Alone
<1>1. CASE SetupStep(p)
  <2>1. CASE \/ Reuse(p) \/ Refuse(p) \/ RefuseConfiguration(p) \/ Restore(p) \/ RestoreFails(p)
             \/ Discard(p) \/ Abort(p)
    BY <2>1 DEF Reuse, Refuse, RefuseConfiguration, Restore, RestoreFails, Discard, Abort
  <2>2. CASE \/ BeginSetup(p) \/ GoOn(p) \/ Stage(p) \/ WriteConfiguration(p) \/ Configure(p)
             \/ ReadSelection(p, "read", "info") \/ Snapshot(p)
    BY <2>2 DEF BeginSetup, GoOn, Stage, WriteConfiguration, Configure, ReadSelection, Snapshot, WriteInfo
  <2>3. CASE SetAside(p) \/ Install(p) \/ Validate(p) \/ Raise(p) \/ Unwind(p)
    BY <2>3 DEF SetAside, Install, Validate, Raise, Unwind
  <2> QED BY <1>1, <2>1, <2>2, <2>3 DEF SetupStep
<1>2. CASE ScriptStep(p)
  BY <1>2 DEF ScriptStep, BeginInstaller, Look, RefusePrefix, Rmdir, RmdirFails, Extract, KeepFile,
     RefuseFile, AbsentFile, CopyFile, MoveFile, MoveFileFails, FilesDone, ReadSelection, WriteSnapshot, WriteInfo, Move,
     MoveFails, Signal, SourceGone
<1>3. CASE Kill(p) \/ ConanInit(p) \/ \E r \in Runtimes : Switch(p, r)
  BY <1>3 DEF Kill, ConanInit, Switch, Launch
<1> QED BY <1>1, <1>2, <1>3 DEF StepOf

LEMMA StepsTypeInv ==
  ASSUME TypeInv, NEW p \in Procs, StepOf(p)
  PROVE  TypeInv'
<1>1. TypeOK'
  BY SetupTypeOK, ScriptTypeOK, LauncherTypeOK DEF StepOf, TypeInv
<1>2. Alone(p) /\ TypeOK /\ LauncherAt(p) /\ FileAt(p)
  BY StepsAlone DEF TypeInv
<1>3. LauncherAt(p)'
  <2> SUFFICES ASSUME p \in Launchers PROVE pc'[p] \in {"idle", "test", "cp", "mv", "write"}
    BY DEF LauncherAt
  <2>1. p \notin Makers /\ p \notin Setups /\ p \notin Installers
    BY ProcsAssumption DEF ProcsAssumption, Makers
  <2>2. pc[p] \in {"idle", "test", "cp", "mv", "write"} /\ pc \in [Procs -> Points]
    BY <1>2 DEF LauncherAt, TypeOK
  <2> USE DEF local, At, Goto, Fail, Report, Leave, Start
  <2>3. CASE ScriptStep(p)
    BY <2>1, <2>2, <2>3 DEF ScriptStep, BeginInstaller, Look, RefusePrefix, Rmdir, RmdirFails,
       Extract, KeepFile, RefuseFile, AbsentFile, CopyFile, MoveFile, MoveFileFails, FilesDone, ReadSelection,
       WriteSnapshot, WriteInfo, Move, MoveFails, Signal, SourceGone
  <2>4. CASE Kill(p) \/ ConanInit(p) \/ \E r \in Runtimes : Switch(p, r)
    BY <2>1, <2>2, <2>4 DEF Kill, ConanInit, Switch, Launch
  <2> QED BY <2>1, <2>3, <2>4 DEF StepOf
<1>4. FileAt(p)'
  <2>2. pc \in [Procs -> Points] /\ (pc[p] \in {"cp", "mv"} => file[p] \in Files)
    BY <1>2 DEF FileAt, TypeOK
  <2> USE DEF FileAt, local, At, Goto, Fail, Report, Leave, Start
  <2>3. CASE ScriptStep(p)
    BY <2>2, <2>3 DEF ScriptStep, BeginInstaller, Look, RefusePrefix, Rmdir, RmdirFails,
       Extract, KeepFile, RefuseFile, AbsentFile, CopyFile, MoveFile, MoveFileFails, FilesDone, ReadSelection,
       WriteSnapshot, WriteInfo, Move, MoveFails, Signal, SourceGone
  <2>4. CASE Kill(p) \/ ConanInit(p) \/ \E r \in Runtimes : Switch(p, r)
    BY <2>2, <2>4 DEF Kill, ConanInit, Switch, Launch
  <2>5. CASE SetupStep(p)
    BY <2>2, <2>5 DEF SetupStep, BeginSetup, Reuse, Refuse, GoOn, Stage, WriteConfiguration,
       RefuseConfiguration, Configure, ReadSelection, Snapshot, WriteInfo, SetAside, Install, Validate, Raise,
       Unwind, Restore, RestoreFails, Discard, Abort
  <2> QED BY <2>3, <2>4, <2>5 DEF StepOf
<1>5. \A q \in Procs \ {p} : LauncherAt(q)' /\ FileAt(q)'
  BY <1>2 DEF TypeInv, LauncherAt, FileAt, Alone
<1> QED BY <1>1, <1>3, <1>4, <1>5 DEF TypeInv

LEMMA NextTypeInv == TypeInv /\ [Next]_vars => TypeInv'
<1> SUFFICES ASSUME TypeInv, [Next]_vars PROVE TypeInv'
  OBVIOUS
<1>1. ASSUME NEW p \in Procs, StepOf(p) PROVE TypeInv'
  BY <1>1, StepsTypeInv
<1>2. CASE UNCHANGED vars
  BY <1>2 DEF vars, trees, home, local, history, TypeInv, TypeOK, LauncherAt, FileAt
<1> QED BY <1>1, <1>2 DEF Next, StepOf, Done, Procs, Makers

\* Every variable of the model keeps to its type.
THEOREM TypeCorrect == Spec => []TypeOK
<1>1. Init => TypeInv
  BY InitTypeOK DEF Init, TypeInv, LauncherAt, FileAt
<1>2. TypeInv => TypeOK
  BY DEF TypeInv
<1> QED BY <1>1, <1>2, NextTypeInv, PTL DEF Spec

-----------------------------------------------------------------------------
(* Who takes an installation away.                                          *)

LEMMA Displacing ==
  ASSUME TypeOK, NEW p \in Procs, StepOf(p), Occupied(prefix), prefix' # prefix
  PROVE  p \in Setups /\ pc[p] \in {"aside", "unwind"} /\ pc'[p] # pc[p]
<1> USE DEF TypeOK, trees, home, local, history, At, Goto, Fail, Report, Leave, Start, CanReceive
<1>1. CASE p \in Setups /\ SetupStep(p)
  <2>1. SetAside(p) \/ Unwind(p)
    BY <1>1 DEF SetupStep, BeginSetup, Reuse, Refuse, GoOn, Stage, WriteConfiguration,
       RefuseConfiguration, Configure, ReadSelection, Snapshot, WriteInfo, Install, Validate, Raise,
       Restore, RestoreFails, Discard, Abort
  <2> QED BY <1>1, <2>1 DEF SetAside, Unwind
<1>2. CASE ScriptStep(p)
  <2>1. prefix # Empty
    BY ProcsAssumption DEF ProcsAssumption, Occupied
  <2> QED
    BY <1>2, <2>1 DEF ScriptStep, BeginInstaller, Look, RefusePrefix, Rmdir, RmdirFails, Extract,
       KeepFile, RefuseFile, AbsentFile, CopyFile, MoveFile, MoveFileFails, FilesDone, ReadSelection, WriteSnapshot,
       WriteInfo, Move, MoveFails, Signal, SourceGone
<1>3. CASE Kill(p) \/ ConanInit(p) \/ \E r \in Runtimes : Switch(p, r)
  BY <1>3 DEF Kill, ConanInit, Switch, Launch
<1> QED BY <1>1, <1>2, <1>3 DEF StepOf

\* An installation leaves the prefix only in the hands of a setup that sets it
\* aside or rolls back, for any commands and configurations.
THEOREM DisplacedBySetups == Spec => OnlySetupsDisplace
<1> DEFINE A == (Occupied(prefix) /\ prefix' # prefix) =>
                  \E p \in Setups : pc[p] \in {"aside", "unwind"} /\ pc'[p] # pc[p]
<1>1. Init => TypeInv
  BY InitTypeOK DEF Init, TypeInv, LauncherAt, FileAt
<1>2. TypeInv /\ [Next]_vars => [A]_vars
  <2> SUFFICES ASSUME TypeInv, Next PROVE A
    BY DEF vars
  <2>1. ASSUME NEW p \in Procs, StepOf(p) PROVE A
    BY <2>1, Displacing DEF TypeInv
  <2>2. CASE Done
    BY <2>2 DEF Done, vars, trees
  <2> QED BY <2>1, <2>2 DEF Next, StepOf, Procs, Makers
<1> QED BY <1>1, <1>2, NextTypeInv, PTL DEF Spec, OnlySetupsDisplace

-----------------------------------------------------------------------------
(* Conan homes.                                                            *)

\* What a step may do to the Conan homes.
Grows ==
  /\ raced \subseteq raced'
  /\ \A h \in Homes : \A f \in Files :
       conf'[h][f] = conf[h][f] \/ conf[h][f] = Missing \/ <<h, f>> \in raced'

LEMMA KeptStays ==
  ASSUME Grows, NEW p \in Makers, NEW f \in Files, Kept(p, f)
  PROVE  Kept(p, f)'
<1>1. Home[p] \in Homes /\ Config[p][f] # Missing
  BY ConfigAssumption DEF ConfigAssumption, Procs
<1> QED BY <1>1 DEF Grows, Kept

LEMMA StaysConfigured ==
  ASSUME Grows, NEW p \in Makers, Configured(p)
  PROVE  Configured(p)'
<1>1. \A f \in Files : Kept(p, f)
  BY DEF Configured, Conf, Kept
<1>2. \A f \in Files : Kept(p, f)'
  BY <1>1, KeptStays
<1> QED BY <1>2 DEF Configured, Conf, Kept

\* A step goes on to the next file only when this one is there.
FileMoves(p) ==
  \/ file'[p] \in {file[p], 1}
  \/ \E f \in Files : f = file[p] /\ file'[p] = f + 1 /\ (p \in Makers => Kept(p, f)')

\* A command writes where nothing is or what is there, but for a script that
\* moves its copy over what has come since.
WritesFile(p) ==
  \/ conf' = conf
  \/ \E f \in Files :
       /\ f = file[p]
       /\ \A h \in Homes : \A g \in Files : (h # Home[p] \/ g # f) => conf'[h][g] = conf[h][g]
       /\ \/ conf[Home[p]][f] \in {Missing, conf'[Home[p]][f]}
          \/ p \in Installers \cup Launchers /\ pc[p] = "mv" /\ pc'[p] = "test"
       /\ conf'[Home[p]][f] # Missing

LEMMA StepsGrow ==
  ASSUME TypeInv, NEW p \in Procs, Progress(p), StepOf(p)
  PROVE  Grows /\ FileMoves(p) /\ WritesFile(p)
<1> USE DEF home, local, history
<1>t. /\ TypeOK /\ FileAt(p) /\ LauncherAt(p) /\ Home[p] \in Homes
      /\ pc \in [Procs -> Points] /\ file \in [Procs -> 1..(FileCount + 1)]
      /\ Missing \notin Contents \ {Missing}
  BY ConfigAssumption DEF TypeInv, ConfigAssumption, TypeOK
<1>1. CASE p \in Setups /\ WriteConfiguration(p)
  <2>1. p \in Makers /\ file[p] \in Files /\ Config[p][file[p]] \in Contents
    BY <1>1 DEF WriteConfiguration, Contents, Makers
  <2>2. /\ conf' = [conf EXCEPT ![Home[p]][file[p]] = Config[p][file[p]]]
        /\ conf[Home[p]][file[p]] \in {Missing, Config[p][file[p]]}
        /\ raced' = raced
    BY <1>1 DEF WriteConfiguration, Conf
  <2>3. /\ conf'[Home[p]][file[p]] = Config[p][file[p]]
        /\ \A k \in Homes : \A f \in Files : (k # Home[p] \/ f # file[p]) => conf'[k][f] = conf[k][f]
    <3> DEFINE h == Home[p]  g == file[p]  x == Config[p][file[p]]
    <3>1. TypeOK /\ h \in Homes /\ g \in Files /\ x \in Contents
      BY <1>t, <2>1, <2>2
    <3>2. Wrote(h, g, x)
      BY <1>t, <2>1, <2>2 DEF Wrote
    <3> HIDE DEF h, g, x
    <3>3. /\ conf'[h][g] = x
          /\ \A k \in Homes : \A f \in Files : (k # h \/ f # g) => conf'[k][f] = conf[k][f]
      BY <3>1, <3>2, ConfWrite, Zenon
    <3> QED BY <3>3 DEF h, g, x
  <2>4. file'[p] = file[p] + 1
    BY <1>1, <1>t DEF WriteConfiguration
  <2>5. Config[p][file[p]] # Missing
    BY <2>1, ConfigAssumption DEF ConfigAssumption
  <2>6. FileMoves(p)
    <3> SUFFICES ASSUME NEW f \in Files, f = file[p] PROVE Kept(p, f)'
      BY <2>1, <2>4 DEF FileMoves
    <3> QED BY <2>3 DEF Kept
  <2>7. Grows
    BY <2>2, <2>3 DEF Grows
  <2>8. WritesFile(p)
    BY <2>1, <2>2, <2>3, <2>5 DEF WritesFile
  <2> QED BY <2>6, <2>7, <2>8
<1>2. CASE p \in Installers \cup Launchers /\ MoveFile(p)
  <2>1. file[p] \in Files /\ pc[p] = "mv" /\ copy[p] # Missing /\ copy[p] \in Contents
    BY <1>2, <1>t DEF MoveFile, At, FileAt, TypeOK
  <2>2. /\ conf' = [conf EXCEPT ![Home[p]][file[p]] = copy[p]]
        /\ raced' = raced \cup (IF conf[Home[p]][file[p]] \in {Missing, copy[p]} THEN {}
                                ELSE {<<Home[p], file[p]>>})
    BY <1>2 DEF MoveFile, Conf
  <2>4. /\ conf'[Home[p]][file[p]] = copy[p]
        /\ \A k \in Homes : \A f \in Files : (k # Home[p] \/ f # file[p]) => conf'[k][f] = conf[k][f]
    <3> DEFINE h == Home[p]  g == file[p]  x == copy[p]
    <3>1. TypeOK /\ h \in Homes /\ g \in Files /\ x \in Contents
      BY <1>t, <2>1
    <3>2. Wrote(h, g, x)
      BY <2>2 DEF Wrote
    <3> HIDE DEF h, g, x
    <3>3. /\ conf'[h][g] = x
          /\ \A k \in Homes : \A f \in Files : (k # h \/ f # g) => conf'[k][f] = conf[k][f]
      BY <3>1, <3>2, ConfWrite, Zenon
    <3> QED BY <3>3 DEF h, g, x
  <2>5. file'[p] = file[p] + 1 /\ pc'[p] = "test"
    BY <1>2, <1>t DEF MoveFile, Goto
  <2>7. FileMoves(p)
    <3> SUFFICES ASSUME NEW f \in Files, f = file[p], p \in Makers PROVE Kept(p, f)'
      BY <2>1, <2>5 DEF FileMoves
    <3> QED BY <2>1, <2>4 DEF Progress, Kept
  <2>8. Grows
    BY <2>2, <2>4 DEF Grows
  <2>9. WritesFile(p)
    BY <1>2, <2>1, <2>4, <2>5 DEF WritesFile
  <2> QED BY <2>7, <2>8, <2>9
<1>3. CASE p \in Installers \cup Launchers /\ KeepFile(p)
  <2>1. file[p] \in Files /\ conf' = conf /\ raced' = raced /\ file'[p] = file[p] + 1
    BY <1>3, <1>t DEF KeepFile
  <2>2. conf[Home[p]][file[p]] = Config[Source(p)][file[p]] /\ Occupied(Source(p)) /\ pc[p] = "test"
    BY <1>3 DEF KeepFile, Conf, At
  <2>3. p \in Makers => Source(p) = p
    BY <1>3, <2>2, ProcsAssumption
       DEF Source, Occupied, Progress, ProcsAssumption, Makers
  <2>4. FileMoves(p)
    <3> SUFFICES ASSUME NEW f \in Files, f = file[p], p \in Makers PROVE Kept(p, f)'
      BY <2>1 DEF FileMoves
    <3> QED BY <2>1, <2>2, <2>3 DEF Kept
  <2> QED BY <2>1, <2>4 DEF Grows, WritesFile
<1>5. CASE conf' = conf /\ raced' = raced /\ file'[p] \in {file[p], 1}
  BY <1>5 DEF Grows, FileMoves, WritesFile
<1>4. \/ p \in Setups /\ WriteConfiguration(p)
      \/ p \in Installers \cup Launchers /\ MoveFile(p)
      \/ p \in Installers \cup Launchers /\ KeepFile(p)
      \/ conf' = conf /\ raced' = raced /\ file'[p] \in {file[p], 1}
  <2> USE <1>t DEF Fail, Report, Leave
  <2>1. CASE p \in Setups /\ SetupStep(p)
    BY <2>1 DEF SetupStep, Start, BeginSetup, Reuse, Refuse, GoOn, Stage, RefuseConfiguration,
       Configure, ReadSelection, Snapshot, WriteInfo, SetAside, Install, Validate, Raise, Unwind,
       Restore, RestoreFails, Discard, Abort
  <2>2. CASE p \in Installers \cup Launchers /\ ScriptStep(p)
    BY <2>2 DEF ScriptStep, Start, BeginInstaller, Look, RefusePrefix, Rmdir, RmdirFails, Extract,
       RefuseFile, AbsentFile, CopyFile, MoveFileFails, FilesDone, ReadSelection, WriteSnapshot,
       WriteInfo, Move, MoveFails, Signal, SourceGone
  <2>3. CASE Kill(p) \/ ConanInit(p) \/ \E r \in Runtimes : Switch(p, r)
    BY <2>3 DEF Kill, ConanInit, Switch, Launch
  <2> QED BY <2>1, <2>2, <2>3 DEF StepOf
<1> QED BY <1>1, <1>2, <1>3, <1>4, <1>5

\* All files of the Conan home of a maker are there.
LEMMA ReadyIsConfigured ==
  ASSUME NEW p \in Makers, file[p] = FileCount + 1,
         \A f \in Files : f < file[p] => Kept(p, f)
  PROVE  Configured(p)
<1> SUFFICES ASSUME NEW f \in Files PROVE Kept(p, f)
  BY DEF Configured, Conf, Kept
<1>1. f < FileCount + 1
  BY ConfigAssumption DEF ConfigAssumption, Files
<1> QED BY <1>1

LEMMA StepsProgress ==
  ASSUME TypeInv, IInv, NEW p \in Procs, StepOf(p)
  PROVE  Progress(p)'
<1>t. /\ TypeOK /\ LauncherAt(p) /\ FileAt(p) /\ Progress(p) /\ Home[p] \in Homes /\ Grows
      /\ FileMoves(p) /\ FileCount \in Nat /\ Missing \notin Makers
  BY StepsGrow, ConfigAssumption, ProcsAssumption
     DEF TypeInv, IInv, ConfigAssumption, ProcsAssumption
<1>1. p \in Makers => \A f \in Files : f < file'[p] => Kept(p, f)'
  <2> SUFFICES ASSUME p \in Makers, NEW f \in Files, f < file'[p] PROVE Kept(p, f)'
    OBVIOUS
  <2>1. f < file[p] => Kept(p, f)'
    BY <1>t, KeptStays DEF Progress
  <2>2. file[p] \in 1..(FileCount + 1) /\ f \in 1..FileCount
    BY <1>t DEF TypeOK, Files
  <2> QED BY <1>t, <2>1, <2>2 DEF FileMoves
<1> USE DEF trees, home, local, history, At, Goto, Fail, Report, Leave, Start
<1>2. (p \in Makers /\ pc'[p] \in AfterFiles) => file'[p] = FileCount + 1
  <2> SUFFICES ASSUME p \in Makers, pc'[p] \in AfterFiles PROVE file'[p] = FileCount + 1
    OBVIOUS
  <2>0. /\ pc[p] \in AfterFiles => file[p] = FileCount + 1
        /\ file[p] \notin Files => file[p] = FileCount + 1
        /\ pc \in [Procs -> Points] /\ p \notin Launchers
    BY <1>t, ProcsAssumption DEF Progress, TypeOK, Files, ProcsAssumption
  <2> USE DEF AfterFiles
  <2>1. CASE SetupStep(p)
    BY <2>0, <2>1 DEF SetupStep, BeginSetup, Reuse, Refuse, GoOn, Stage, WriteConfiguration,
       RefuseConfiguration, Configure, ReadSelection, Snapshot, WriteInfo, SetAside, Install, Validate, Raise,
       Unwind, Restore, RestoreFails, Discard, Abort
  <2>2. CASE ScriptStep(p)
    BY <2>0, <2>2 DEF ScriptStep, BeginInstaller, Look, RefusePrefix, Rmdir, RmdirFails, Extract,
       KeepFile, RefuseFile, AbsentFile, CopyFile, MoveFile, MoveFileFails, FilesDone, ReadSelection, WriteSnapshot, WriteInfo,
       Move, MoveFails, Signal, SourceGone
  <2>3. CASE Kill(p)
    BY <2>0, <2>3 DEF Kill
  <2> QED BY <2>0, <2>1, <2>2, <2>3 DEF StepOf
<1>3. pc'[p] # "restore" => staging'[p] \in {Missing, p}
  <2>0. /\ pc[p] # "restore" => staging[p] \in {Missing, p}
        /\ pc \in [Procs -> Points] /\ staging \in [Procs -> Trees]
    BY <1>t DEF Progress, TypeOK
  <2>1. CASE SetupStep(p)
    BY <2>0, <2>1 DEF SetupStep, BeginSetup, Reuse, Refuse, GoOn, Stage, WriteConfiguration,
       RefuseConfiguration, Configure, ReadSelection, Snapshot, WriteInfo, SetAside, Install, Validate, Raise,
       Unwind, Restore, RestoreFails, Discard, Abort
  <2>2. CASE ScriptStep(p)
    BY <2>0, <2>2 DEF ScriptStep, BeginInstaller, Look, RefusePrefix, Rmdir, RmdirFails, Extract,
       KeepFile, RefuseFile, AbsentFile, CopyFile, MoveFile, MoveFileFails, FilesDone, ReadSelection, WriteSnapshot, WriteInfo,
       Move, MoveFails, Signal, SourceGone
  <2>3. CASE Kill(p) \/ ConanInit(p) \/ \E r \in Runtimes : Switch(p, r)
    BY <2>0, <2>3 DEF Kill, ConanInit, Switch, Launch
  <2> QED BY <2>1, <2>2, <2>3 DEF StepOf
<1>4. (p \in Makers /\ pc'[p] = "mv") => copy'[p] \in {Missing, Config[p][file'[p]]}
  <2> SUFFICES ASSUME p \in Makers, pc'[p] = "mv" PROVE copy'[p] \in {Missing, Config[p][file'[p]]}
    OBVIOUS
  <2>0. /\ pc \in [Procs -> Points] /\ copy \in [Procs -> Contents \cup {Missing}]
        /\ pc[p] = "mv" => copy[p] \in {Missing, Config[p][file[p]]}
        /\ Source(p) \in Makers => p = Source(p) \/ pc[p] \in {"restore", "mv"} \/ p \in Setups
    BY <1>t, ProcsAssumption DEF TypeOK, Progress, Source, ProcsAssumption, Makers
  <2>1. CASE SetupStep(p)
    BY <2>0, <2>1 DEF SetupStep, BeginSetup, Reuse, Refuse, GoOn, Stage, WriteConfiguration,
       RefuseConfiguration, Configure, ReadSelection, Snapshot, WriteInfo, SetAside, Install, Validate,
       Raise, Unwind, Restore, RestoreFails, Discard, Abort
  <2>2. CASE p \in Installers \cup Launchers /\ ScriptStep(p)
    <3>1. p \in Installers /\ p \notin Setups
      BY <2>2, ProcsAssumption DEF ProcsAssumption, Makers
    <3> QED
      BY <2>0, <2>2, <3>1 DEF ScriptStep, BeginInstaller, Look, RefusePrefix, Rmdir, RmdirFails, Extract,
         KeepFile, RefuseFile, AbsentFile, CopyFile, MoveFile, MoveFileFails, FilesDone, ReadSelection,
         WriteSnapshot, WriteInfo, Move, MoveFails, Signal, SourceGone, Occupied
  <2>3. CASE Kill(p) \/ ConanInit(p) \/ \E r \in Runtimes : Switch(p, r)
    BY <2>0, <2>3 DEF Kill, ConanInit, Switch, Launch
  <2> QED BY <2>1, <2>2, <2>3 DEF StepOf
<1>5. (Occupied(backup[p]) => Configured(backup[p]))'
  <2> SUFFICES ASSUME NEW q \in Makers, backup'[p] = q PROVE Configured(q)'
    BY DEF Occupied, Configured, Conf
  <2>0. backup \in [Procs -> Trees] /\ q # Missing
    BY <1>t DEF TypeOK
  <2>1. backup'[p] \in {backup[p], Missing} \/ backup'[p] = prefix
    <3>1. CASE SetupStep(p)
      BY <2>0, <3>1 DEF SetupStep, BeginSetup, Reuse, Refuse, GoOn, Stage, WriteConfiguration,
         RefuseConfiguration, Configure, ReadSelection, Snapshot, WriteInfo, SetAside, Install, Validate, Raise,
         Unwind, Restore, RestoreFails, Discard, Abort
    <3>2. CASE ScriptStep(p)
      BY <2>0, <3>2 DEF ScriptStep, BeginInstaller, Look, RefusePrefix, Rmdir, RmdirFails, Extract,
         KeepFile, RefuseFile, AbsentFile, CopyFile, MoveFile, MoveFileFails, FilesDone, ReadSelection, WriteSnapshot, WriteInfo,
         Move, MoveFails, Signal, SourceGone
    <3>3. CASE Kill(p) \/ ConanInit(p) \/ \E r \in Runtimes : Switch(p, r)
      BY <2>0, <3>3 DEF Kill, ConanInit, Switch, Launch
    <3> QED BY <3>1, <3>2, <3>3 DEF StepOf
  <2>2. Configured(q)
    BY <1>t, <2>0, <2>1 DEF Progress, IInv, InstalledIsConfigured, Occupied
  <2> QED BY <1>t, <2>2, StaysConfigured
<1> QED BY <1>1, <1>2, <1>3, <1>4, <1>5 DEF Progress

\* What comes to the prefix is the tree of a command that has its files, or one
\* that was there before.
LEMMA StepsInstall ==
  ASSUME TypeInv, IInv, NEW p \in Procs, StepOf(p)
  PROVE  InstalledIsConfigured'
<1> SUFFICES ASSUME NEW q \in Makers, prefix' = q PROVE Configured(q)'
  BY DEF InstalledIsConfigured, Occupied, Configured, Conf
<1>t. /\ TypeOK /\ LauncherAt(p) /\ Progress(p) /\ Grows /\ q # Missing
      /\ pc \in [Procs -> Points]
  BY StepsGrow, ProcsAssumption DEF TypeInv, IInv, ProcsAssumption, TypeOK
<1> USE DEF trees, home, local, history, At, Goto, Fail, Report, Leave, Start
<1>1. \/ q \in {prefix, backup[p]}
      \/ q = staging[p] /\ p \in Makers /\ pc[p] \in {"install", "move"}
  <2>1. CASE p \in Setups /\ SetupStep(p)
    BY <1>t, <2>1 DEF SetupStep, BeginSetup, Reuse, Refuse, GoOn, Stage, WriteConfiguration,
       RefuseConfiguration, Configure, ReadSelection, Snapshot, WriteInfo, SetAside, Install, Validate, Raise,
       Unwind, Restore, RestoreFails, Discard, Abort, Makers
  <2>2. CASE ScriptStep(p)
    BY <1>t, <2>2 DEF ScriptStep, BeginInstaller, Look, RefusePrefix, Rmdir, RmdirFails, Extract,
       KeepFile, RefuseFile, AbsentFile, CopyFile, MoveFile, MoveFileFails, FilesDone, ReadSelection, WriteSnapshot, WriteInfo,
       Move, MoveFails, Signal, SourceGone, LauncherAt, Procs
  <2>3. CASE Kill(p) \/ ConanInit(p) \/ \E r \in Runtimes : Switch(p, r)
    BY <2>3 DEF Kill, ConanInit, Switch, Launch
  <2> QED BY <2>1, <2>2, <2>3 DEF StepOf
<1>2. CASE q \in {prefix, backup[p]}
  BY <1>t, <1>2, StaysConfigured DEF Progress, IInv, InstalledIsConfigured, Occupied
<1>3. CASE q = staging[p] /\ p \in Makers /\ pc[p] \in {"install", "move"}
  <2>1. q = p /\ file[p] = FileCount + 1 /\ \A f \in Files : f < file[p] => Kept(p, f)
    BY <1>t, <1>3 DEF Progress, AfterFiles
  <2> QED BY <1>t, <1>3, <2>1, ReadyIsConfigured, StaysConfigured
<1> QED BY <1>1, <1>2, <1>3

LEMMA InitIInv == Init => IInv
BY ProcsAssumption, ConfigAssumption
   DEF Init, IInv, Progress, InstalledIsConfigured, Occupied, Files, AfterFiles,
       ProcsAssumption, ConfigAssumption

LEMMA NextIInv ==
  ASSUME TypeInv, IInv, [Next]_vars
  PROVE  IInv'
<1>1. ASSUME NEW p \in Procs, StepOf(p) PROVE IInv'
  <2>1. \A q \in Procs \ {p} : Progress(q)'
    <3> SUFFICES ASSUME NEW q \in Procs \ {p} PROVE Progress(q)'
      OBVIOUS
    <3>1. Alone(p) /\ Grows /\ Progress(q) /\ Home[q] \in Homes
      BY <1>1, StepsAlone, StepsGrow, ConfigAssumption DEF TypeInv, IInv, ConfigAssumption
    <3>2. /\ pc'[q] = pc[q] /\ file'[q] = file[q] /\ staging'[q] = staging[q]
          /\ backup'[q] = backup[q] /\ copy'[q] = copy[q]
      BY <3>1 DEF Alone
    <3>3. q \in Makers => \A f \in Files : Kept(q, f) => Kept(q, f)'
      BY <3>1, KeptStays
    <3>5. (Occupied(backup[q]) => Configured(backup[q]))'
      <4> SUFFICES ASSUME NEW x \in Makers, backup[q] = x PROVE Configured(x)'
        BY <3>2 DEF Occupied, Configured, Conf
      <4> QED BY <3>1, StaysConfigured DEF Progress, Occupied
    <3> QED BY <3>1, <3>2, <3>3, <3>5 DEF Progress
  <2> QED BY <1>1, <2>1, StepsProgress, StepsInstall DEF IInv
<1>2. CASE UNCHANGED vars
  BY <1>2 DEF vars, trees, home, local, history, IInv, InstalledIsConfigured, Progress, Kept,
              Configured, Conf
<1> QED BY <1>1, <1>2 DEF Next, StepOf, Done, Procs, Makers

\* Whatever configurations the commands bring, an installation is published only
\* when all its Conan files are there, and those that no script overwrites are
\* there as long as it is installed.
THEOREM InstalledConfigured == Spec => []InstalledIsConfigured
<1>1. Init => TypeInv
  BY InitTypeOK DEF Init, TypeInv, LauncherAt, FileAt
<1>2. IInv => InstalledIsConfigured
  BY DEF IInv
<1>3. TypeInv /\ IInv /\ [Next]_vars => IInv'
  BY NextIInv
<1> QED BY <1>1, <1>2, <1>3, InitIInv, NextTypeInv, PTL DEF Spec

-----------------------------------------------------------------------------
\* What a step does to what a command has found: it is set when one begins, and
\* a script goes to copy a file it has just found absent.
FindsFiles(p) ==
  /\ found'[p] \in {found[p], {}, Present(p)}
  /\ pc'[p] \in {"cp", "mv"} =>
       /\ file'[p] = file[p] /\ conf' = conf /\ found'[p] = found[p]
       /\ pc[p] \in {"cp", "mv"} \/ conf[Home[p]][file[p]] = Missing

LEMMA StepsFind ==
  ASSUME TypeInv, NEW p \in Procs, StepOf(p)
  PROVE  FindsFiles(p)
<1> USE DEF FindsFiles, trees, home, local, history, At, Goto, Fail, Report, Leave, Start
<1>t. /\ pc \in [Procs -> Points] /\ found \in [Procs -> SUBSET Files]
      /\ file \in [Procs -> 1..(FileCount + 1)]
  BY DEF TypeInv, TypeOK
<1>1. CASE p \in Setups /\ SetupStep(p)
  BY <1>t, <1>1 DEF SetupStep, BeginSetup, Reuse, Refuse, GoOn, Stage, WriteConfiguration,
     RefuseConfiguration, Configure, ReadSelection, Snapshot, WriteInfo, SetAside, Install, Validate,
     Raise, Unwind, Restore, RestoreFails, Discard, Abort
<1>2. CASE ScriptStep(p)
  BY <1>t, <1>2 DEF ScriptStep, BeginInstaller, Look, RefusePrefix, Rmdir, RmdirFails, Extract,
     KeepFile, RefuseFile, AbsentFile, CopyFile, MoveFile, MoveFileFails, FilesDone, ReadSelection,
     WriteSnapshot, WriteInfo, Move, MoveFails, Signal, SourceGone, Conf
<1>3. CASE Kill(p) \/ ConanInit(p) \/ \E r \in Runtimes : Switch(p, r)
  BY <1>t, <1>3 DEF Kill, ConanInit, Switch, Launch
<1> QED BY <1>1, <1>2, <1>3 DEF StepOf

\* No file is removed.
LEMMA FilesRemain ==
  ASSUME TypeInv, NEW p \in Procs, Progress(p), StepOf(p), NEW h \in Homes, NEW f \in Files,
         conf[h][f] # Missing
  PROVE  conf'[h][f] # Missing
BY StepsGrow DEF WritesFile

LEMMA NextFoundInv ==
  ASSUME TypeInv, IInv, FoundInv, [Next]_vars
  PROVE  FoundInv'
<1>1. ASSUME NEW p \in Procs, StepOf(p), NEW q \in Procs PROVE FoundAt(q)'
  <2>t. /\ FoundAt(q) /\ Home[q] \in Homes /\ found[q] \subseteq Files /\ FindsFiles(p) /\ Alone(p)
        /\ FileAt(q)
    BY <1>1, StepsFind, StepsAlone, ConfigAssumption DEF FoundInv, TypeInv, TypeOK, ConfigAssumption
  <2>1. \A f \in Files : conf[Home[q]][f] # Missing => conf'[Home[q]][f] # Missing
    BY <1>1, <2>t, FilesRemain DEF IInv
  <2>2. found'[q] \in {found[q], {}, Present(q)}
    BY <2>t DEF FindsFiles, Alone
  <2>3. \A f \in found'[q] : conf'[Home[q]][f] # Missing
    BY <2>t, <2>1, <2>2 DEF FoundAt, Present, Conf
  <2>4. pc'[q] \in {"cp", "mv"} => file'[q] \notin found'[q]
    BY <2>t DEF FoundAt, FindsFiles, Alone
  <2> QED BY <2>3, <2>4 DEF FoundAt
<1>2. CASE UNCHANGED vars
  BY <1>2 DEF vars, home, local, history, FoundInv, FoundAt
<1> QED BY <1>1, <1>2 DEF FoundInv, Next, StepOf, Done, Procs, Makers

LEMMA Overwriting ==
  ASSUME TypeInv, IInv, FoundInv, NEW p \in Procs, StepOf(p), NEW h \in Homes, NEW f \in Files,
         conf[h][f] # Missing, conf'[h][f] # conf[h][f]
  PROVE  /\ p \in Installers \cup Launchers
         /\ pc[p] # "idle" /\ Home[p] = h /\ f \notin found[p] /\ pc'[p] # pc[p]
<1>1. WritesFile(p) /\ FoundAt(p)
  BY StepsGrow DEF IInv, FoundInv
<1>2. /\ Home[p] = h /\ f = file[p] /\ pc[p] = "mv" /\ pc'[p] = "test"
      /\ p \in Installers \cup Launchers
  BY <1>1 DEF WritesFile
<1> QED BY <1>1, <1>2 DEF FoundAt

\* Whatever configurations the commands bring, none changes a Conan file that was
\* there when it began, and no setup changes one at all.
THEOREM FilesAreKept == Spec => ConanFilesStay
<1> DEFINE A == \A h \in Homes : \A f \in Files :
                  (conf[h][f] # Missing /\ conf'[h][f] # conf[h][f]) =>
                    \E p \in Installers \cup Launchers :
                      pc[p] # "idle" /\ Home[p] = h /\ f \notin found[p] /\ pc'[p] # pc[p]
<1>1. Init => TypeInv
  BY InitTypeOK DEF Init, TypeInv, LauncherAt, FileAt
<1>2. Init => FoundInv
  BY DEF Init, FoundInv, FoundAt
<1>3. TypeInv /\ IInv /\ FoundInv /\ [Next]_vars => [A]_vars
  <2> SUFFICES ASSUME TypeInv, IInv, FoundInv, Next PROVE A
    BY DEF vars
  <2>1. ASSUME NEW p \in Procs, StepOf(p) PROVE A
    BY <2>1, Overwriting
  <2>2. CASE Done
    BY <2>2 DEF Done, vars, home
  <2> QED BY <2>1, <2>2 DEF Next, StepOf, Procs, Makers
<1>4. TypeInv /\ IInv /\ [Next]_vars => IInv'
  BY NextIInv
<1>5. TypeInv /\ IInv /\ FoundInv /\ [Next]_vars => FoundInv'
  BY NextFoundInv
<1> QED BY <1>1, <1>2, <1>3, <1>4, <1>5, InitIInv, NextTypeInv, PTL DEF Spec, ConanFilesStay

-----------------------------------------------------------------------------
(* What was reported stays, for setups of one work directory, which its state *)
(* lease keeps apart.  While one of them publishes, the installation that was   *)
(* reported is at the prefix or in its backup (HeldInv), and what is at the      *)
(* prefix is its own tree until it is validated (Tentative).                    *)

OneWorkDirectory == \A p, q \in Setups : WorkDir[p] = WorkDir[q]

\* Tree t is an installation of a selection that one of the processes r reported.
Vouched(r, t) == t \in Makers /\ \E q \in r : Selection[q] = Selection[t]

Publishing(p) == pc[p] \in {"install", "validate", "unwind", "restore", "discard"}

\* What is at the prefix may still be rolled back.
Tentative(p) == pc[p] \in {"validate", "discard"} \/ (pc[p] = "unwind" /\ staging[p] = Missing)

PublisherAt(p) ==
  /\ ~Publishing(p) => backup[p] = Missing
  /\ pc[p] \in {"link", "read", "info", "aside", "install"} => staging[p] = p
  /\ Tentative(p) => (staging[p] = Missing /\ prefix = p)
  /\ (Publishing(p) /\ ~Tentative(p) /\ backup[p] # Missing /\ Occupied(prefix)) =>
       Vouched(reported, prefix)

HeldInv ==
  /\ \A p, q \in Setups : (pc[p] # "idle" /\ pc[q] # "idle") => p = q
  /\ \A p \in Setups : PublisherAt(p)
  /\ \A p \in Installers : staging[p] \in {Missing, p}
  /\ (~disturbed /\ reported # {}) =>
       \/ Vouched(reported, prefix) /\ \A p \in Setups : ~Tentative(p)
       \/ \E p \in Setups : Vouched(reported, backup[p])

LEMMA InitHeld == Init => HeldInv
BY DEF Init, HeldInv, PublisherAt, Publishing, Tentative, Procs, Makers

LEMMA Vouching ==
  ASSUME NEW r, NEW s, r \subseteq s, NEW t, Vouched(r, t)
  PROVE  Vouched(s, t)
BY DEF Vouched

\* What the invariant says while setup p is at work.
AtWork(p) ==
  /\ PublisherAt(p)
  /\ (~disturbed /\ reported # {}) =>
       (Vouched(reported, prefix) /\ ~Tentative(p)) \/ Vouched(reported, backup[p])
  /\ \A q \in Setups \ {p} : pc[q] = "idle" /\ backup[q] = Missing

LEMMA WorkingAlone ==
  ASSUME HeldInv, NEW p \in Setups, pc[p] # "idle"
  PROVE  AtWork(p)
<1>1. \A q \in Setups \ {p} : pc[q] = "idle" /\ backup[q] = Missing
  BY DEF HeldInv, PublisherAt, Publishing
<1>2. \A q \in Setups \ {p} : ~Vouched(reported, backup[q])
  BY <1>1, ProcsAssumption DEF Vouched, ProcsAssumption
<1> QED BY <1>1, <1>2 DEF HeldInv, AtWork

LEMMA InstallersApart == Setups \cap Installers = {}
BY ProcsAssumption DEF ProcsAssumption

LEMMA WorkedAlone ==
  ASSUME HeldInv, NEW p \in Setups, AtWork(p), Alone(p), PublisherAt(p)',
         (~disturbed' /\ reported' # {}) =>
           (Vouched(reported', prefix') /\ ~Tentative(p)') \/ Vouched(reported', backup'[p])
  PROVE  HeldInv'
<1>1. \A q \in Setups \ {p} : pc'[q] = "idle" /\ backup'[q] = Missing
  BY DEF AtWork, Alone, Procs, Makers
<1>2. \A q \in Setups : PublisherAt(q)' /\ (q # p => ~Tentative(q)')
  BY <1>1 DEF PublisherAt, Publishing, Tentative
<1>3. \A q \in Installers : staging'[q] \in {Missing, q}
  BY InstallersApart DEF HeldInv, Alone, Procs, Makers
<1> QED BY <1>1, <1>2, <1>3 DEF HeldInv

-----------------------------------------------------------------------------
\* Steps of a setup that is not publishing, which neither touch the prefix and
\* the backups nor report anything.
LEMMA HeldAside ==
  ASSUME HeldInv, NEW p \in Setups, Alone(p),
         UNCHANGED <<prefix, backup, reported, disturbed>>,
         ~Publishing(p), ~Publishing(p)',
         pc'[p] \in {"link", "read", "info", "aside"} => staging'[p] = p,
         \A q \in Setups \ {p} : pc[q] = "idle"
  PROVE  HeldInv'
<1>1. \A q \in Setups \ {p} : pc'[q] = "idle" /\ pc[q] = "idle"
  BY DEF Alone, Procs, Makers
<1>2. \A q \in Setups : ~Tentative(q) /\ ~Tentative(q)'
  BY <1>1 DEF Publishing, Tentative
<1>3. \A q \in Setups : PublisherAt(q)'
  BY <1>1 DEF HeldInv, PublisherAt, Publishing, Tentative
<1>4. \A q \in Installers : staging'[q] \in {Missing, q}
  BY InstallersApart DEF HeldInv, Alone, Procs, Makers
<1> QED BY <1>1, <1>2, <1>3, <1>4 DEF HeldInv

LEMMA HeldSetup ==
  ASSUME OneWorkDirectory, TypeInv, HeldInv, NEW p \in Setups, SetupStep(p)
  PROVE  HeldInv'
<1>t. /\ TypeOK /\ p \in Procs /\ p \in Makers /\ pc \in [Procs -> Points]
      /\ staging \in [Procs -> Trees] /\ backup \in [Procs -> Trees]
  BY DEF TypeInv, TypeOK, Procs, Makers
<1>a. Alone(p)
  BY <1>t, StepsAlone DEF StepOf
<1>m. Missing \notin Makers /\ Empty \notin Makers
  BY ProcsAssumption DEF ProcsAssumption
<1> USE DEF trees, home, local, history, At, Goto, Fail, Report, Leave
<1>1. CASE BeginSetup(p)
  <2>1. \A q \in Setups \ {p} : pc[q] = "idle"
    BY <1>1 DEF BeginSetup, Leased, OneWorkDirectory
  <2>2. /\ UNCHANGED <<prefix, backup, reported, disturbed>>
        /\ pc[p] = "idle" /\ pc'[p] = "check"
    BY <1>1, <1>t DEF BeginSetup, Start
  <2> QED BY <1>t, <1>a, <2>1, <2>2, HeldAside DEF Publishing
<1>2. CASE \/ Refuse(p) \/ GoOn(p) \/ Stage(p) \/ WriteConfiguration(p) \/ RefuseConfiguration(p)
           \/ Configure(p) \/ ReadSelection(p, "read", "info") \/ Snapshot(p)
           \/ Abort(p)
  <2>1. UNCHANGED <<prefix, backup, reported, disturbed>> /\ pc[p] # "idle"
    BY <1>2 DEF Refuse, GoOn, Stage, WriteConfiguration, RefuseConfiguration, Configure,
                ReadSelection, Snapshot, WriteInfo, Abort
  <2>2. PublisherAt(p) /\ \A q \in Setups \ {p} : pc[q] = "idle"
    BY <2>1, WorkingAlone DEF AtWork
  <2>3. ~Publishing(p) /\ ~Publishing(p)'
    BY <1>2, <1>t DEF Publishing, Refuse, GoOn, Stage, WriteConfiguration, RefuseConfiguration,
                Configure, ReadSelection, Snapshot, WriteInfo, Abort
  <2>4. pc'[p] \in {"link", "read", "info", "aside"} => staging'[p] = p
    BY <1>2, <1>t, <2>2 DEF PublisherAt, Refuse, GoOn, Stage, WriteConfiguration, RefuseConfiguration,
                Configure, ReadSelection, Snapshot, WriteInfo, Abort
  <2> QED BY <1>a, <2>1, <2>2, <2>3, <2>4, HeldAside
<1>3. CASE \/ Reuse(p) \/ SetAside(p) \/ Install(p) \/ Validate(p) \/ Raise(p) \/ Unwind(p)
           \/ Restore(p) \/ RestoreFails(p) \/ Discard(p)
  <2>1. pc[p] # "idle"
    BY <1>3 DEF Reuse, SetAside, Install, Validate, Raise, Unwind, Restore, RestoreFails, Discard
  <2>2. AtWork(p) /\ PublisherAt(p)
    BY <2>1, WorkingAlone DEF AtWork
  <2>3. /\ PublisherAt(p)'
        /\ (~disturbed' /\ reported' # {}) =>
             (Vouched(reported', prefix') /\ ~Tentative(p)') \/ Vouched(reported', backup'[p])
    <3> USE <1>t, <1>m, <2>2 DEF AtWork, PublisherAt, Publishing, Tentative, Vouched, Occupied, CanReceive
    <3>1. CASE Reuse(p)
      BY <3>1 DEF Reuse, Matching
    <3>2. CASE SetAside(p)
      BY <3>2 DEF SetAside
    <3>3. CASE Install(p)
      BY <3>3 DEF Install
    <3>4. CASE Validate(p)
      BY <3>4 DEF Validate
    <3>5. CASE Raise(p)
      BY <3>5 DEF Raise
    <3>6. CASE Unwind(p)
      BY <3>6 DEF Unwind
    <3>7. CASE Restore(p)
      BY <3>7 DEF Restore
    <3>8. CASE RestoreFails(p)
      BY <3>8 DEF RestoreFails
    <3>9. CASE Discard(p)
      BY <3>9 DEF Discard
    <3> QED BY <1>3, <3>1, <3>2, <3>3, <3>4, <3>5, <3>6, <3>7, <3>8, <3>9
  <2> QED BY <1>a, <2>2, <2>3, WorkedAlone
<1> QED BY <1>1, <1>2, <1>3 DEF SetupStep

\* An installer publishes over nothing and reports at once.
LEMMA HeldScript ==
  ASSUME TypeInv, HeldInv, NEW p \in Procs \ Setups,
         \/ ScriptStep(p) /\ p \in Installers \cup Launchers
         \/ p \in Launchers /\ (ConanInit(p) \/ \E r \in Runtimes : Switch(p, r))
  PROVE  HeldInv'
<1>t. /\ TypeOK /\ LauncherAt(p) /\ pc \in [Procs -> Points]
      /\ staging \in [Procs -> Trees] /\ backup \in [Procs -> Trees]
  BY DEF TypeInv, TypeOK
<1>m. Missing \notin Makers /\ Empty \notin Makers /\ p \notin Setups
  BY ProcsAssumption DEF ProcsAssumption
<1>a. Alone(p)
  BY <1>t, StepsAlone DEF StepOf
<1>s. p \in Installers => staging[p] \in {Missing, p}
  BY DEF HeldInv
<1> USE DEF trees, home, local, history, At, Goto, Fail, Report, Leave, Start
<1>1. CASE Rmdir(p)
  <2>1. prefix = Empty /\ prefix' = Missing /\ UNCHANGED <<staging, backup, reported, disturbed>>
    BY <1>1 DEF Rmdir
  <2>2. \A q \in Setups : pc'[q] = pc[q]
    BY <1>a, <1>m DEF Alone, Procs, Makers
  <2>3. \A q \in Setups : PublisherAt(q) /\ ~Tentative(q)
    BY <2>1, <1>m DEF HeldInv, PublisherAt, Makers
  <2>4. \A q \in Setups : PublisherAt(q)' /\ ~Tentative(q)'
    BY <2>1, <2>2, <2>3, <1>m DEF PublisherAt, Publishing, Tentative, Occupied
  <2> QED BY <2>1, <2>2, <2>4, <1>m DEF HeldInv, Vouched
<1>2. CASE Move(p)
  <2>0. p \in Installers
    BY <1>2, <1>t DEF Move, LauncherAt, ScriptStep
  <2>1. /\ prefix \notin Makers /\ prefix' = p /\ staging'[p] = Missing /\ p \in Makers
        /\ UNCHANGED <<backup, disturbed>> /\ reported' = reported \cup {p}
    BY <1>2, <1>t, <1>m, <1>s, <2>0 DEF Move, Occupied, CanReceive, Source, Makers
  <2>2. \A q \in Setups : pc'[q] = pc[q] /\ staging'[q] = staging[q]
    BY <1>a, <1>m DEF Alone, Procs, Makers
  <2>3. \A q \in Setups : PublisherAt(q) /\ ~Tentative(q)
    BY <2>1 DEF HeldInv, PublisherAt, Makers
  <2>4. Vouched(reported', prefix')
    BY <2>1 DEF Vouched
  <2>5. \A q \in Setups : PublisherAt(q)' /\ ~Tentative(q)'
    BY <2>1, <2>2, <2>3, <2>4 DEF PublisherAt, Publishing, Tentative
  <2>6. \A q \in Installers : staging'[q] \in {Missing, q}
    BY <2>1, <1>a DEF HeldInv, Alone, Procs, Makers
  <2> QED BY <2>2, <2>4, <2>5, <2>6 DEF HeldInv
<1>3. CASE ~Rmdir(p) /\ ~Move(p)
  <2>1. UNCHANGED <<prefix, reported, disturbed>>
    BY <1>3 DEF ScriptStep, BeginInstaller, Look, RefusePrefix, RmdirFails, Extract, KeepFile,
       RefuseFile, AbsentFile, CopyFile, MoveFile, MoveFileFails, FilesDone, ReadSelection, WriteSnapshot, WriteInfo,
       MoveFails, Signal, SourceGone, ConanInit, Switch, Launch
  <2>2. staging'[p] \in {staging[p], Missing, p}
    BY <1>3, <1>t DEF ScriptStep, BeginInstaller, Look, RefusePrefix, RmdirFails, Extract, KeepFile,
       RefuseFile, AbsentFile, CopyFile, MoveFile, MoveFileFails, FilesDone, ReadSelection, WriteSnapshot, WriteInfo,
       MoveFails, Signal, SourceGone, ConanInit, Switch, Launch
  <2>3. \A q \in Setups : pc'[q] = pc[q] /\ staging'[q] = staging[q] /\ backup'[q] = backup[q]
    BY <1>a, <1>m DEF Alone, Procs, Makers
  <2>4. \A q \in Setups : PublisherAt(q)' /\ (Tentative(q)' <=> Tentative(q))
    BY <2>1, <2>3 DEF HeldInv, PublisherAt, Publishing, Tentative
  <2>5. \A q \in Installers : staging'[q] \in {Missing, q}
    BY <2>2, <1>s, <1>a DEF HeldInv, Alone, Procs, Makers
  <2> QED BY <2>1, <2>3, <2>4, <2>5 DEF HeldInv
<1> QED BY <1>1, <1>2, <1>3

\* A kill that leaves a backup behind is recorded; without a backup what was
\* reported is at the prefix, and is not to be rolled back.
LEMMA HeldKill ==
  ASSUME TypeInv, HeldInv, NEW p \in Procs, Kill(p)
  PROVE  HeldInv'
<1>t. /\ pc \in [Procs -> Points] /\ staging \in [Procs -> Trees] /\ backup \in [Procs -> Trees]
      /\ Missing \notin Makers
  BY ProcsAssumption DEF TypeInv, TypeOK, ProcsAssumption
<1>1. /\ pc' = [pc EXCEPT ![p] = "idle"] /\ staging' = [staging EXCEPT ![p] = Missing]
      /\ backup' = [backup EXCEPT ![p] = Missing]
      /\ UNCHANGED <<prefix, reported>>
      /\ ~disturbed' => (~disturbed /\ backup[p] = Missing)
  BY DEF Kill, Leave, Goto
<1>2. /\ pc'[p] = "idle" /\ staging'[p] = Missing /\ backup'[p] = Missing
      /\ \A q \in Procs \ {p} : pc'[q] = pc[q] /\ staging'[q] = staging[q] /\ backup'[q] = backup[q]
  BY <1>1, <1>t
<1>3. \A q \in Setups : PublisherAt(q)' /\ (Tentative(q)' => Tentative(q))
  <2> SUFFICES ASSUME NEW q \in Setups PROVE PublisherAt(q)' /\ (Tentative(q)' => Tentative(q))
    OBVIOUS
  <2>1. CASE q = p
    BY <2>1, <1>2 DEF PublisherAt, Publishing, Tentative
  <2>2. CASE q # p
    <3>1. PublisherAt(q)
      BY DEF HeldInv
    <3> QED BY <2>2, <3>1, <1>1, <1>2 DEF PublisherAt, Publishing, Tentative, Procs, Makers
  <2> QED BY <2>1, <2>2
<1>4. \A q \in Installers : staging'[q] \in {Missing, q}
  BY <1>2 DEF HeldInv, Procs, Makers
<1>5. \A q, r \in Setups : (pc'[q] # "idle" /\ pc'[r] # "idle") => q = r
  BY <1>2 DEF HeldInv, Procs, Makers
<1>6. (~disturbed' /\ reported' # {}) =>
        \/ Vouched(reported', prefix') /\ \A q \in Setups : ~Tentative(q)'
        \/ \E q \in Setups : Vouched(reported', backup'[q])
  <2> SUFFICES ASSUME ~disturbed', reported' # {}
               PROVE  \/ Vouched(reported', prefix') /\ \A q \in Setups : ~Tentative(q)'
                      \/ \E q \in Setups : Vouched(reported', backup'[q])
    OBVIOUS
  <2>1. CASE Vouched(reported, prefix) /\ \A q \in Setups : ~Tentative(q)
    BY <1>1, <1>3, <2>1
  <2>2. ASSUME NEW q \in Setups, Vouched(reported, backup[q]) PROVE Vouched(reported', backup'[q])
    <3>1. q # p
      BY <1>1, <1>t, <2>2 DEF Vouched
    <3> QED BY <3>1, <1>1, <1>2, <2>2 DEF Procs, Makers
  <2> QED BY <1>1, <2>1, <2>2 DEF HeldInv
<1> QED BY <1>3, <1>4, <1>5, <1>6 DEF HeldInv

LEMMA NextHeld ==
  ASSUME OneWorkDirectory, TypeInv, HeldInv, [Next]_vars
  PROVE  HeldInv'
<1>1. ASSUME NEW p \in Setups, SetupStep(p) PROVE HeldInv'
  BY <1>1, HeldSetup
<1>2. ASSUME NEW p \in Installers \cup Launchers, ScriptStep(p) PROVE HeldInv'
  <2>1. p \in Procs \ Setups
    BY ProcsAssumption DEF ProcsAssumption, Procs, Makers
  <2> QED BY <1>2, <2>1, HeldScript
<1>3. ASSUME NEW p \in Launchers, ConanInit(p) \/ \E r \in Runtimes : Switch(p, r) PROVE HeldInv'
  <2>1. p \in Procs \ Setups
    BY ProcsAssumption DEF ProcsAssumption, Procs, Makers
  <2> QED BY <1>3, <2>1, HeldScript
<1>4. ASSUME NEW p \in Procs, Kill(p) PROVE HeldInv'
  BY <1>4, HeldKill
<1>5. CASE UNCHANGED vars
  BY <1>5 DEF vars, trees, history, HeldInv, PublisherAt, Publishing, Tentative
<1> QED BY <1>1, <1>2, <1>3, <1>4, <1>5 DEF Next, Done

\* Setups of one work directory and any installers and launchers: once an
\* installation was reported, one of a reported selection is at the prefix
\* whenever nobody is at work, unless a kill left its backup behind.
THEOREM ReportedInstallations ==
  ASSUME OneWorkDirectory
  PROVE  Spec => []ReportedStays
<1>1. Init => TypeInv
  BY InitTypeOK DEF Init, TypeInv, LauncherAt, FileAt
<1>2. HeldInv => ReportedStays
  <2> SUFFICES ASSUME HeldInv, Quiet, ~disturbed, reported # {}
               PROVE  Occupied(prefix) /\ \E q \in reported : Selection[q] = Selection[prefix]
    BY DEF ReportedStays
  <2>1. \A p \in Setups : backup[p] = Missing
    BY DEF HeldInv, PublisherAt, Publishing, Quiet, At, Procs, Makers
  <2>2. Vouched(reported, prefix)
    BY <2>1, ProcsAssumption DEF HeldInv, Vouched, ProcsAssumption
  <2> QED BY <2>2 DEF Vouched, Occupied
<1>3. TypeInv /\ HeldInv /\ [Next]_vars => HeldInv'
  BY NextHeld
<1> QED BY <1>1, <1>2, <1>3, InitHeld, NextTypeInv, PTL DEF Spec

=============================================================================
