----------------------------- MODULE SetupState -----------------------------
(* One setup work directory: its ownership markers, setup.json, the lock     *)
(* file, the binding, the verification directory and state/prepared.json,     *)
(* as `setup` (setup.setup_toolchain) and `bundle create`                    *)
(* (setup.create_prepared_bundle) read and write them.  The work on the      *)
(* producer store is one step here; SdkWorkspace, ManagedAssembly and         *)
(* ProducerLeases have its detail.                                          *)
EXTENDS Integers, Sequences

CONSTANTS
  Setups, Bundles,        \* processes
  Forced,                 \* the setups run with --force
  Requests,               \* per process: what it may be run as, records of the
                          \* selection it asks for and of what its release makes of
                          \* it: resolved lock, producer identities, smoke project
  MaxRuns,                \* how often a process runs that is not forced (bound)
  MaxTroubles             \* stops, errors and lost producer inputs (bound)

Procs == Setups \cup Bundles
None == "none"
Torn == "torn"
Dirs == <<"root", "state", "store">>

ASSUME ProcsAssumption == Setups \cap Bundles = {} /\ Forced \subseteq Setups
ASSUME RequestsAssumption ==
  \A p \in Procs :
    /\ Requests[p] # {}
    /\ \A r \in Requests[p] :
         {r.selection, r.lock, r.inputs, r.project} \cap {None} = {} /\ r.project # Torn
\* A setup with --force is one command, run again and again.
ASSUME ForcedAssumption == \A p \in Forced : \E r \in Requests[p] : Requests[p] = {r}
ASSUME BoundsAssumption == MaxRuns \in Nat /\ MaxTroubles \in Nat

VARIABLES
  owner,     \* per directory: no marker, a torn one, a good one
  config,    \* setup.json
  lockfile,  \* state/managed.lock.json
  binding,   \* state/binding: None, or whether it has passed verification
  marker,    \* of the verification directory: None, Torn or a project
  result,    \* its result.json: None, of this binding, or of an earlier one
  record,    \* state/prepared.json
  valid,     \* the producer identities whose artifacts are valid in the store
  pc, dir, request,   \* per process: point, directory it prepares, how it is run
  loaded,    \* per bundle: the record it has read
  delivered, \* what installations and bundles were made of (history)
  runs, troubles

owned == <<owner, config>>
work == <<lockfile, binding, marker, result, record>>
vars == <<owned, work, valid, pc, dir, request, loaded, delivered, runs, troubles>>

Asked == UNION {Requests[p] : p \in Setups}
Identities == {r.inputs : r \in UNION {Requests[p] : p \in Procs}}
Selection(p) == request[p].selection
Lock(p) == request[p].lock
Inputs(p) == request[p].inputs
Project(p) == request[p].project
NoRecord == [inputs |-> None, qualified |-> FALSE]
Records == [inputs : Identities \cup {None}, qualified : BOOLEAN]

\* Points at which a setup holds the state lease, and those at which it holds
\* leases on the producer artifacts as well.
ProducerLeased == {"unbind", "bind", "smoke", "marker", "test", "qualify", "publish"}
Leased == {"config", "withdraw", "reuse", "build", "lock", "assemble", "leases", "install"}
            \cup ProducerLeased
Points == {"idle", "check", "claim", "write", "lease", "relock", "copy"} \cup Leased

TypeOK ==
  /\ owner \in [{"root", "state", "store"} -> {None, Torn, "good"}]
  /\ config \in {r.selection : r \in Asked} \cup {None}
  /\ lockfile \in {r.lock : r \in Asked} \cup {None}
  /\ binding \in {None, "untested", "tested"}
  /\ marker \in {r.project : r \in Asked} \cup {None, Torn}
  /\ result \in {None, "current", "stale"}
  /\ record \in Records
  /\ valid \subseteq Identities
  /\ pc \in [Procs -> Points]
  /\ dir \in [Procs -> 1..3]
  /\ request \in [Procs -> UNION {Requests[p] : p \in Procs}]
  /\ \A p \in Procs : request[p] \in Requests[p]
  /\ loaded \in [Bundles -> Records]
  /\ delivered \subseteq {"tested", "untested"}
  /\ runs \in [Procs -> 0..MaxRuns]
  /\ troubles \in 0..MaxTroubles

Init ==
  /\ owner = [d \in {"root", "state", "store"} |-> None]
  /\ config = None
  /\ lockfile = None
  /\ binding = None
  /\ marker = None
  /\ result = None
  /\ record = NoRecord
  /\ valid = {}
  /\ pc = [p \in Procs |-> "idle"]
  /\ dir = [p \in Procs |-> 1]
  /\ request = [p \in Procs |-> CHOOSE r \in Requests[p] : TRUE]
  /\ loaded = [b \in Bundles |-> NoRecord]
  /\ delivered = {}
  /\ runs = [p \in Procs |-> 0]
  /\ troubles = 0

-----------------------------------------------------------------------------
At(p, point) == pc[p] = point
Goto(p, point) == pc' = [pc EXCEPT ![p] = point]
UnchangedBut(p, point) ==
  Goto(p, point) /\ UNCHANGED <<dir, request, loaded, delivered, runs, troubles>>

\* The command gives up with an error and lets its leases go.
Refuse(p) == UnchangedBut(p, "idle") /\ UNCHANGED <<owned, work, valid>>

HoldsState(p) == pc[p] \in Leased \/ (pc[p] \in {"check", "claim", "write"} /\ dir[p] = 3)
SetupAtWork == \E p \in Setups : HoldsState(p)
BundleAtWork == \E b \in Bundles : At(b, "copy")
ProducersLeased == BundleAtWork \/ \E p \in Setups : pc[p] \in ProducerLeased

Begin(p) ==
  /\ At(p, "idle")
  /\ IF p \in Forced
       THEN UNCHANGED runs
       ELSE runs[p] < MaxRuns /\ runs' = [runs EXCEPT ![p] = @ + 1]
  /\ Goto(p, IF p \in Setups THEN "check" ELSE "lease")
  /\ dir' = [dir EXCEPT ![p] = 1]
  /\ \E r \in Requests[p] : request' = [request EXCEPT ![p] = r]
  /\ UNCHANGED <<owned, work, valid, loaded, delivered, troubles>>

-----------------------------------------------------------------------------
(* _prepare_setup_root, _prepare_state_directory, ProducerStore.prepare.   *)

Dir(p) == Dirs[dir[p]]

\* The store is prepared under the state lease, the others before it.
AfterDir(p) ==
  CASE dir[p] = 1 -> "check" [] dir[p] = 2 -> "lease" [] dir[p] = 3 -> "reuse"

Prepared(p) ==
  /\ Goto(p, AfterDir(p))
  /\ dir' = [dir EXCEPT ![p] = IF @ = 3 THEN 3 ELSE @ + 1]
  /\ UNCHANGED <<config, work, valid, request, loaded, delivered, runs, troubles>>

Own(p) ==
  /\ At(p, "check") /\ owner[Dir(p)] = "good"
  /\ Prepared(p)
  /\ UNCHANGED owner

\* A directory with anything in it but a good marker is not touched.
RefuseUnowned(p) == At(p, "check") /\ owner[Dir(p)] = Torn /\ Refuse(p)

\* An absent or empty directory is claimed: the marker is created ...
FindEmpty(p) ==
  /\ At(p, "check") /\ owner[Dir(p)] = None
  /\ UnchangedBut(p, "claim")
  /\ UNCHANGED <<owned, work, valid>>

Claim(p) ==
  /\ At(p, "claim")
  /\ owner' = [owner EXCEPT ![Dir(p)] = Torn]
  /\ UnchangedBut(p, "write")
  /\ UNCHANGED <<config, work, valid>>

\* ... and then written.
WriteMarker(p) ==
  /\ At(p, "write")
  /\ owner' = [owner EXCEPT ![Dir(p)] = "good"]
  /\ Prepared(p)

-----------------------------------------------------------------------------
(* The state lease, setup.json, and what prepared.json says.               *)

Acquire(p) ==
  /\ p \in Setups /\ At(p, "lease") /\ ~SetupAtWork /\ ~BundleAtWork
  /\ UnchangedBut(p, IF owner["state"] = "good" THEN "config" ELSE "idle")
  /\ UNCHANGED <<owned, work, valid>>

\* _write_setup_selection.
WriteSelection(p) ==
  /\ At(p, "config") /\ config \in {None, Selection(p)}
  /\ config' = Selection(p)
  /\ UnchangedBut(p, "withdraw")
  /\ UNCHANGED <<owner, work, valid>>

RefuseSelection(p) == At(p, "config") /\ config \notin {None, Selection(p)} /\ Refuse(p)

\* Mutant: --force keeps the qualification until it has a new one.
MutWithdraw(p) ==
  /\ At(p, "withdraw")
  /\ Goto(p, "check")
  /\ UNCHANGED <<owned, work, valid, dir, request, loaded, delivered, runs, troubles>>

\* --force takes the qualification back before anything is rebuilt.
Withdraw(p) ==
  /\ At(p, "withdraw")
  /\ record' = IF p \in Forced THEN [record EXCEPT !.qualified = FALSE] ELSE record
  /\ UnchangedBut(p, "check")
  /\ UNCHANGED <<owned, lockfile, binding, marker, result, valid>>

\* _prepared_producer_inputs: the lock first, then the producer identities.
LockMatches(p) == lockfile = Lock(p)
InputsMatch(p) == record.inputs = Inputs(p)
\* _validate_prepared_directories, _validate_prepared_smoke.
StateIsWhole == binding # None /\ (record.qualified => result # None)
Leasable(p) == LockMatches(p) /\ InputsMatch(p) /\ StateIsWhole /\ Inputs(p) \in valid

\* _reuse_prepared_setup has no say with --force or without a record.
Rebuild(p) ==
  /\ At(p, "reuse") /\ (p \in Forced \/ record = NoRecord)
  /\ UnchangedBut(p, "build")
  /\ UNCHANGED <<owned, work, valid>>

\* A qualified state is used as it is, an unqualified one is completed,
Reuse(p) ==
  /\ At(p, "reuse") /\ p \notin Forced /\ record # NoRecord
  /\ LockMatches(p) /\ InputsMatch(p) /\ StateIsWhole
  /\ record.qualified => Inputs(p) \in valid
  /\ UnchangedBut(p, IF record.qualified THEN "install" ELSE "build")
  /\ UNCHANGED <<owned, work, valid>>

\* _PreparedProducerInputsChanged: the qualification is withdrawn,
Refresh(p) ==
  /\ At(p, "reuse") /\ p \notin Forced /\ record # NoRecord
  /\ LockMatches(p) /\ ~InputsMatch(p)
  /\ record' = [record EXCEPT !.qualified = FALSE]
  /\ UnchangedBut(p, "build")
  /\ UNCHANGED <<owned, lockfile, binding, marker, result, valid>>

\* anything else: "rerun setup with --force".
RefuseState(p) ==
  /\ At(p, "reuse") /\ p \notin Forced /\ record # NoRecord
  /\ \/ ~LockMatches(p)
     \/ InputsMatch(p) /\ ~StateIsWhole
     \/ InputsMatch(p) /\ record.qualified /\ Inputs(p) \notin valid
  /\ Refuse(p)

-----------------------------------------------------------------------------
(* The full run: producers, lock, binding, verification, record.           *)

Build(p) ==
  /\ At(p, "build")
  /\ valid' = valid \cup {Inputs(p)}
  /\ UnchangedBut(p, "lock")
  /\ UNCHANGED <<owned, work>>

\* Mutant: write_lockfile without force.
MutWriteLock(p) ==
  /\ At(p, "lock") /\ lockfile \in {None, Lock(p)}
  /\ lockfile' = Lock(p)
  /\ UnchangedBut(p, "assemble")
  /\ UNCHANGED <<owned, binding, marker, result, record, valid>>

WriteLock(p) ==
  /\ At(p, "lock") /\ (lockfile \in {None, Lock(p)} \/ p \in Forced)
  /\ lockfile' = Lock(p)
  /\ UnchangedBut(p, "assemble")
  /\ UNCHANGED <<owned, binding, marker, result, record, valid>>

RefuseLock(p) ==
  /\ At(p, "lock") /\ lockfile \notin {None, Lock(p)} /\ p \notin Forced
  /\ Refuse(p)

\* "changed before managed assembly could consume it".
Assemble(p) ==
  /\ At(p, "assemble") /\ Inputs(p) \in valid
  /\ UnchangedBut(p, "unbind")
  /\ UNCHANGED <<owned, work, valid>>

RefuseInputs(p) ==
  /\ pc[p] \in {"assemble", "leases"} /\ Inputs(p) \notin valid
  /\ Refuse(p)

\* replace_directory sets the old binding aside and renames the new one.
Unbind(p) ==
  /\ At(p, "unbind")
  /\ binding' = None
  /\ UnchangedBut(p, "bind")
  /\ UNCHANGED <<owned, lockfile, marker, result, record, valid>>

Bind(p) ==
  /\ At(p, "bind")
  /\ binding' = "untested"
  /\ result' = IF result = None THEN None ELSE "stale"
  /\ UnchangedBut(p, "leases")
  /\ UNCHANGED <<owned, lockfile, marker, record, valid>>

LeaseInputs(p) ==
  /\ At(p, "leases") /\ Inputs(p) \in valid
  /\ UnchangedBut(p, "smoke")
  /\ UNCHANGED <<owned, work, valid>>

\* smoke._prepare_build_directory clears a directory of this project ...
ClearSmoke(p) ==
  /\ At(p, "smoke") /\ marker \in {None, Project(p)}
  /\ result' = None
  /\ marker' = Torn
  /\ UnchangedBut(p, "marker")
  /\ UNCHANGED <<owned, lockfile, binding, record, valid>>

RefuseSmoke(p) == At(p, "smoke") /\ marker \notin {None, Project(p)} /\ Refuse(p)

\* ... and writes the marker again.
MarkSmoke(p) ==
  /\ At(p, "marker")
  /\ marker' = Project(p)
  /\ UnchangedBut(p, "test")
  /\ UNCHANGED <<owned, lockfile, binding, result, record, valid>>

Test(p) ==
  /\ At(p, "test")
  /\ binding' = "tested"
  /\ result' = "current"
  /\ UnchangedBut(p, "qualify")
  /\ UNCHANGED <<owned, lockfile, marker, record, valid>>

\* prepared.json is replaced as a whole, under the leases.
Qualify(p) ==
  /\ At(p, "qualify") /\ LockMatches(p)
  /\ record' = [inputs |-> Inputs(p), qualified |-> TRUE]
  /\ UnchangedBut(p, "install")
  /\ UNCHANGED <<owned, lockfile, binding, marker, result, valid>>

\* setup_toolchain: the installation is made of the leased inputs.
Install(p) ==
  /\ At(p, "install") /\ Leasable(p)
  /\ UnchangedBut(p, "publish")
  /\ UNCHANGED <<owned, work, valid>>

RefuseInstall(p) == At(p, "install") /\ ~Leasable(p) /\ Refuse(p)

Publish(p) ==
  /\ pc[p] \in {"publish", "copy"}
  /\ delivered' = delivered \cup {binding}
  /\ Goto(p, "idle")
  /\ UNCHANGED <<owned, work, valid, dir, request, loaded, runs, troubles>>

-----------------------------------------------------------------------------
(* bundle create: two shared leases on the state, one after the other.     *)

Load(b) ==
  /\ b \in Bundles /\ At(b, "lease") /\ ~SetupAtWork
  /\ loaded' = [loaded EXCEPT ![b] = record]
  /\ Goto(b, IF owner["state"] = "good" /\ record.qualified THEN "relock" ELSE "idle")
  /\ UNCHANGED <<owned, work, valid, dir, request, delivered, runs, troubles>>

\* Mutant: the record read under the first lease is trusted.
MutRelock(b) ==
  /\ At(b, "relock") /\ ~SetupAtWork
  /\ UnchangedBut(b, IF LockMatches(b) /\ binding # None /\ result # None
                       THEN "copy" ELSE "idle")
  /\ UNCHANGED <<owned, work, valid>>

\* lock_prepared_setup_inputs compares the record with the one it was given.
Relock(b) ==
  /\ At(b, "relock") /\ ~SetupAtWork
  /\ UnchangedBut(b, IF record = loaded[b] /\ Leasable(b) THEN "copy" ELSE "idle")
  /\ UNCHANGED <<owned, work, valid>>

-----------------------------------------------------------------------------
Trouble == troubles < MaxTroubles /\ troubles' = troubles + 1

\* A stop leaves everything as it is, a binding that was set aside included.
Stop(p) ==
  /\ Trouble /\ pc[p] # "idle"
  /\ Goto(p, "idle")
  /\ UNCHANGED <<owned, work, valid, dir, request, loaded, delivered, runs>>

\* An error in the work on the producers, the Conan home or the smoke project.
Error(p) ==
  /\ Trouble /\ pc[p] \in {"build", "assemble", "leases", "test", "publish", "copy"}
  /\ Goto(p, "idle")
  /\ UNCHANGED <<owned, work, valid, dir, request, loaded, delivered, runs>>

\* Another work directory spoils shared producer inputs that nobody has leased.
LoseInputs ==
  /\ Trouble /\ ~ProducersLeased
  /\ \E x \in valid : valid' = valid \ {x}
  /\ UNCHANGED <<owned, work, pc, dir, request, loaded, delivered, runs>>

SetupStep(p) ==
  \/ Own(p) \/ RefuseUnowned(p) \/ FindEmpty(p) \/ Claim(p) \/ WriteMarker(p)
  \/ Acquire(p) \/ WriteSelection(p) \/ RefuseSelection(p) \/ Withdraw(p)
  \/ Rebuild(p) \/ Reuse(p) \/ Refresh(p) \/ RefuseState(p)
  \/ Build(p) \/ WriteLock(p) \/ RefuseLock(p) \/ Assemble(p) \/ RefuseInputs(p)
  \/ Unbind(p) \/ Bind(p) \/ LeaseInputs(p) \/ ClearSmoke(p) \/ RefuseSmoke(p)
  \/ MarkSmoke(p) \/ Test(p) \/ Qualify(p) \/ Install(p) \/ RefuseInstall(p)

Step(p) == SetupStep(p) \/ Load(p) \/ Relock(p) \/ Publish(p)

Next ==
  \/ \E p \in Procs : Begin(p) \/ Step(p) \/ Stop(p) \/ Error(p)
  \/ LoseInputs

\* A command at work goes on; a forced command is run again when it has ended.
Fairness ==
  /\ \A p \in Procs : WF_vars(Step(p))
  /\ \A p \in Forced : WF_vars(Begin(p))

Spec == Init /\ [][Next]_vars /\ Fairness

-----------------------------------------------------------------------------
\* docs/cli-reference.md:111, "The prepared state is qualified only while its
\* format-1 passed verification result matches the current binding": at no time,
\* in the middle of a run or after a stop, is the record qualified and the
\* binding another one than the one that passed.
QualifiedMeansVerified ==
  record.qualified => binding = "tested" /\ result = "current"

\* setup.create_prepared_bundle, setup_toolchain: no installation and no bundle
\* is made of a binding that has not passed verification, although the bundle
\* command lets its lease on the state go between reading and using it.
DeliveredWasVerified == delivered \subseteq {"tested"}

\* docs/cli-reference.md:100, "selections are immutable": a work directory keeps
\* the selection it was made for, whatever setups ask for.
SelectionIsKept == [][config # None => config' = config]_vars

\* What no repetition repairs: a marker that a stop has left half written, the
\* verification directory of another smoke project, another selection.
Wreck(p) ==
  \/ \E d \in DOMAIN owner : owner[d] = Torn
  \/ ~SetupAtWork /\ marker \notin {None, Project(p)}
  \/ config \notin {None, Selection(p)}

\* setup.setup_toolchain with --force: it ends without an installation only by a stop
\* or an error, at a wreck, or because another work directory has spoilt the producers
\* it has just built.  No lock, record, binding or result that earlier setups, of other
\* releases or stopped half way, have left behind makes it give up.
ForcedRefusedForACause ==
  [][\A p \in Forced :
       pc[p] \notin {"idle", "publish"} /\ pc'[p] = "idle" /\ troubles' = troubles =>
         \/ Wreck(p)'
         \/ Inputs(p) \notin valid /\ troubles > 0]_vars

\* docs/managed-compilers.md:178, "After an interruption, run the same command
\* again": a forced setup that is run again and again ends up with a state that
\* is qualified for its producers, but for the named wrecks.
RerunsRecover ==
  \A p \in Forced :
    []<>((record.qualified /\ record.inputs = Inputs(p)) \/ Wreck(p))

=============================================================================
