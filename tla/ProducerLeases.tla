--------------------------- MODULE ProducerLeases ---------------------------
(***************************************************************************)
(* The leases under which concurrent `setup` and `bundle create` processes  *)
(* of several work directories share one producer store (setup.py,          *)
(* producer_store.py, source_archive.py).  A lease is a flock on the lock   *)
(* file of an identity, shared or exclusive; a process holds the leases of  *)
(* the with blocks it is in and takes them one at a time in the canonical   *)
(* order.  What the process does in a with block is abstracted to the       *)
(* directories it reads and writes there.                                   *)
(***************************************************************************)
EXTENDS Naturals, FiniteSets

CONSTANTS
  Setups,    \* the processes
  Selection, \* for each: its work directory and the identities it resolves to
  Provider,  \* for each runtime, the compiler kit that builds it
  Sources,   \* locks of source cache objects
  Locks,     \* all identities that have a lock file
  Position,  \* the place of each lock in the order by (rank, digest)
  MaxRuns    \* bound on the times a process is started

State(p) == Selection[p].state
Target(p) == Selection[p].target
Backend(p) == Selection[p].backend
Tools(p) == Selection[p].tools
Kit(p) == Selection[p].kit
Runtimes(p) == Selection[p].runtimes

\* The managed artifacts a selection leases: compiler kit, runtimes, runtime set.
Artifacts(p) == {Kit(p), Selection[p].set} \cup Runtimes(p)

\* plan_assembly also builds the kits that provide missing runtimes, and these
\* have no lease of their own.
ProviderKits(p) == {Provider[r] : r \in Runtimes(p)}

ASSUME LocksAssumption ==
  /\ IsFiniteSet(Locks) /\ Sources \subseteq Locks /\ MaxRuns \in Nat
  /\ \A p \in Setups :
       /\ {State(p), Target(p), Backend(p), Tools(p)} \cup Artifacts(p) \subseteq Locks
       /\ ProviderKits(p) \subseteq Locks

\* lock_many sorts by rank and digest; state locks are taken before it and
\* source locks inside it.
ASSUME PositionAssumption ==
  /\ Position \in [Locks -> 0 .. Cardinality(Locks) - 1]
  /\ \A l, m \in Locks : Position[l] = Position[m] => l = m
  /\ \A p, q \in Setups : \A sdk \in {Target(q), Backend(q)} :
       /\ Position[State(p)] < Position[sdk]
       /\ Position[sdk] < Position[Tools(p)]
  /\ \A p, q \in Setups : \A a \in Artifacts(q) :
       /\ Position[Tools(p)] < Position[a]
       /\ \A s \in Sources : Position[a] < Position[s]

\* A kit that provides a runtime of one selection and is the compiler of another is
\* the compiler of both, or both build that runtime; one kit provides one runtime.
\* SetupsOwnProviders of PublicationProofs proves it of the locks that setups resolve.
ASSUME ProviderAssumption ==
  \A p, q \in Setups :
    /\ \A r \in Runtimes(p) :
         Provider[r] = Kit(q) => Provider[r] = Kit(p) \/ r \in Runtimes(q)
    /\ \A r \in Runtimes(p), s \in Runtimes(q) : Provider[r] = Provider[s] => r = s
    /\ ProviderKits(p) \cap
         ({State(q), Target(q), Backend(q), Tools(q), Selection[q].set}
            \cup Runtimes(q) \cup Sources) = {}

\* setup: enter, then reuse or target ... smoke, then install; bundle: open, bundle.
Phases == {"enter", "reuse", "target", "backend", "tools", "assemble", "smoke",
           "install", "open", "bundle"}
BuildPhases == {"target", "backend", "tools", "assemble"}

VARIABLES
  phase,   \* where each process is; "idle" when it is not running
  held,    \* the <<lock, mode>> leases each process holds
  todo,    \* the source objects its with block has yet to ask for
  source,  \* the one it has asked for, if any: the lock it wants or holds
  runs     \* how often it has been started

leaseVars == <<phase, held, todo, source, runs>>

Modes == {"SH", "EX"}
Active == {p \in Setups : phase[p] # "idle"}

LeaseTypeOK ==
  /\ phase \in [Setups -> Phases \cup {"idle"}]
  /\ held \in [Setups -> SUBSET (Locks \X Modes)]
  /\ todo \in [Setups -> SUBSET Sources] /\ source \in [Setups -> SUBSET Sources]
  /\ runs \in [Setups -> 0 .. MaxRuns]

LeaseInit ==
  /\ phase = [p \in Setups |-> "idle"]
  /\ held = [p \in Setups |-> {}]
  /\ todo = [p \in Setups |-> {}] /\ source = [p \in Setups |-> {}]
  /\ runs = [p \in Setups |-> 0]

-----------------------------------------------------------------------------
(* The leases of each with block.                                          *)

StateLease(p) ==
  IF phase[p] \in {"open", "bundle"} THEN {<<State(p), "SH">>} ELSE {<<State(p), "EX">>}

\* _producer_lease_identities.
InputLeases(p) == ({Target(p), Tools(p)} \cup Artifacts(p)) \X {"SH"}

\* Mutant: the runtimes are built under the lease of the compiler kit alone.
MutAssemblyLeases(p) ==
  ({Target(p), Backend(p)} \X {"SH"}) \cup ({Kit(p), Selection[p].set} \X {"EX"})

\* sdk_readers and artifact_writers.
AssemblyLeases(p) == ({Target(p), Backend(p)} \X {"SH"}) \cup (Artifacts(p) \X {"EX"})

Leases(p) ==
  StateLease(p) \cup
  CASE phase[p] = "target" -> {<<Target(p), "EX">>}
    [] phase[p] = "backend" -> {<<Backend(p), "EX">>}
    [] phase[p] = "tools" -> {<<Backend(p), "SH">>, <<Tools(p), "EX">>}
    [] phase[p] = "assemble" -> AssemblyLeases(p)
    [] phase[p] \in {"reuse", "smoke", "install", "bundle"} -> InputLeases(p)
    [] OTHER -> {}

Needs(p) == Leases(p) \cup (source[p] \X {"EX"})
Missing(p) == Needs(p) \ held[p]

Conflict(l, m) == l[1] = m[1] /\ (l[2] = "EX" \/ m[2] = "EX")
Free(p, l) == \A q \in Setups \ {p} : \A m \in held[q] : ~Conflict(l, m)

First(p, l) ==
  /\ l \in Missing(p)
  /\ \A m \in Missing(p) : Position[l[1]] <= Position[m[1]]

\* Inside the with block of the phase.
Using(p) == phase[p] # "idle" /\ Leases(p) \subseteq held[p]
Idling(p) == Using(p) /\ source[p] = {}

-----------------------------------------------------------------------------
(* Steps.                                                                  *)

Start(p) ==
  /\ phase[p] = "idle"
  /\ runs[p] < MaxRuns
  /\ \E first \in {"enter", "open"} : phase' = [phase EXCEPT ![p] = first]
  /\ runs' = [runs EXCEPT ![p] = @ + 1]
  /\ UNCHANGED <<held, todo, source>>

\* flock returns.
TakeLease(p, l) ==
  /\ phase[p] # "idle"
  /\ First(p, l)
  /\ Free(p, l)
  /\ held' = [held EXCEPT ![p] = @ \cup {l}]
  /\ UNCHANGED <<phase, todo, source, runs>>

\* Mutant: a with block is entered before the one before it is left.
MutMove(p, from, to) ==
  /\ phase[p] = from
  /\ Idling(p)
  /\ phase' = [phase EXCEPT ![p] = to]
  /\ todo' = [todo EXCEPT ![p] = IF to \in BuildPhases THEN Sources ELSE {}]
  /\ UNCHANGED <<held, source, runs>>

\* From one with block of a setup to the next; the state lock stays.
Move(p, from, to) ==
  /\ phase[p] = from
  /\ Idling(p)
  /\ phase' = [phase EXCEPT ![p] = to]
  /\ held' = [held EXCEPT ![p] = StateLease(p)]
  /\ todo' = [todo EXCEPT ![p] = IF to \in BuildPhases THEN Sources ELSE {}]
  /\ UNCHANGED <<source, runs>>

MoveOn(p) ==
  \/ \E to \in {"reuse", "target"} : Move(p, "enter", to)
  \/ Move(p, "reuse", "target")  \* its producer inputs have changed
  \/ Move(p, "reuse", "install")
  \/ Move(p, "target", IF Backend(p) = Target(p) THEN "tools" ELSE "backend")
  \/ Move(p, "backend", "tools")
  \/ Move(p, "tools", "assemble")
  \/ Move(p, "assemble", "smoke")
  \/ Move(p, "smoke", "install")

\* load_prepared_setup_state lets the state lock go before
\* lock_prepared_setup_inputs takes it again.
Reopen(p) ==
  /\ phase[p] = "open"
  /\ Idling(p)
  /\ phase' = [phase EXCEPT ![p] = "bundle"]
  /\ held' = [held EXCEPT ![p] = {}]
  /\ UNCHANGED <<todo, source, runs>>

\* A build asks for a source archive, one at a time ...
Fetch(p, s) ==
  /\ s \in todo[p]
  /\ Idling(p)
  /\ source' = [source EXCEPT ![p] = {s}]
  /\ todo' = [todo EXCEPT ![p] = @ \ {s}]
  /\ UNCHANGED <<phase, held, runs>>

\* ... and leaves the lock of the cache object when it has it.
Fetched(p) ==
  /\ source[p] # {}
  /\ Missing(p) = {}
  /\ source' = [source EXCEPT ![p] = {}]
  /\ held' = [held EXCEPT ![p] = @ \ (source[p] \X {"EX"})]
  /\ UNCHANGED <<phase, todo, runs>>

\* Mutant: an error leaves the state lock behind.
MutLeave(p) ==
  /\ phase[p] # "idle"
  /\ phase' = [phase EXCEPT ![p] = "idle"]
  /\ held' = [held EXCEPT ![p] = IF phase[p] = "tools" THEN held[p] ELSE {}]
  /\ todo' = [todo EXCEPT ![p] = {}] /\ source' = [source EXCEPT ![p] = {}]
  /\ UNCHANGED runs

\* The end of the command, an exception out of all with blocks, or a kill: every
\* descriptor is closed.  Validators and builders may raise in any phase.
Leave(p) ==
  /\ phase[p] # "idle"
  /\ phase' = [phase EXCEPT ![p] = "idle"]
  /\ held' = [held EXCEPT ![p] = {}]
  /\ todo' = [todo EXCEPT ![p] = {}] /\ source' = [source EXCEPT ![p] = {}]
  /\ UNCHANGED runs

\* install = False ends a setup with the smoke test, or with the reused state.
Finish(p) ==
  /\ phase[p] \in {"reuse", "smoke", "install", "bundle"}
  /\ Idling(p)
  /\ Leave(p)

Step(p) ==
  \/ \E l \in Missing(p) : TakeLease(p, l)
  \/ MoveOn(p) \/ Reopen(p) \/ Fetched(p) \/ Finish(p)

LeaseNext ==
  \E p \in Setups :
    \/ Start(p) \/ Step(p) \/ Leave(p)
    \/ \E s \in Sources : Fetch(p, s)

\* A process that can go on does.  Errors and kills (Leave) are not forced, and
\* neither are downloads.
LeaseSpec == LeaseInit /\ [][LeaseNext]_leaseVars /\ \A p \in Setups : WF_leaseVars(Step(p))

-----------------------------------------------------------------------------
(* What a process reads and writes inside its with blocks.                 *)

InState(p, mode) == IF <<State(p), mode>> \in StateLease(p) THEN {State(p)} ELSE {}

Writes(p) ==
  InState(p, "EX") \cup {s \in source[p] : <<s, "EX">> \in held[p]} \cup
  CASE phase[p] = "target" -> {Target(p)}
    [] phase[p] = "backend" -> {Backend(p)}
    [] phase[p] = "tools" -> {Tools(p)}
    [] phase[p] = "assemble" -> Artifacts(p) \cup ProviderKits(p)
    [] OTHER -> {}

Reads(p) ==
  InState(p, "SH") \cup
  CASE phase[p] = "tools" -> {Backend(p)}
    [] phase[p] = "assemble" -> {Target(p), Backend(p)}
    [] phase[p] \in {"reuse", "smoke", "install", "bundle"} ->
         {Target(p), Tools(p)} \cup Artifacts(p)
    [] OTHER -> {}

-----------------------------------------------------------------------------
(* Properties.                                                             *)

\* docs/architecture.md:79-84: nobody writes what another process reads or
\* writes, although the kits that assembly builds for runtimes of other compilers
\* have no lease of their own.
NoConflict ==
  \A p, q \in Setups :
    p # q /\ Using(p) /\ Using(q) => Writes(p) \cap (Reads(q) \cup Writes(q)) = {}

\* No circle of processes that wait on each other's leases: while any process
\* runs, one of them can take its next lease or holds all it needs.
DeadlockFree ==
  Active # {} =>
    \E p \in Active : Missing(p) = {} \/ \E l \in Missing(p) : First(p, l) /\ Free(p, l)

\* Every command ends, whoever else uses the store.
RunsEnd == \A p \in Setups : phase[p] # "idle" ~> phase[p] = "idle"
=============================================================================
