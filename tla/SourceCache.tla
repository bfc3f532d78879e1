----------------------------- MODULE SourceCache -----------------------------
(* One pinned source archive and the files that hold it: the object in the    *)
(* shared source cache, the copies in producer workspaces (source_archive.     *)
(* download_pinned_archive) and the managed compilers' entry, which has a       *)
(* cache and a rule of its own (managed.sources.download_source_archive).      *)
(* Every file is written beside its name and renamed; a lock belongs to its    *)
(* process and goes with it.                                                  *)
EXTENDS Integers

CONSTANTS
  Pinned, Managed,   \* processes that acquire a copy, and the managed entry
  Workspace,         \* per pinned process: the workspace its copy is for
  Sources,           \* how many equivalent URLs the archive has
  MaxTroubles        \* kills, damaged files, changes of a server (bound)

Procs == Pinned \cup Managed
None == "none"

ASSUME ProcsAssumption == Pinned \cap Managed = {} /\ None \notin Procs
ASSUME SourcesAssumption == Sources \in Nat \ {0}
ASSUME BoundsAssumption == MaxTroubles \in Nat

Workspaces == {Workspace[p] : p \in Pinned}

VARIABLES
  object, copy, entry,   \* cache object, copy per workspace, managed entry
  server,                \* per URL: whether it delivers the pinned bytes
  locked,                \* who holds the object's lock, and the entry's
  pc, ready,             \* per process: point, whether its copy was found good
  source,                \* per process: the URL it tries
  troubles

files == <<object, copy, entry>>
local == <<ready, source>>
vars == <<files, server, locked, pc, local, troubles>>

Content == {"absent", "good", "bad"}

TypeOK ==
  /\ object \in Content /\ entry \in Content
  /\ copy \in [Workspaces -> Content]
  /\ server \in [1..Sources -> {"good", "bad", "down"}]
  /\ locked \in [object : Pinned \cup {None}, entry : Managed \cup {None}]
  /\ pc \in [Procs -> {"idle", "copy", "object", "fill", "entry", "fetch", "publish",
                      "take", "return", "error"}]
  /\ ready \in [Pinned -> BOOLEAN]
  /\ source \in [Procs -> 1..Sources]
  /\ troubles \in 0..MaxTroubles

Init ==
  /\ object = "absent" /\ entry = "absent"
  /\ copy = [w \in Workspaces |-> "absent"]
  /\ server \in [1..Sources -> {"good", "bad", "down"}]
  /\ locked = [object |-> None, entry |-> None]
  /\ pc = [p \in Procs |-> "idle"]
  /\ ready = [p \in Pinned |-> FALSE]
  /\ source = [p \in Procs |-> 1]
  /\ troubles = 0

-----------------------------------------------------------------------------
Go(p, from, to) == pc[p] = from /\ pc' = [pc EXCEPT ![p] = to]
Same == UNCHANGED <<server, troubles>>

\* _source_cache_lock: exclusive, one per digest.
Acquire(p) ==
  /\ IF p \in Pinned
       THEN /\ Go(p, "idle", "copy")
            /\ locked.object = None /\ locked' = [locked EXCEPT !.object = p]
       ELSE /\ Go(p, "idle", "entry")
            /\ locked.entry = None /\ locked' = [locked EXCEPT !.entry = p]
  /\ source' = [source EXCEPT ![p] = 1]
  /\ Same /\ UNCHANGED <<files, ready>>

\* The path is returned, or the error is raised, and the lock released.
Released(p) ==
  [object |-> IF locked.object = p THEN None ELSE locked.object,
   entry |-> IF locked.entry = p THEN None ELSE locked.entry]

End(p) ==
  /\ \E from \in {"return", "error"} : Go(p, from, "idle")
  /\ locked' = Released(p)
  /\ Same /\ UNCHANGED <<files, local>>

-----------------------------------------------------------------------------
(* download_pinned_archive.                                                *)

CheckCopy(p) ==
  /\ Go(p, "copy", "object")
  /\ ready' = [ready EXCEPT ![p] = copy[Workspace[p]] = "good"]
  /\ Same /\ UNCHANGED <<files, locked, source>>

\* Mutant: an object that is there is not hashed.
MutCheckObject(p) ==
  /\ Go(p, "object", CASE object # "absent" -> IF ready[p] THEN "return" ELSE "take"
                       [] object = "absent" -> IF ready[p] THEN "fill" ELSE "fetch")
  /\ Same /\ UNCHANGED <<files, locked, local>>

CheckObject(p) ==
  /\ Go(p, "object", CASE object = "good" -> IF ready[p] THEN "return" ELSE "take"
                       [] object # "good" -> IF ready[p] THEN "fill" ELSE "fetch")
  /\ Same /\ UNCHANGED <<files, locked, local>>

\* Mutant: the bad object is published over the good copy.
MutFill(p) ==
  /\ Go(p, "fill", "return")
  /\ copy' = [copy EXCEPT ![Workspace[p]] = object]
  /\ Same /\ UNCHANGED <<object, entry, locked, local>>

\* A good copy repairs the object ...
Fill(p) ==
  /\ Go(p, "fill", "return")
  /\ object' = copy[Workspace[p]]
  /\ Same /\ UNCHANGED <<copy, entry, locked, local>>

\* ... and the object is copied out.
Take(p) ==
  /\ Go(p, "take", "return")
  /\ copy' = [copy EXCEPT ![Workspace[p]] = object]
  /\ Same /\ UNCHANGED <<object, entry, locked, local>>

-----------------------------------------------------------------------------
(* managed.sources.download_source_archive: an entry that is there is used or  *)
(* reported, never replaced.                                                *)

CheckEntry(p) ==
  /\ Go(p, "entry", CASE entry = "good" -> "return" [] entry = "bad" -> "error"
                      [] entry = "absent" -> "fetch")
  /\ Same /\ UNCHANGED <<files, locked, local>>

-----------------------------------------------------------------------------
(* download_verified_file_from_sources.                                     *)

\* The bytes are hashed as they come into the temporary file.
Fetch(p) ==
  /\ server[source[p]] = "good"
  /\ Go(p, "fetch", "publish")
  /\ Same /\ UNCHANGED <<files, locked, local>>

\* Mutant: only the first URL is tried.
MutOneSource(p) ==
  /\ server[source[p]] # "good"
  /\ Go(p, "fetch", "error")
  /\ Same /\ UNCHANGED <<files, locked, local>>

\* A server that is down or delivers something else: the next one, or an error.
NextSource(p) ==
  /\ server[source[p]] # "good"
  /\ IF source[p] < Sources
       THEN Go(p, "fetch", "fetch") /\ source' = [source EXCEPT ![p] = @ + 1]
       ELSE Go(p, "fetch", "error") /\ UNCHANGED source
  /\ Same /\ UNCHANGED <<files, locked, ready>>

Publish(p) ==
  /\ IF p \in Pinned
       THEN Go(p, "publish", "take") /\ object' = "good" /\ UNCHANGED entry
       ELSE Go(p, "publish", "return") /\ entry' = "good" /\ UNCHANGED object
  /\ Same /\ UNCHANGED <<copy, locked, local>>

-----------------------------------------------------------------------------
Trouble == troubles < MaxTroubles /\ troubles' = troubles + 1

Kill(p) ==
  /\ Trouble /\ pc[p] # "idle"
  /\ pc' = [pc EXCEPT ![p] = "idle"]
  /\ locked' = Released(p)
  /\ UNCHANGED <<files, server, local>>

\* A file is lost or goes bad while nobody works on it.
Damage ==
  /\ Trouble
  /\ \E content \in {"absent", "bad"} :
       \/ /\ locked.object = None /\ object' = content
          /\ UNCHANGED <<copy, entry>>
       \/ \E w \in Workspaces :
            /\ locked.object = None /\ copy' = [copy EXCEPT ![w] = content]
            /\ UNCHANGED <<object, entry>>
       \/ /\ locked.entry = None /\ entry' = content
          /\ UNCHANGED <<object, copy>>
  /\ UNCHANGED <<server, locked, pc, local>>

ServerChanges ==
  /\ Trouble
  /\ \E s \in 1..Sources, state \in {"good", "bad", "down"} :
       server' = [server EXCEPT ![s] = state]
  /\ UNCHANGED <<files, locked, pc, local>>

Step(p) ==
  \/ Acquire(p) \/ End(p) \/ Fetch(p) \/ NextSource(p) \/ Publish(p)
  \/ p \in Pinned /\ (CheckCopy(p) \/ CheckObject(p) \/ Fill(p) \/ Take(p))
  \/ p \in Managed /\ CheckEntry(p)

Next ==
  \/ \E p \in Procs : Step(p) \/ Kill(p)
  \/ Damage \/ ServerChanges

\* Who works goes on, and who is idle acquires again; flock gives everybody a turn.
Fairness == \A p \in Procs : SF_vars(Step(p))

Spec == Init /\ [][Next]_vars /\ Fairness

-----------------------------------------------------------------------------
\* source_archive.download_pinned_archive: the path that is returned has the
\* pinned bytes, whatever had become of the copy, the object and the servers, and
\* whoever acquires the same archive for another workspace.
ReturnedIsPinned ==
  \A p \in Procs : pc[p] = "return" =>
    IF p \in Pinned THEN copy[Workspace[p]] = "good" ELSE entry = "good"

\* source_archive.publish_archive_file, download_verified_file: no acquisition,
\* not a killed one either, makes a good file bad or takes it away; in particular
\* nobody copies in the wrong direction.
GoodStaysGood ==
  [][troubles' = troubles =>
       /\ object = "good" => object' = "good"
       /\ entry = "good" => entry' = "good"
       /\ \A w \in Workspaces : copy[w] = "good" => copy'[w] = "good"]_vars

\* source_archive.download_pinned_archive: whoever is given its copy has put the
\* shared object in order too, by whichever of the four ways it came to return.
ReturnsRepair ==
  \A p \in Pinned : pc[p] = "return" => object = "good" /\ copy[Workspace[p]] = "good"

\* source_archive.download_verified_file_from_sources: until something is damaged,
\* killed or changed no acquisition fails while some server delivers, in whatever
\* order the servers stand and whoever else acquires.
RefusedOnlyUnserved ==
  troubles = 0 =>
    \A p \in Procs : pc[p] = "error" => \A s \in 1..Sources : server[s] # "good"

\* source_archive.download_verified_file_from_sources, "Try equivalent source
\* URLs in order": as long as one server delivers, acquiring repairs every copy
\* again and again; the managed entry only if it is not there at all.
AcquiringRepairs ==
  LET served == \E s \in 1..Sources : server[s] = "good"
  IN  /\ \A w \in Workspaces : []<>(copy[w] = "good" \/ ~served)
      /\ Managed # {} => []<>(entry \in {"good", "bad"} \/ ~served)

=============================================================================
