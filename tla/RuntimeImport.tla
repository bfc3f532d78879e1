---------------------------- MODULE RuntimeImport ----------------------------
(* `runtime import-gcc` and `runtime import-llvm`: the C++ runtime libraries  *)
(* of a compiler's prefix are copied along their symlinks, inspected, and     *)
(* published as an export that a binding validates again before it uses it    *)
(* (runtime/importer.py, runtime/llvm.py).  A file is what the inspection     *)
(* tells apart; headers, CRT objects and licences are left out.               *)
EXTENDS Naturals, Sequences, FiniteSets

CONSTANTS
  PathOrder,      \* the library paths <<directory, name>>, as sorted() lists them
  LibraryNames,   \* per kind: the names _LIBRARY_NAME (_RUNTIME_LIBRARY_NAME) matches
  EntryNames,     \* per kind: those the import looks for in the library directories
  StaticNames,    \* those that end in .a
  DriverNames,    \* those GCC keeps in its own directory (libgcc*.a)
  Component,      \* of a name: the part before .so or .a
  SystemNames, ForbiddenNames,  \* what an LLVM library may, and must not, need
  Imports,        \* per kind, what is imported: records of the prefix, the glibc
                  \* floor asked for and the version of its provider
  Tampering,      \* the files that may later be found in an export: <<path, entry>>
  MaxImports, MaxKills  \* bounds

Kinds == {"libstdc++", "libc++"}
Paths == {PathOrder[i] : i \in DOMAIN PathOrder}
None == [type |-> "none"]
NoExport == [type |-> "no export"]

\* An entry of a tree: links lead to paths, versions are numbers.
IsEntry(e) == /\ e.type = "link" => e.to \in Paths
              /\ e.type = "elf" => e.glibc \in Nat

ASSUME ImportsAssumption == \A k \in Kinds : \A i \in Imports[k] :
  /\ i.floor \in Nat
  /\ \A p \in Paths : IsEntry(i.prefix[p])
ASSUME TamperingAssumption == \A t \in Tampering : t[1] \in Paths /\ IsEntry(t[2])
ASSUME NamesAssumption == "libstdc++.a" \in StaticNames /\ Component["libstdc++.a"] = "libstdc++"
ASSUME OrderAssumption == PathOrder \in Seq(Paths)
ASSUME BoundsAssumption == {MaxImports, MaxKills} \subseteq Nat

VARIABLES
  imports, kills,  \* how often an import has begun, a process has been killed
  pc,        \* idle, copying, staged, validating
  job,       \* kind, prefix, floor and version of the import at work
  sources, pending, copied,  \* of the copy: libraries left, worklist, done
  staging,   \* what has been copied
  manifest,  \* what has been recorded of it
  exports,   \* per kind: the published tree and manifest
  previous   \* the export set aside while its successor is validated

copyVars == <<sources, pending, copied, staging>>
importVars == <<imports, kills, pc, job, copyVars, manifest, exports, previous>>

NoTree == [p \in Paths |-> None]
NoJob == [type |-> "no job"]
NoManifest == [type |-> "no manifest"]
Name(p) == p[2]
Comp(p) == Component[Name(p)]
Names(ps) == {Name(p) : p \in ps}

ImportTypeOK ==
  /\ imports \in 0 .. MaxImports /\ kills \in 0 .. MaxKills
  /\ pc \in {"idle", "copying", "staged", "validating"}
  /\ (job = NoJob) <=> (pc = "idle")
  /\ sources \subseteq Paths /\ pending \subseteq Paths /\ copied \subseteq Paths
  /\ Cardinality(pending) <= 1
  /\ DOMAIN staging = Paths /\ DOMAIN exports = Kinds
  /\ (manifest # NoManifest) => (pc \in {"staged", "validating"})

ImportInit ==
  /\ imports = 0 /\ kills = 0 /\ pc = "idle" /\ job = NoJob
  /\ sources = {} /\ pending = {} /\ copied = {}
  /\ staging = NoTree /\ manifest = NoManifest
  /\ exports = [k \in Kinds |-> NoExport] /\ previous = NoExport

------------------------------------------------------------------------------
(* Trees of files, links and linker scripts. *)

IsLink(e) == e.type \in {"link", "outside"}

\* Where n hops along the links lead from a path.
Walk(tree) ==
  LET walk[n \in 0 .. Len(PathOrder)] ==
        [q \in Paths |-> IF n = 0 \/ tree[q].type # "link" THEN q ELSE walk[n - 1][tree[q].to]]
  IN walk

\* Path.resolve(): follow links, at most as often as there are paths; what is
\* still a link then goes round in a circle.
Follow(tree, p) == Walk(tree)[Len(PathOrder)][p]

IsFile(tree, p) == tree[p] # None /\ ~IsLink(tree[p])
\* resolve(strict=True) finds a file of the tree.
Resolves(tree, p) == IsFile(tree, Follow(tree, p))

Libraries(k, tree) == {p \in Paths : tree[p] # None /\ Name(p) \in LibraryNames[k]}
DriverFiles(tree) == {p \in Paths : IsFile(tree, p) /\ Name(p) \in DriverNames}
Listed(k, tree) == Libraries(k, tree) \cup (IF k = "libstdc++" THEN DriverFiles(tree) ELSE {})
Static(ps) == {p \in ps : Name(p) \in StaticNames \cup DriverNames}
Shared(ps) == ps \ Static(ps)

\* _validate_symlinks
LinksStayInside(tree) ==
  \A p \in Paths : IsLink(tree[p]) =>
    (tree[p].type = "link" /\ ~tree[p].absolute /\ Resolves(tree, p))

ElfFiles(tree, ps) == {r \in {Follow(tree, p) : p \in ps} : tree[r].type \in {"elf", "foreign"}}

\* What both inspections ask of a shared library: its architecture, the floor,
\* a SONAME of its own component that is listed, and no second owner of it.
ElfIsSound(tree, ps, floor) ==
  LET elves == ElfFiles(tree, ps) IN
  \A r \in elves :
    /\ tree[r].type = "elf"
    /\ tree[r].soname \in Names(ps)
    /\ Component[tree[r].soname] = Comp(r)
    /\ tree[r].glibc <= floor
    /\ \A q \in elves : (tree[q].type = "elf" /\ tree[q].soname = tree[r].soname) => (q = r)

\* _version_symbol_report
Reports(tree, ps) == {<<r, tree[r].glibc>> : r \in ElfFiles(tree, Shared(ps))}

\* importer._validate_runtime_linker_script: libgcc_s.so, and what it names.
ScriptIsSafe(r, ps) ==
  /\ Name(r) = "libgcc_s.so"
  /\ "libgcc_s.so.1" \in Names(Shared(ps))
  /\ "libgcc.a" \in Names(Static(ps))

GccSharedIsSound(tree, ps, floor) ==
  LET shared == Shared(ps) IN
  /\ \A p \in shared : LET r == Follow(tree, p) IN
       \/ tree[r].type \in {"elf", "foreign"}
       \/ tree[r].type = "script" /\ ScriptIsSafe(r, ps)
  /\ ElfIsSound(tree, shared, floor)
  /\ {"libstdc++", "libgcc_s"} \subseteq {Comp(r) : r \in ElfFiles(tree, shared)}

\* llvm._inspect_shared_libraries keeps the last script it meets.
LibcxxScripts(tree, ps) ==
  {i \in DOMAIN PathOrder : PathOrder[i] \in ps /\ tree[PathOrder[i]].type = "script"}
ScriptReachesOwner(tree, ps) ==
  LET scripts == LibcxxScripts(tree, ps) IN
  \A i \in scripts : (\A j \in scripts : j <= i) =>
    LET named == <<PathOrder[i][1], tree[PathOrder[i]].names>> IN
    /\ named \in Paths /\ Resolves(tree, named)
    /\ Comp(Follow(tree, named)) = "libc++"
    /\ tree[Follow(tree, named)].type = "elf"

LlvmComponents == {"libc++", "libc++abi", "libunwind"}
LlvmSharedIsSound(tree, ps, floor) ==
  LET shared == Shared(ps)
      elves == ElfFiles(tree, shared)
  IN
  /\ {"libc++.so", "libc++abi.so", "libunwind.so"} \subseteq Names(shared)
  /\ \A p \in shared :
       \/ tree[Follow(tree, p)].type \in {"elf", "foreign"}
       \/ Name(p) = "libc++.so" /\ tree[p].type = "script"
  /\ ElfIsSound(tree, shared, floor)
  /\ \A r, q \in elves : (Comp(r) = Comp(q)) => (r = q)
  /\ {Comp(r) : r \in elves} = LlvmComponents
  /\ ScriptReachesOwner(tree, shared)
  /\ \A r \in elves : tree[r].needs \subseteq
       ({tree[q].soname : q \in elves} \cup SystemNames) \ ForbiddenNames

------------------------------------------------------------------------------
(* What is required of a copy, of a manifest, and of an export. *)

SharedIsSound(k, tree, ps, floor) ==
  IF k = "libstdc++" THEN GccSharedIsSound(tree, ps, floor) ELSE LlvmSharedIsSound(tree, ps, floor)

\* The libraries without which nothing is recorded.
HasRequired(k, ps) ==
  IF k = "libstdc++"
  THEN /\ {"libstdc++", "libgcc_s"} \subseteq {Comp(p) : p \in Shared(ps)}
       /\ {"libstdc++.a", "libgcc.a"} \subseteq Names(ps)
  ELSE Shared(ps) # {} /\ Static(ps) # {}

\* _inspect_relocatable_inputs, llvm._inspect_static_libraries: at validation only.
StaticIsSound(k, tree, ps) ==
  LET static == Static(ps) IN
  /\ \A p \in static : tree[Follow(tree, p)].type = "archive"
  /\ k = "libc++" =>
       /\ \A p, q \in static : Name(p) = Name(q) => p = q
       /\ LlvmComponents \subseteq {Comp(p) : p \in static}

\* materialize_gcc_runtime, materialize_llvm_runtime, after the copy.
MayBeRecorded(k, tree, floor) ==
  LET ps == Listed(k, tree) IN
  /\ HasRequired(k, ps) /\ LinksStayInside(tree) /\ SharedIsSound(k, tree, ps, floor)

Recorded(k, tree, floor, version) ==
  [type |-> "manifest", kind |-> k, floor |-> floor, version |-> version,
   listed |-> Listed(k, tree), reports |-> Reports(tree, Listed(k, tree))]

\* validate_runtime_manifest, validate_llvm_runtime_manifest: everything is
\* inspected again and compared with what the manifest records.
MutIsValid(x) == x.type = "export"
IsValid(x) ==
  /\ x.type = "export"
  /\ LinksStayInside(x.tree)
  /\ \A p \in x.manifest.listed : Resolves(x.tree, p)
  /\ StaticIsSound(x.manifest.kind, x.tree, x.manifest.listed)
  /\ SharedIsSound(x.manifest.kind, x.tree, x.manifest.listed, x.manifest.floor)
  /\ x.manifest.reports = Reports(x.tree, x.manifest.listed)

------------------------------------------------------------------------------
(* One import. *)

\* _copy_libraries, _runtime_library_sources
Sources(k, prefix) == {p \in Paths : prefix[p] # None /\ Name(p) \in EntryNames[k]}

\* import_gcc_runtime, import_llvm_runtime: an export there already is replaced
\* with --force only.  GCC's own archives are copied first.
BeginImport ==
  /\ pc = "idle" /\ imports < MaxImports /\ imports' = imports + 1
  /\ \E k \in Kinds : \E i \in Imports[k] :
       /\ job' = [type |-> "import", kind |-> k, prefix |-> i.prefix,
                   floor |-> i.floor, version |-> i.version]
       /\ sources' = Sources(k, i.prefix)
       /\ staging' = [p \in Paths |-> IF k = "libstdc++" /\ p \in DriverFiles(i.prefix)
                                       THEN i.prefix[p] ELSE None]
  /\ pc' = "copying" /\ pending' = {} /\ copied' = {}
  /\ UNCHANGED <<kills, manifest, exports, previous>>

\* The import gives up; staging is removed.
GiveUp ==
  /\ pc' = "idle" /\ job' = NoJob
  /\ sources' = {} /\ pending' = {} /\ copied' = {}
  /\ staging' = NoTree /\ manifest' = NoManifest /\ previous' = NoExport

\* The next library in sorted order; LLVM forgets what it copied for the last.
NextSource ==
  /\ pc = "copying" /\ pending = {} /\ sources # {}
  /\ LET i == CHOOSE i \in DOMAIN PathOrder :
                 PathOrder[i] \in sources /\ \A j \in 1 .. i - 1 : PathOrder[j] \notin sources
     IN pending' = {PathOrder[i]} /\ sources' = sources \ {PathOrder[i]}
  /\ copied' = (IF job.kind = "libc++" THEN {} ELSE copied)
  /\ UNCHANGED <<imports, kills, pc, job, staging, manifest, exports, previous>>

\* Where a link is copied to point, and what is copied next.
LinkTarget(p) == IF job.kind = "libc++" THEN job.prefix[p].to ELSE Follow(job.prefix, p)

MutMayFollow(p) ==
  /\ job.prefix[p].type = "link"
  /\ IF job.kind = "libc++" THEN ~job.prefix[p].absolute ELSE Resolves(job.prefix, p)
  /\ Name(LinkTarget(p)) \in LibraryNames[job.kind]
MayFollow(p) ==
  /\ job.prefix[p].type = "link"
  /\ IF job.kind = "libc++"
     THEN ~job.prefix[p].absolute /\ Comp(LinkTarget(p)) = Comp(p)
     ELSE Resolves(job.prefix, p)
  /\ Name(LinkTarget(p)) \in LibraryNames[job.kind]

MutCopyLink(p) ==
  /\ MayFollow(p)
  /\ staging' = [staging EXCEPT ![p] = [type |-> "link", to |-> LinkTarget(p), absolute |-> FALSE]]
  /\ pending' = {}
CopyLink(p) ==
  /\ MayFollow(p)
  /\ staging' = [staging EXCEPT ![p] = [type |-> "link", to |-> LinkTarget(p), absolute |-> FALSE]]
  /\ pending' = {LinkTarget(p)}

CopyFile(p) ==
  /\ IsFile(job.prefix, p)
  /\ staging' = [staging EXCEPT ![p] = job.prefix[p]]
  /\ pending' = {}

MutVisited(p) == FALSE
Visited(p) == p \in copied

\* One turn of _copy_library_chain.
CopyEntry ==
  /\ pc = "copying"
  /\ \E p \in pending :
       \/ /\ Visited(p) /\ pending' = {} /\ UNCHANGED <<staging, copied>>
       \/ /\ ~Visited(p) /\ (CopyLink(p) \/ CopyFile(p)) /\ copied' = copied \cup {p}
  /\ UNCHANGED <<imports, kills, pc, job, sources, manifest, exports, previous>>

\* A link that leaves the prefix, dangles, goes round or ends at something else.
RefuseEntry ==
  /\ pc = "copying"
  /\ \E p \in pending : ~Visited(p) /\ ~MayFollow(p) /\ ~IsFile(job.prefix, p)
  /\ GiveUp /\ UNCHANGED <<imports, kills, exports>>

CopyIsDone == pc = "copying" /\ pending = {} /\ sources = {}

Record ==
  /\ CopyIsDone /\ MayBeRecorded(job.kind, staging, job.floor)
  /\ manifest' = Recorded(job.kind, staging, job.floor, job.version)
  /\ pc' = "staged"
  /\ UNCHANGED <<imports, kills, job, copyVars, exports, previous>>

RefuseCopy ==
  /\ CopyIsDone /\ ~MayBeRecorded(job.kind, staging, job.floor)
  /\ GiveUp /\ UNCHANGED <<imports, kills, exports>>

\* replace_directory: the new tree takes the place, then is validated there.
Exchange ==
  /\ pc = "staged"
  /\ exports' = [exports EXCEPT ![job.kind] =
                   [type |-> "export", tree |-> staging, manifest |-> manifest]]
  /\ previous' = exports[job.kind]
  /\ pc' = "validating"
  /\ UNCHANGED <<imports, kills, job, copyVars, manifest>>

\* validate_final; the previous export comes back when it fails.
Settle ==
  /\ pc = "validating"
  /\ exports' = [exports EXCEPT ![job.kind] =
                   IF IsValid(exports[job.kind]) /\ exports[job.kind].manifest = manifest
                   THEN exports[job.kind] ELSE previous]
  /\ GiveUp /\ UNCHANGED <<imports, kills>>

\* The process is killed: what has been exchanged stays.
Kill == kills < MaxKills /\ kills' = kills + 1
KillImport == pc # "idle" /\ Kill /\ GiveUp /\ UNCHANGED <<imports, exports>>

\* Someone changes a file of an export that no import is at work on.
Tamper ==
  /\ pc = "idle"
  /\ \E k \in Kinds, t \in Tampering :
       /\ exports[k].type = "export"
       /\ exports[k].tree[t[1]] \notin {None, t[2]}
       /\ exports' = [exports EXCEPT ![k].tree[t[1]] = t[2]]
  /\ UNCHANGED <<imports, kills, pc, job, copyVars, manifest, previous>>

ImportStep ==
  NextSource \/ CopyEntry \/ RefuseEntry \/ Record \/ RefuseCopy \/ Exchange \/ Settle
ImportNext == BeginImport \/ ImportStep \/ KillImport \/ Tamper

------------------------------------------------------------------------------
(* Properties *)

\* What the libraries lead to: for GCC the file at the end, for LLVM each link.
Closure(k, prefix) ==
  UNION {IF k = "libc++" THEN {Walk(prefix)[n][p] : n \in 0 .. Len(PathOrder)}
         ELSE {p, Follow(prefix, p)} : p \in Sources(k, prefix)}

\* Whatever chains, circles and shared tails the links of a prefix form, the
\* worklist ends with exactly the libraries they lead to, and each name leads
\* in the copy to the file it led to in the prefix, or to none in both
\* (_copy_library_chain; a link is rewritten to where its chain ends by GCC and
\* kept as it is by LLVM).
CopyIsFaithful ==
  CopyIsDone =>
    LET driver == IF job.kind = "libstdc++" THEN DriverFiles(job.prefix) ELSE {} IN
    /\ {p \in Paths : staging[p] # None} = Closure(job.kind, job.prefix) \cup driver
    /\ \A p \in Sources(job.kind, job.prefix) :
         /\ Resolves(staging, p) <=> Resolves(job.prefix, p)
         /\ Resolves(staging, p) =>
              (staging[Follow(staging, p)] = job.prefix[Follow(job.prefix, p)])

\* In an LLVM export that passes its validation every library name leads to the
\* library of its own component, and every SONAME to the library that carries
\* it, so that a program linked with libc++.so is run with the same file: no
\* single check says so (component per link, one owner per component and per
\* SONAME, SONAMEs listed, the linker script's name).  The exception is a
\* library whose SONAME is the name of the linker script, which llvm.py:346
\* accepts, as the name is listed.
NamesReachTheirOwner ==
  (pc = "validating" /\ job.kind = "libc++" /\ IsValid(exports["libc++"])) =>
    LET tree == exports["libc++"].tree
        shared == Shared(exports["libc++"].manifest.listed)
    IN /\ \A p \in shared : tree[p].type # "script" => Comp(Follow(tree, p)) = Comp(p)
       /\ \A r \in ElfFiles(tree, shared) :
            \E p \in shared : Name(p) = tree[r].soname /\ (Follow(tree, p) = r \/ tree[p].type = "script")

\* How many steps an import at work has before it: of each library it follows a
\* chain of links that visits no path twice.
ImportStepsLeft ==
  CASE pc = "idle" -> 0
    [] pc = "validating" -> 1
    [] pc = "staged" -> 2
    [] pc = "copying" ->
         (Cardinality(Paths) + 2) * Cardinality(sources)
         + (IF pending = {} THEN 0 ELSE Cardinality(Paths \ copied) + 1) + 3

\* _copy_library_chain: every step brings the import nearer to its end, so that no
\* circle of links and no number of libraries keeps it going (for LLVM, which
\* forgets between two libraries what it has copied, as for GCC).
ImportsEndSoon == [][ImportStep => ImportStepsLeft' < ImportStepsLeft]_importVars

\* An import comes to an end, also when the links of its prefix form a circle.
ImportEnds == (pc # "idle") ~> (pc = "idle")

ImportSpec == ImportInit /\ [][ImportNext]_importVars /\ WF_importVars(ImportStep)
==============================================================================
