------------------------------ MODULE ElfAudit ------------------------------
(***************************************************************************)
(* The three audits that decide whether ELF files run on a system of a      *)
(* given architecture and glibc: of the programs of a compiler kit or of    *)
(* build tools (host_artifact.py), of a managed runtime                     *)
(* (managed/artifacts.py), and of a user's files under a policy             *)
(* (elf/audit.py).                                                          *)
(*                                                                          *)
(* A file is what readelf reports of it: where it is, its machine, class,   *)
(* type and interpreter, the symbol versions it needs, its dynamic search   *)
(* path, the libraries it needs, its SONAME and whether it uses DT_RELR.    *)
(* RPATH and RUNPATH are one search path; byte order goes with the class.   *)
(*                                                                          *)
(* A product is its ELF files and the other places where a name may lead to *)
(* a regular file: below or beside which directory, by which name, and to   *)
(* which of its ELF files, None when that is something else.                *)
(***************************************************************************)
EXTENDS AbiVersions, FiniteSets

CONSTANTS
  SystemLibraries, \* the names that glibc's own libraries are needed by
  BuilderFiles     \* absolute library paths that exist where the audit runs

\* A needed symbol version: GLIBC_2.17 is [ns |-> "GLIBC", version |-> <<2, 17>>].
\* GLIBC_PRIVATE, GLIBC_ABI_DT_RELR and other names without a number have none.
Numeric(ns, version) == [ns |-> ns, version |-> version]
Named(ns) == [ns |-> ns, version |-> None]
Private == Named("GLIBC_PRIVATE")
AbiDtRelr == Named("GLIBC_ABI_DT_RELR")

\* A library name; "absolute" and "relative" ones contain a slash.
Library(name, path) == [name |-> name, path |-> path]

\* A place in a product, and all those that its files and the others make.
Place(dir, library, file) == [dir |-> dir, library |-> library, file |-> file]
Places(product) ==
  product.others \cup {Place(f.dir, Library(f.name, "plain"), f) : f \in product.files}

Interpreter(machine) ==
  IF machine = "x86_64" THEN "/lib64/ld-linux-x86-64.so.2"
  ELSE "/lib/ld-linux-aarch64.so.1"

-----------------------------------------------------------------------------
(* elf/compatibility.py: the glibc loader knows DT_RELR from 2.36 on.      *)

DtRelrMinimum == <<2, 36>>

DtRelrCompatible(f, floor) ==
  AtMost(DtRelrMinimum, floor) \/ (~f.relr /\ AbiDtRelr \notin f.needs)

-----------------------------------------------------------------------------
(* The audits of what is built.                                            *)

\* Every GLIBC version is numeric and at most the floor, and none is private;
\* GLIBC_ABI_DT_RELR is left to the check above.
VersionsAllowed(f, floor) ==
  \A n \in f.needs :
    /\ n # Private
    /\ n.ns = "GLIBC" => n.version # None /\ AtMost(n.version, floor)

\* The last version in order that the files need, for the record; None without one.
MaxRequired(files) ==
  LET needed == {n.version : n \in {m \in UNION {f.needs : f \in files} :
                                      m.ns = "GLIBC" /\ m.version # None}}
  IN IF needed = {} THEN None
     ELSE CHOOSE v \in needed : \A w \in needed : AtMost(w, v)

\* Mutant: a needed library is looked for in any directory.
MutFound(product, f, n) ==
  \/ n \in SystemLibraries
  \/ n.path = "absolute" /\ f.search # {} /\ n.name \in BuilderFiles
  \/ n.path # "absolute" /\ \E place \in Places(product) : place.library = n

\* A needed library is one of glibc, or joined to some directory of the search path
\* its name leads to a regular file, whatever that is.  A relative name may lead out of
\* the directory, and an absolute one is looked up where the audit runs.
Found(product, f, n) ==
  \/ n \in SystemLibraries
  \/ \E e \in f.search :
       IF n.path = "absolute" THEN n.name \in BuilderFiles
       ELSE \E place \in Places(product) : place.dir = e.dir /\ place.library = n

\* audit_host_artifact.
HostAuditPasses(product, machine, floor) ==
  /\ product.files # {}
  /\ \A f \in product.files :
       /\ f.machine = machine
       /\ f.interpreter \in {None, Interpreter(machine)}
       /\ DtRelrCompatible(f, floor)
       /\ \A e \in f.search : e.kind = "origin" /\ e.dir # None
       /\ \A n \in f.needed : Found(product, f, n)
       /\ VersionsAllowed(f, floor)

\* Mutant: the search path of a runtime is not looked at.
MutRuntimeAuditPasses(files, machine, floor) ==
  /\ \E f \in files : f.type = "DYN"
  /\ \A f \in files : /\ f.machine = machine
                      /\ DtRelrCompatible(f, floor)
                      /\ VersionsAllowed(f, floor)

\* _target_runtime_elf_audit.
RuntimeAuditPasses(files, machine, floor) ==
  /\ \E f \in files : f.type = "DYN"
  /\ \A f \in files :
       /\ f.machine = machine
       /\ f.search = {}
       /\ DtRelrCompatible(f, floor)
       /\ VersionsAllowed(f, floor)

-----------------------------------------------------------------------------
(* The policy audit.                                                       *)

Namespaces == {"GLIBC", "GLIBCXX", "CXXABI", "GCC"}

\* AuditPolicy: GLIBC_PRIVATE is forbidden whatever the policy says.
Policy(machine, limits, forbidden, interpreters) ==
  [machine |-> machine, class |-> "ELF64", limits |-> limits,
   forbidden |-> forbidden \cup {Private}, interpreters |-> interpreters]

\* AuditPolicy.for_glibc_floor.
PolicyForFloor(machine, floor) ==
  Policy(machine, [ns \in Namespaces |-> IF ns = "GLIBC" THEN floor ELSE None], {},
         {Interpreter(machine)})

Violation(code, condition) == IF condition THEN {code} ELSE {}

VersionViolations(f, p) ==
  LET old == Older(p.limits["GLIBC"], DtRelrMinimum)
      Above(ns) == \E n \in f.needs : /\ n.ns = ns /\ n.version # None
                                      /\ p.limits[ns] # None /\ Older(p.limits[ns], n.version)
  IN UNION {
       Violation("forbidden_version_required", f.needs \cap p.forbidden # {}),
       Violation("unknown_glibc_version_required",
                 \E n \in f.needs : n.ns = "GLIBC" /\ n.version = None),
       Violation("glibc_floor_exceeded", Above("GLIBC")),
       Violation("ceiling_exceeded", \E ns \in Namespaces \ {"GLIBC"} : Above(ns)),
       Violation("glibc_abi_dt_relr_unsupported",
                 old /\ AbiDtRelr \in f.needs \ p.forbidden),
       Violation("dt_relr_unsupported", old /\ f.relr)}

PathViolations(f) ==
  UNION {
    Violation("search_path", \E e \in f.search : e.kind \notin {"origin", "token"}),
    Violation("needed_path", \E n \in f.needed : n.path # "plain"),
    Violation("soname_path", f.soname # None /\ f.soname.path # "plain")}

\* _evaluate: the codes of what is wrong with a file.  $ORIGIN/$LIB starts with
\* $ORIGIN and passes here.  audit_paths skips relocatable objects.
Violations(f, p) ==
  UNION {
    Violation("machine_mismatch", f.machine # p.machine),
    Violation("class_mismatch", f.class # p.class),
    Violation("interpreter_not_allowed", f.interpreter \notin p.interpreters \cup {None}),
    VersionViolations(f, p), PathViolations(f)}

-----------------------------------------------------------------------------
(* What the audits are for.                                                *)

\* The loader of a system of this machine and glibc takes the file: every version it
\* needs exists there and is public.
Starts(f, machine, glibc) ==
  /\ f.machine = machine
  /\ f.interpreter \in {None, Interpreter(machine)}
  /\ \A n \in f.needs : n # Private /\ (n.ns = "GLIBC" =>
                          n.version # None /\ ~Older(glibc, n.version))
  /\ f.relr \/ AbiDtRelr \in f.needs => AtMost(DtRelrMinimum, glibc)

\* What the lookup of a name leads to, of the places of a product.
Leads(product, f, n) ==
  {place \in Places(product) : place.library = n /\ \E e \in f.search : place.dir = e.dir}

\* Its library is one of the system or comes with the artifact, wherever that is
\* installed.
Linked(product, f, n, machine) ==
  /\ n.path = "plain"
  /\ \/ n \in SystemLibraries
     \/ /\ \A e \in f.search : e.kind = "origin"
        /\ \E place \in Leads(product, f, n) : place.file # None /\ place.file.machine = machine
=============================================================================
