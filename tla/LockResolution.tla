--------------------------- MODULE LockResolution ---------------------------
(***************************************************************************)
(* From a managed specification to a lock (managed/models.py, catalog.py,   *)
(* lockfile.py, selection.py): what a specification may ask for, how its    *)
(* selectors resolve in the pinned catalog, which compiler kits, runtimes   *)
(* and variants the lock then holds, what a lock that is read must satisfy, *)
(* and what an identifier selects in it.                                    *)
(*                                                                          *)
(* Lists whose order and duplicates the code normalises are sets.  The      *)
(* identifier of an entry is spelled from its other fields and has to agree *)
(* with them, so the entry stands for its own identifier; a source          *)
(* identifier is <<family, version>>.                                       *)
(***************************************************************************)
EXTENDS AbiVersions, FiniteSets

Architectures == {"x86_64", "aarch64"}
Families == {"gcc", "clang"}
MinimumAarch64Glibc == <<2, 17>>
MinimumAarch64Gcc == <<10>>

-----------------------------------------------------------------------------
(* Specifications.                                                         *)

ValidTarget(t) ==
  /\ t.arch \in Architectures
  /\ t.arch = "aarch64" => AtMost(MinimumAarch64Glibc, t.floor)

\* GCC comes with its own libstdc++; Clang names the GCC of its libstdc++.
ValidCompiler(c) ==
  /\ c.family \in Families /\ c.versions # {} /\ c.runtimes # {}
  /\ \A r \in c.runtimes :
       /\ r.kind \in {"libstdc++", "libc++"}
       /\ r.kind = "libc++" => r.gcc = None
  /\ IF c.family = "gcc" THEN c.runtimes = {[kind |-> "libstdc++", gcc |-> None]}
     ELSE \A r \in c.runtimes : r.kind = "libstdc++" => r.gcc # None

\* The GCC versions a compiler entry names, by selector.
NamedGcc(c) ==
  (IF c.family = "gcc" THEN c.versions ELSE {}) \cup ({r.gcc : r \in c.runtimes} \ {None})

ValidSpec(s) ==
  /\ s.platform = s.host.arch /\ s.host.arch \in Architectures
  /\ s.targets # {} /\ s.compilers # {}
  /\ \A t \in s.targets : ValidTarget(t) /\ t.arch = s.host.arch
  /\ \A c, d \in s.compilers : c.family = d.family => c = d
  /\ \A c \in s.compilers :
       /\ ValidCompiler(c)
       /\ s.host.arch = "aarch64" =>
            \A v \in NamedGcc(c) : AtMost(MinimumAarch64Gcc, v)

-----------------------------------------------------------------------------
(* The catalog: [family, version, sha512] releases.                        *)

\* A single number selects the release of that major, if there is one only; any
\* other selector the release spelled so.  No release or several: it is refused.
Matches(catalog, family, selector) ==
  {r \in catalog : /\ r.family = family
                   /\ IF Len(selector) = 1 THEN Parse(r.version)[1] = selector[1]
                      ELSE r.version = selector}

Resolves(catalog, family, selector) ==
  Cardinality(Matches(catalog, family, selector)) = 1

ResolveRelease(catalog, family, selector) ==
  CHOOSE r \in Matches(catalog, family, selector) : TRUE

\* resolve_releases: all selectors resolve, to different releases.
ReleasesResolve(catalog, family, selectors) ==
  /\ \A v \in selectors : Resolves(catalog, family, v)
  /\ \A v, w \in selectors :
       ResolveRelease(catalog, family, v) = ResolveRelease(catalog, family, w) => v = w

SelectorsResolve(catalog, s) ==
  \A c \in s.compilers :
    /\ ReleasesResolve(catalog, c.family, c.versions)
    /\ \A r \in c.runtimes : r.gcc # None => Resolves(catalog, "gcc", r.gcc)

-----------------------------------------------------------------------------
(* Locks.                                                                  *)

SourceId(x) == <<x.family, x.version>>

KitOf(release, host, arch) ==
  [family |-> release.family, version |-> release.version, host |-> host, arch |-> arch]

RuntimeOf(provider, release, target) ==
  [provider |-> provider, version |-> release.version, target |-> target]

\* The family whose kit builds the runtimes of a provider.
ProviderFamily(r) == IF r.provider = "gcc" THEN "gcc" ELSE "clang"

\* The release and the provider of a C++ runtime of a compiler: the compiler's own
\* release, except for the libstdc++ of Clang.
RuntimeRelease(catalog, compiler, r) ==
  IF compiler.family = "clang" /\ r.kind = "libstdc++"
  THEN ResolveRelease(catalog, "gcc", r.gcc) ELSE compiler
RuntimeProvider(compiler, r) ==
  IF compiler.family = "gcc" \/ r.kind = "libstdc++" THEN "gcc" ELSE "llvm"

DefaultRuntime(runtimes) ==
  IF \E r \in runtimes : r.kind = "libstdc++" THEN "libstdc++" ELSE "libc++"

\* All <<compiler entry, release, target>> a specification asks for.
Selections(catalog, s) ==
  {x \in s.compilers \X catalog \X s.targets :
     \E v \in x[1].versions : x[2] = ResolveRelease(catalog, x[1].family, v)}

\* The releases a kit is needed of, with the target: the compilers themselves and
\* the providers of their runtimes.
Providers(catalog, s) ==
  UNION {{<<x[2], x[3]>>} \cup
           {<<RuntimeRelease(catalog, x[2], r), x[3]>> : r \in x[1].runtimes} :
         x \in Selections(catalog, s)}

VariantRuntimes(catalog, x) ==
  {[kind |-> r.kind,
    runtime |-> RuntimeOf(RuntimeProvider(x[2], r), RuntimeRelease(catalog, x[2], r), x[3])] :
   r \in x[1].runtimes}

Resolve(catalog, s) ==
  [spec |-> s, host |-> s.host, platform |-> s.platform,
   sources |-> {p[1] : p \in Providers(catalog, s)},
   kits |-> {KitOf(p[1], s.host, p[2].arch) : p \in Providers(catalog, s)},
   runtimes |-> UNION {{v.runtime : v \in VariantRuntimes(catalog, x)} :
                       x \in Selections(catalog, s)},
   variants |-> {LET v == VariantRuntimes(catalog, x)
                 IN [family |-> x[2].family, version |-> x[2].version, target |-> x[3],
                     kit |-> KitOf(x[2], s.host, x[3].arch), runtimes |-> v,
                     default |-> DefaultRuntime(v)] :
                 x \in Selections(catalog, s)}]

\* The kits that could build a runtime of a lock.
ProviderKits(lock, r) ==
  {k \in lock.kits : /\ k.family = ProviderFamily(r) /\ k.version = r.version
                     /\ k.host = lock.host /\ k.arch = r.target.arch}

\* VariantLock.validate and the references of a variant.
ValidVariant(lock, v) ==
  /\ ValidTarget(v.target) /\ v.runtimes # {}
  /\ \A x, y \in v.runtimes : x.kind = y.kind \/ x.runtime = y.runtime => x = y
  /\ \E x \in v.runtimes : x.kind = v.default
  /\ v.family = "gcc" => {x.kind : x \in v.runtimes} = {"libstdc++"}
  /\ v.kit \in lock.kits
  /\ <<v.kit.family, v.kit.version, v.kit.arch>> = <<v.family, v.version, v.target.arch>>
  /\ \A x \in v.runtimes :
       /\ x.runtime \in lock.runtimes /\ x.runtime.target = v.target
       /\ IF x.kind = "libstdc++"
          THEN /\ x.runtime.provider = "gcc"
               /\ v.family = "gcc" => x.runtime.version = v.version
          ELSE /\ v.family = "clang" /\ x.runtime.provider = "llvm"
               /\ x.runtime.version = v.version

ValidRuntime(lock, r) ==
  /\ ValidTarget(r.target)
  /\ \E x \in lock.sources : SourceId(x) = <<ProviderFamily(r), r.version>>
  /\ Cardinality(ProviderKits(lock, r)) = 1

\* ManagedLock.validate.  Nothing compares the entries with the specification or
\* the catalog the lock was resolved from.
ValidLock(lock) ==
  /\ ValidSpec(lock.spec)
  /\ lock.host = lock.spec.host /\ lock.platform = lock.spec.platform
  /\ {} \notin {lock.sources, lock.kits, lock.runtimes, lock.variants}
  /\ \A x, y \in lock.sources : SourceId(x) = SourceId(y) => x = y
  /\ \A k \in lock.kits :
       /\ {k.arch, k.host.arch} \subseteq Architectures
       /\ \E x \in lock.sources : SourceId(x) = SourceId(k)
  /\ \A r \in lock.runtimes : ValidRuntime(lock, r)
  /\ \A v \in lock.variants : ValidVariant(lock, v)

-----------------------------------------------------------------------------
(* select_artifact: what is built for an identifier of the lock.           *)

SourceOf(lock, id) == CHOOSE x \in lock.sources : SourceId(x) = id

SelectKit(lock, k) ==
  [kind |-> "compiler-kit", family |-> k.family, version |-> k.version,
   source |-> SourceOf(lock, SourceId(k)), platform |-> lock.platform,
   build_host |-> lock.host, host |-> k.host, arch |-> k.arch, floor |-> None,
   runtime_kind |-> None]

SelectRuntime(lock, r) ==
  [kind |-> "runtime", family |-> ProviderFamily(r), version |-> r.version,
   source |-> SourceOf(lock, <<ProviderFamily(r), r.version>>),
   platform |-> lock.platform, build_host |-> lock.host, host |-> None,
   arch |-> r.target.arch, floor |-> r.target.floor,
   runtime_kind |-> IF r.provider = "gcc" THEN "gcc-runtime" ELSE "llvm-runtime"]

Artifacts(lock) ==
  {SelectKit(lock, k) : k \in lock.kits} \cup {SelectRuntime(lock, r) : r \in lock.runtimes}
=============================================================================
