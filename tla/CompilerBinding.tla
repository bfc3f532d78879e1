--------------------------- MODULE CompilerBinding ---------------------------
(* `binding create` on the exports of RuntimeImport: the exports are loaded   *)
(* and validated, checked against compiler and SDK, turned into the flags of  *)
(* the cc and c++ wrappers, and the published binding is qualified by links   *)
(* with every runtime it offers (compiler/binding.py, runtime_binding.py).    *)
(* The compiler driver is external.                                          *)
EXTENDS RuntimeImport

CONSTANTS
  Sdks,       \* glibc versions of the SDKs
  Compilers,  \* records: family, version, managed
  Ambient     \* what LINUX_TOOLCHAIN_CXX_RUNTIME may be where it is created

ASSUME SdksAssumption == Sdks \subseteq Nat

VARIABLES
  bpc,      \* idle, planned, qualifying
  plan,     \* _BindingPlan: with the exports as they were loaded
  binding,  \* at the output: its runtimes, and whether it is qualified
  replaced  \* the binding set aside meanwhile

bindVars == <<bpc, plan, binding, replaced>>
vars == <<importVars, bindVars>>

NoPlan == [type |-> "no plan"]
NoBinding == [type |-> "no binding"]
Major(version) == version \div 10

BindInit == bpc = "idle" /\ plan = NoPlan /\ binding = NoBinding /\ replaced = NoBinding

TypeOK ==
  /\ ImportTypeOK
  /\ bpc \in {"idle", "planned", "qualifying"}
  /\ (plan = NoPlan) <=> (bpc = "idle")
  /\ (bpc = "qualifying") =>
       (binding.type = "binding" /\ ~binding.qualified /\ binding.kinds = plan.kinds)

------------------------------------------------------------------------------

\* _validate_runtime_compatibility
RuntimeFits(compiler, sdk, m) ==
  /\ m.floor <= sdk
  /\ IF m.kind = "libstdc++"
     THEN compiler.family = "gcc" =>
            /\ Major(m.version) = Major(compiler.version)
            /\ compiler.managed => m.version = compiler.version
     ELSE /\ compiler.family = "clang" /\ compiler.managed
          /\ m.version = compiler.version /\ m.floor = sdk

\* _validate_binding_compatibility, _runtime_wrapper_flags: GCC has its libstdc++.
SelectionFits(compiler, default, kinds) ==
  /\ default \in kinds
  /\ (compiler.family = "clang" /\ Cardinality(kinds) > 1) => default = "libstdc++"
  /\ compiler.family = "gcc" => "libstdc++" \in kinds

\* load_runtime_binding, _plan_binding.  _prepare_binding_output: a binding that
\* was never qualified has no binding.json and is not replaced, nor with --force.
Plan ==
  /\ bpc = "idle"
  /\ (binding.type = "binding") => binding.qualified
  /\ \E kinds \in SUBSET {k \in Kinds : IsValid(exports[k])} :
       \E compiler \in Compilers, sdk \in Sdks, default \in kinds, env \in Ambient :
         /\ SelectionFits(compiler, default, kinds)
         /\ \A k \in kinds : RuntimeFits(compiler, sdk, exports[k].manifest)
         /\ plan' = [type |-> "plan", kinds |-> kinds, default |-> default,
                     compiler |-> compiler, sdk |-> sdk, env |-> env,
                     loaded |-> [k \in kinds |-> exports[k]]]
  /\ bpc' = "planned"
  /\ UNCHANGED <<binding, replaced>>

------------------------------------------------------------------------------
(* Flags, wrapper and driver. *)

\* _runtime_wrapper_flags
Flags(x, cxx) ==
  LET onlyLlvm == x.compiler.family = "clang" /\ "libstdc++" \notin x.kinds IN
  [gcc |-> "libstdc++" \in x.kinds,          \* -B, --gcc-install-dir
   resource |-> "libc++" \in x.kinds,        \* -resource-dir
   stdlib |-> IF onlyLlvm /\ cxx THEN "libc++" ELSE "",
   rtlib |-> IF onlyLlvm THEN "compiler-rt" ELSE ""]

\* _wrapper_text: only the c++ wrapper of a binding with both runtimes looks at
\* LINUX_TOOLCHAIN_CXX_RUNTIME.
MutWrapper(x, cxx, env) ==
  IF cxx /\ x.kinds = Kinds /\ env = "libc++"
  THEN [Flags(x, cxx) EXCEPT !.stdlib = "libc++"] ELSE Flags(x, cxx)
Wrapper(x, cxx, env) ==
  IF cxx /\ x.kinds = Kinds /\ env = "libc++"
  THEN [Flags(x, cxx) EXCEPT !.stdlib = "libc++", !.rtlib = "compiler-rt"]
  ELSE Flags(x, cxx)

\* The driver: which runtime it links with, or the host's.
Linked(flags, cxx) ==
  LET bundled(k) == IF k = "libc++" THEN (IF flags.resource THEN k ELSE "host")
                    ELSE (IF flags.gcc THEN k ELSE "host")
      library == IF flags.stdlib = "libc++" THEN "libc++" ELSE "libstdc++"
      builtins == IF flags.rtlib = "compiler-rt" THEN "libc++" ELSE "libstdc++"
  IN {bundled(builtins)} \cup (IF cxx THEN {bundled(library)} ELSE {})

\* The link finds its libraries, shared and static, in the export.
Provides(k, x) ==
  /\ x.type = "export"
  /\ LET found == {p \in x.manifest.listed : Resolves(x.tree, p)} IN
     (IF k = "libc++" THEN {"libc++", "libunwind"} ELSE {"libstdc++"})
       \subseteq {Comp(p) : p \in Shared(found)} \cap {Comp(p) : p \in Static(found)}

\* _verify_linked_probe: one link, with the runtime it must select and no other.
LinkPasses(x, cxx, env, expected) ==
  Linked(Wrapper(x, cxx, env), cxx) = {expected}

\* _qualify_binding: the default links inherit the environment.
DefaultLinksPass(x) ==
  LinkPasses(x, FALSE, x.env, x.default) /\ LinkPasses(x, TRUE, x.env, x.default)
AlternateLinksPass(x) ==
  x.compiler.family = "clang" =>
    \A k \in x.kinds \ {x.default} : LinkPasses(x, TRUE, k, k)
MustProvide(x) == {x.default} \cup (IF x.compiler.family = "clang" THEN x.kinds ELSE {})
Qualifies(x) ==
  /\ \A k \in MustProvide(x) : Provides(k, exports[k])
  /\ DefaultLinksPass(x) /\ AlternateLinksPass(x)

------------------------------------------------------------------------------

\* _publish_binding: the exchange, before the qualification at the final path.
Publish ==
  /\ bpc = "planned"
  /\ binding' = [type |-> "binding", kinds |-> plan.kinds, qualified |-> FALSE]
  /\ replaced' = binding
  /\ bpc' = "qualifying"
  /\ UNCHANGED plan

LeaveBinding == bpc' = "idle" /\ plan' = NoPlan /\ replaced' = NoBinding

\* binding.json is written last.
Qualify ==
  /\ bpc = "qualifying" /\ Qualifies(plan)
  /\ binding' = [binding EXCEPT !.qualified = TRUE]
  /\ LeaveBinding

MutRollBack == bpc = "qualifying" /\ ~Qualifies(plan) /\ UNCHANGED binding /\ LeaveBinding
RollBack ==
  /\ bpc = "qualifying" /\ ~Qualifies(plan)
  /\ binding' = replaced
  /\ LeaveBinding

KillBinding == bpc # "idle" /\ Kill /\ UNCHANGED binding /\ LeaveBinding

BindStep == Publish \/ Qualify \/ RollBack
BindNext == Plan \/ BindStep

Init == ImportInit /\ BindInit
Next ==
  \/ ImportNext /\ UNCHANGED bindVars
  \/ BindNext /\ UNCHANGED importVars
  \/ KillBinding /\ UNCHANGED <<imports, pc, job, copyVars, manifest, exports, previous>>

\* An import at work goes on, whatever bindings do.
Fairness == WF_vars(UNCHANGED bindVars /\ ImportStep)
Spec == Init /\ [][Next]_vars /\ Fairness

------------------------------------------------------------------------------
(* Properties *)

\* A binding is only ever made from exports in which no shared library needs a
\* newer glibc than the SDK has, whatever became of an export since its import:
\* files changed, an import killed or still validating
\* (importer.validate_runtime_manifest: "repeats ELF inspection instead of
\* trusting the recorded symbol report").
LoadsNothingNewer ==
  [][(plan = NoPlan /\ plan' # NoPlan) => \A k \in plan'.kinds :
       LET x == exports[k] IN
       \A p \in Shared(x.manifest.listed) :
         x.tree[Follow(x.tree, p)].type = "elf" =>
           x.tree[Follow(x.tree, p)].glibc <= plan'.sdk]_vars

\* Flags, wrapper and probes agree: a plan whose exports have stayed as they
\* were loaded passes every link of its qualification, for each family and each
\* set of runtimes, unless LINUX_TOOLCHAIN_CXX_RUNTIME selects another runtime
\* than the default in the environment of the command itself (binding.py:2488:
\* the default links inherit it).
LoadedPlansQualify ==
  (/\ bpc = "qualifying"
   /\ \A k \in plan.kinds : exports[k] = plan.loaded[k]
   /\ plan.env \in {"", plan.default}) => Qualifies(plan)

\* Only a killed command leaves a binding without binding.json behind, which
\* no later command replaces (binding.py:1477): every failure, an export that is
\* withdrawn during the links included, puts the earlier binding back.
OnlyKillsStrand == (bpc = "idle" /\ binding.type = "binding" /\ ~binding.qualified) => kills > 0
==============================================================================
