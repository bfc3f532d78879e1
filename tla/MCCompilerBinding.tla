------------------------- MODULE MCCompilerBinding -------------------------
(* A GCC and an LLVM prefix with each one of some deviations. *)
EXTENDS CompilerBinding

Elf(soname, glibc, needs) == [type |-> "elf", soname |-> soname, glibc |-> glibc, needs |-> needs]
Link(p) == [type |-> "link", to |-> p, absolute |-> FALSE]
Absolute(p) == [type |-> "link", to |-> p, absolute |-> TRUE]
Outside == [type |-> "outside"]
Foreign == [type |-> "foreign"]
Archive == [type |-> "archive"]
Thin == [type |-> "thin"]
Script(name) == [type |-> "script", names |-> name]
L(name) == <<"lib", name>>

MCPathOrder == <<
  L("libc++.a"), L("libc++.so"), L("libc++.so.1"), L("libc++.so.1.0"),
  L("libc++abi.a"), L("libc++abi.so"), L("libcrypto.so"), L("libgcc.a"),
  L("libgcc_s.so"), L("libgcc_s.so.1"),
  L("libstdc++.a"), L("libstdc++.so"), L("libstdc++.so.6"), L("libstdc++.so.6.0"),
  L("libunwind.a"), L("libunwind.so"), <<"lib64", "libunwind.so">> >>

GccEntries == {"libstdc++.a", "libstdc++.so", "libstdc++.so.6", "libgcc_s.so", "libgcc_s.so.1"}
LlvmNames == {"libc++.a", "libc++.so", "libc++.so.1", "libc++.so.1.0", "libc++abi.a",
              "libc++abi.so", "libunwind.a", "libunwind.so"}
MCLibraryNames == [k \in Kinds |-> IF k = "libstdc++" THEN GccEntries \cup {"libstdc++.so.6.0"} ELSE LlvmNames]
MCEntryNames == [k \in Kinds |-> IF k = "libstdc++" THEN GccEntries ELSE LlvmNames]
MCStaticNames == {"libstdc++.a", "libc++.a", "libc++abi.a", "libunwind.a"}
MCDriverNames == {"libgcc.a"}
MCComponent == [n \in GccEntries \cup LlvmNames \cup {"libstdc++.so.6.0", "libstdc++.so.7", "libgcc.a", "libcrypto.so"} |->
  CASE n \in {"libstdc++.a", "libstdc++.so", "libstdc++.so.6", "libstdc++.so.6.0", "libstdc++.so.7"} -> "libstdc++"
    [] n \in {"libgcc_s.so", "libgcc_s.so.1"} -> "libgcc_s"
    [] n \in {"libc++.a", "libc++.so", "libc++.so.1", "libc++.so.1.0"} -> "libc++"
    [] n \in {"libc++abi.a", "libc++abi.so"} -> "libc++abi"
    [] n \in {"libunwind.a", "libunwind.so"} -> "libunwind"
    [] n = "libgcc.a" -> "libgcc"
    [] n = "libcrypto.so" -> "libcrypto"]
MCSystemNames == {"libc.so.6"}
MCForbiddenNames == {"libgcc_s.so.1", "libstdc++.so.6"}

Gcc == [p \in Paths |->
  CASE p = L("libgcc.a") -> Archive
    [] p = L("libgcc_s.so") -> Script("libgcc_s.so.1")
    [] p = L("libgcc_s.so.1") -> Elf("libgcc_s.so.1", 1, {"libc.so.6"})
    [] p = L("libstdc++.a") -> Archive
    [] p = L("libstdc++.so") -> Link(L("libstdc++.so.6"))
    [] p = L("libstdc++.so.6") -> Link(L("libstdc++.so.6.0"))
    [] p = L("libstdc++.so.6.0") -> Elf("libstdc++.so.6", 1, {"libgcc_s.so.1"})
    [] p = L("libcrypto.so") -> Elf("libcrypto.so", 1, {})
    [] OTHER -> None]
GccDeviations == {
  <<L("libgcc.a"), None>>, <<L("libgcc_s.so"), Link(L("libgcc_s.so.1"))>>,
  <<L("libstdc++.a"), Thin>>,
  <<L("libstdc++.so"), Outside>>, <<L("libstdc++.so"), Absolute(L("libstdc++.so.6"))>>,
  <<L("libstdc++.so.6"), Link(L("libstdc++.so"))>>, <<L("libstdc++.so.6"), Link(L("libgcc_s.so.1"))>>,
  <<L("libstdc++.so.6"), Link(L("libcrypto.so"))>>,
  <<L("libstdc++.so.6.0"), Elf("libstdc++.so.6", 2, {})>>,
  <<L("libstdc++.so.6.0"), Elf("libstdc++.so.7", 1, {})>>, <<L("libstdc++.so.6.0"), Foreign>>}

Llvm == [p \in Paths |->
  CASE p \in {L("libc++.a"), L("libc++abi.a"), L("libunwind.a")} -> Archive
    [] p = L("libc++.so") -> Script("libc++.so.1")
    [] p = L("libc++.so.1") -> Link(L("libc++.so.1.0"))
    [] p = L("libc++.so.1.0") -> Elf("libc++.so.1", 1, {"libc++abi.so", "libc.so.6"})
    [] p = L("libc++abi.so") -> Elf("libc++abi.so", 1, {"libunwind.so"})
    [] p = L("libunwind.so") -> Elf("libunwind.so", 1, {"libc.so.6"})
    [] p = L("libgcc_s.so.1") -> Elf("libgcc_s.so.1", 1, {"libc.so.6"})
    [] OTHER -> None]
LlvmDeviations == {
  <<L("libc++.so"), Link(L("libc++.so.1"))>>, <<L("libc++.so"), Link(L("libc++abi.so"))>>,
  <<L("libc++.so.1"), Absolute(L("libc++.so.1.0"))>>, <<L("libc++.so.1"), Link(L("libc++.so"))>>,
  <<L("libc++.so.1.0"), Elf("libc++.so.1", 2, {})>>,
  <<L("libc++.so.1.0"), Elf("libc++.so.1", 1, {"libgcc_s.so.1"})>>,
  <<L("libc++.so.1.0"), Elf("libc++.so", 1, {})>>,
  <<L("libunwind.a"), None>>,
  <<<<"lib64", "libunwind.so">>, Elf("libunwind.so", 1, {})>>,
  <<<<"lib64", "libunwind.so">>, Link(L("libunwind.so"))>>}

\* Each deviation alone, two circles, and libraries that ask for a newer glibc
\* and are imported for it.
GccPairs == {[Gcc EXCEPT ![L("libstdc++.so.6")] = Link(L("libgcc_s.so.1")),
                         ![L("libgcc_s.so.1")] = Link(L("libstdc++.so.6"))]}
LlvmPairs == {[Llvm EXCEPT ![L("libc++.so")] = Link(L("libc++.so.1")),
                           ![L("libc++.so.1")] = Link(L("libc++.so"))]}
Import(prefixes, floor, version) ==
  {[prefix |-> x, floor |-> floor, version |-> version] : x \in prefixes}
MCImports == [k \in Kinds |->
  IF k = "libstdc++"
  THEN Import({Gcc} \cup {[Gcc EXCEPT ![d[1]] = d[2]] : d \in GccDeviations} \cup GccPairs, 1, 121)
       \cup Import({[Gcc EXCEPT ![L("libstdc++.so.6.0")] = Elf("libstdc++.so.6", 2, {})]}, 2, 121)
  ELSE Import({Llvm} \cup {[Llvm EXCEPT ![d[1]] = d[2]] : d \in LlvmDeviations} \cup LlvmPairs, 1, 171)
       \cup Import({Llvm}, 2, 171)]
MCTampering == {<<L("libstdc++.so.6.0"), Elf("libstdc++.so.6", 2, {})>>, <<L("libunwind.a"), None>>}
MCCompilers == {[family |-> "gcc", version |-> 122, managed |-> FALSE],
                [family |-> "clang", version |-> 171, managed |-> TRUE]}
=============================================================================
