-------------------------- MODULE MCManagedEvidence --------------------------
(* One GCC, one Clang with both runtimes and the libstdc++ of that GCC, a floor *)
(* that is spelled otherwise, and a Clang with two libstdc++; two floors, one   *)
(* below and one at the glibc that knows DT_RELR; a release of the program that *)
(* pins LLVM again and one that pins other build inputs.                        *)
EXTENDS ManagedEvidence, TLC

Release(family, version, sha512) == [family |-> family, version |-> version, sha512 |-> sha512]
Gccs == {Release("gcc", <<13, 3>>, "gcc13"), Release("gcc", <<12, 4>>, "gcc12")}
Glibcs == {<<2, 17>>, <<2, 36>>}
Program(llvm, pins) ==
  [catalog |-> Gccs \cup {Release("clang", <<18, 1>>, llvm)}, glibcs |-> Glibcs,
   pins |-> pins, scripts |-> "scripts"]
MCPrograms == <<Program("llvm", "pins"), Program("llvm-again", "pins"),
                Program("llvm-again", "other-pins")>>

System(arch, floor) == [arch |-> arch, floor |-> floor]
Old == System("x86_64", <<2, 17>>)
New == System("x86_64", <<2, 36>>)
Ask(host, targets, compiler) ==
  [platform |-> "x86_64", host |-> host, targets |-> targets, compilers |-> {compiler}]
Libstdcxx(gcc) == [kind |-> "libstdc++", gcc |-> gcc]
Libcxx == [kind |-> "libc++", gcc |-> None]
Gcc == [family |-> "gcc", versions |-> {<<13>>}, runtimes |-> {Libstdcxx(None)}]
Clang(runtimes) == [family |-> "clang", versions |-> {<<18>>}, runtimes |-> runtimes]
MCSpecs ==
  {Ask(Old, {Old}, Gcc), Ask(New, {Old, New}, Gcc),
   Ask(Old, {System("x86_64", <<2, 17, 0>>)}, Gcc),
   Ask(Old, {Old}, Clang({Libstdcxx(<<13>>), Libcxx})),
   Ask(Old, {Old}, Clang({Libstdcxx(<<13>>)})),
   Ask(Old, {Old}, Clang({Libstdcxx(<<12>>), Libstdcxx(<<13>>)}))}
MCHosts == {New}
MCSdkSpecs ==
  {[arch |-> "x86_64", floor |-> v, kernel |-> "default"] : v \in Glibcs}
    \cup {[arch |-> "x86_64", floor |-> <<2, 17>>, kernel |-> "newer"]}

File(dir, name, search, needed) ==
  [dir |-> dir, name |-> name, machine |-> "x86_64", class |-> "ELF64", type |-> "DYN",
   interpreter |-> None, needs |-> {Numeric("GLIBC", <<2, 17>>)}, search |-> search,
   needed |-> needed, soname |-> None, relr |-> FALSE]
Origin(dir) == [kind |-> "origin", dir |-> dir]
Driver == [File("bin", "gcc", {Origin("lib")}, {Library("libc", "plain"), Library("libown", "plain")})
             EXCEPT !.interpreter = Interpreter("x86_64")]
Own == File("lib", "libown", {}, {Library("libc", "plain")})
Shared == File("lib", "libcxx", {}, {Library("libc", "plain")})

\* What may be wrong with one file of a product.
Spoiled(f) ==
  {f, [f EXCEPT !.relr = TRUE], [f EXCEPT !.needs = @ \cup {AbiDtRelr}],
   [f EXCEPT !.needs = {Numeric("GLIBC", <<2, 36>>)}], [f EXCEPT !.needs = @ \cup {Private}],
   [f EXCEPT !.machine = "aarch64"], [f EXCEPT !.search = {[kind |-> "absolute", dir |-> None]}]}
\* Names a program may need besides; the audit of a runtime does not look at any.
Needing(f) ==
  {[f EXCEPT !.needed = @ \cup {n}] :
     n \in {Library("libabs", "absolute"), Library("libown", "relative"),
           Library("data", "plain"), Library("elsewhere", "plain")}}
MCSystemLibraries == {Library("libc", "plain")}

\* A way around to the library, a text among the libraries, and one that is elsewhere.
Around ==
  {Place("lib", Library("libown", "relative"), Own), Place("lib", Library("data", "plain"), None),
   Place("share", Library("elsewhere", "plain"), None)}

Product(payload, complete, files) ==
  [payload |-> payload, links |-> "inside", complete |-> complete, files |-> files,
   others |-> IF Own \in files THEN Around ELSE {}]
MCProducts ==
  {Product("compiler", TRUE, {f, Own}) : f \in Spoiled(Driver) \cup Needing(Driver)}
    \cup {Product("runtime", TRUE, {f}) : f \in Spoiled(Shared)}
    \cup {Product("compiler", TRUE, {Driver}), Product("runtime", FALSE, {Shared})}
=============================================================================
