------------------------- MODULE MCManagedAssembly -------------------------
(* The GCC and Clang kits of one store and the requests that share them.    *)
EXTENDS AssemblyLoops

CONSTANTS gcc, clang, libstdcxx, libcxx

MCProvider == [r \in {libstdcxx, libcxx} |-> IF r = libstdcxx THEN gcc ELSE clang]

Selections ==
  {<<gcc, {libstdcxx}>>, <<clang, {libstdcxx}>>, <<clang, {libcxx}>>,
   <<clang, {libstdcxx, libcxx}>>}
Request(selection, rebuild, repair) ==
  [kit |-> selection[1], runtimes |-> selection[2], rebuild |-> rebuild, repair |-> repair]

\* `setup` with and without --force, and `managed assemble --rebuild`.
AllRequests ==
  {Request(s, FALSE, repair) : s \in Selections, repair \in BOOLEAN}
  \cup {Request(s, TRUE, FALSE) : s \in Selections}
Everywhere == Points \ {"idle"}

\* Two selections that share the Clang kit, without any flag.
PlainClang == {Request(<<clang, {r}>>, FALSE, FALSE) : r \in {libstdcxx, libcxx}}
AtTheEnd == {"finish_compiler"}
=============================================================================
