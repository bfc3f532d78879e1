-------------------------- MODULE MCInstallPrefix --------------------------
(* Setups of one bundle, a generated installer and the launcher.             *)
EXTENDS InstallPrefix

CONSTANTS s1, s2, i1, l1

\* Two setups of one work directory, one with --force, an installer, a launcher.
\* The installer is of a bundle with other build tools, so that its selection is
\* another, and is run with --conan-cppstd: the last of its Conan files is another.
Shared == [p \in Procs |-> "dir"]
TwoSelections ==
  [p \in Makers |-> IF p \in Setups THEN "bundle" ELSE "bundle, older build tools"]
OneHome == [p \in Procs |-> "home"]
TwoConfigs ==
  [p \in Makers |->
     [f \in Files |-> IF p = i1 /\ f = FileCount THEN "with cppstd" ELSE "bundle file"]]
RunsEach == [p \in Procs |-> IF p \in Forced THEN 2 ELSE 1]

=============================================================================
