------------------------ MODULE CompilerBindingProofs ------------------------
(***************************************************************************)
(* What a runtime import copies and a binding relies on, for any trees of    *)
(* files and links, any tampering with exports and any selections.           *)
(*                                                                           *)
(* Links are walked one hop at a time (Walk); a walk that reaches a file     *)
(* stays there, and one that meets none in as many hops as there are paths   *)
(* goes round in a circle.  This carries the proofs about names              *)
(* (FollowComponent) and about the copy, whose worklist holds what the       *)
(* copied links still lead to (CopyInv).  A binding is made from what was    *)
(* loaded, so the proofs about plans rest on what IsValid has checked        *)
(* (PlanAt), and not on the exports, which may have changed since.           *)
(* An import ends because each of its steps takes a path, a library or a     *)
(* point from those to come (ImportStepsLeft).                               *)
(***************************************************************************)
EXTENDS CompilerBinding, FiniteSetTheorems, TLAPS

\* What is known of a tree: its entries are what the inspection tells apart.
IsTree(tree) == \A p \in Paths : IsEntry(tree[p])

Length == Len(PathOrder)

-----------------------------------------------------------------------------
(* Hops along links, and where they end.                                    *)

\* Sets of natural numbers have a least element ...
LEMMA SetSmallest ==
  ASSUME NEW S, S \subseteq Nat, S # {}
  PROVE  \E m \in S : \A k \in S : m <= k
<1> DEFINE Less == OpToRel(<, Nat)
<1>1. IsWellFoundedOn(Less, Nat)
  BY NatLessThanWellFounded
<1>2. PICK m \in S : \A k \in S : <<k, m>> \notin Less
  <2> HIDE DEF Less
  <2> QED BY <1>1, WFMin
<1>3. ASSUME NEW k \in S, k < m PROVE <<k, m>> \in Less
  BY <1>3 DEF OpToRel
<1>4. ASSUME NEW k \in S PROVE m <= k
  <2>1. ~(k < m)
    BY <1>2, <1>3
  <2> QED BY <2>1
<1> QED BY <1>4

\* ... which is induction, for the set of the numbers that have a property.
LEMMA SetInduction ==
  ASSUME NEW T, 0 \in T, \A n \in Nat : n \in T => n + 1 \in T
  PROVE  Nat \subseteq T
<1>1. SUFFICES ASSUME Nat \ T # {} PROVE FALSE
  OBVIOUS
<1>2. PICK m \in Nat \ T : \A k \in Nat \ T : m <= k
  BY <1>1, SetSmallest
<1>3. m # 0 /\ m - 1 \in Nat /\ (m - 1) + 1 = m
  OBVIOUS
<1> QED BY <1>2, <1>3

LEMMA LengthIsNat == Length \in Nat
BY OrderAssumption DEF OrderAssumption, Length

\* A function that is what Walk says, for up to m hops.
IsWalk(w, tree, m) ==
  w = [n \in 0 .. m |->
        [q \in Paths |-> IF n = 0 \/ tree[q].type # "link" THEN q ELSE w[n - 1][tree[q].to]]]

LEMMA WalkExists ==
  ASSUME NEW tree, NEW m \in Nat
  PROVE  \E w : IsWalk(w, tree, m)
<1> DEFINE T == {n \in Nat : \E w : IsWalk(w, tree, n)}
           First == [n \in 0 .. 0 |-> [q \in Paths |-> q]]
<1>1. 0 \in T
  <2>1. IsWalk(First, tree, 0)
    BY DEF IsWalk
  <2> QED BY <2>1
<1>2. ASSUME NEW n \in Nat, n \in T PROVE n + 1 \in T
  <2>1. PICK w : IsWalk(w, tree, n)
    BY <1>2
  <2> DEFINE Body(v, i) ==
        [q \in Paths |-> IF i = 0 \/ tree[q].type # "link" THEN q ELSE v[i - 1][tree[q].to]]
             v == [i \in 0 .. n + 1 |-> IF i = n + 1 THEN Body(w, n + 1) ELSE w[i]]
  <2>2. \A i \in 0 .. n : w[i] = Body(w, i)
    BY <2>1 DEF IsWalk
  <2>3. \A i \in 0 .. n + 1 : v[i] = Body(v, i)
    <3> SUFFICES ASSUME NEW i \in 0 .. n + 1 PROVE v[i] = Body(v, i)
      OBVIOUS
    <3>1. i # 0 => v[i - 1] = w[i - 1]
      OBVIOUS
    <3>2. Body(w, i) = Body(v, i)
      BY <3>1
    <3>3. v[i] = Body(w, i)
      BY <2>2
    <3> QED BY <3>2, <3>3
  <2>4. v = [i \in 0 .. n + 1 |-> Body(v, i)]
    BY <2>3
  <2>5. IsWalk(v, tree, n + 1)
    BY <2>4 DEF IsWalk
  <2> QED BY <2>5
<1>3. Nat \subseteq T
  <2> HIDE DEF T
  <2> QED BY <1>1, <1>2, SetInduction
<1> QED BY <1>3

\* One hop more goes one link further from the beginning.
LEMMA WalkDef ==
  ASSUME NEW tree, NEW q \in Paths
  PROVE  /\ Walk(tree)[0][q] = q
         /\ \A n \in Nat : n + 1 <= Length =>
              Walk(tree)[n + 1][q] =
                IF tree[q].type # "link" THEN q ELSE Walk(tree)[n][tree[q].to]
<1>1. \E w : IsWalk(w, tree, Length)
  BY LengthIsNat, WalkExists
<1>2. IsWalk(Walk(tree), tree, Length)
  BY <1>1 DEF Walk, IsWalk, Length
<1>3. ASSUME NEW w, IsWalk(w, tree, Length)
      PROVE  /\ w[0][q] = q
             /\ \A n \in Nat : n + 1 <= Length =>
                  w[n + 1][q] = IF tree[q].type # "link" THEN q ELSE w[n][tree[q].to]
  <2>1. \A i \in 0 .. Length :
          w[i] = [p \in Paths |-> IF i = 0 \/ tree[p].type # "link" THEN p ELSE w[i - 1][tree[p].to]]
    BY <1>3, Zenon DEF IsWalk
  <2>2. ASSUME NEW i \in 0 .. Length
        PROVE  w[i][q] = IF i = 0 \/ tree[q].type # "link" THEN q ELSE w[i - 1][tree[q].to]
    <3> DEFINE Body == [p \in Paths |->
                          IF i = 0 \/ tree[p].type # "link" THEN p ELSE w[i - 1][tree[p].to]]
    <3>1. w[i] = Body
      BY <2>1
    <3>2. Body[q] = IF i = 0 \/ tree[q].type # "link" THEN q ELSE w[i - 1][tree[q].to]
      OBVIOUS
    <3> QED BY <3>1, <3>2, Zenon
  <2>3. w[0][q] = q
    BY <2>2, LengthIsNat
  <2>4. ASSUME NEW n \in Nat, n + 1 <= Length
        PROVE  w[n + 1][q] = IF tree[q].type # "link" THEN q ELSE w[n][tree[q].to]
    <3>1. n + 1 \in 0 .. Length /\ n + 1 # 0 /\ (n + 1) - 1 = n
      BY <2>4, LengthIsNat
    <3> QED BY <2>2, <3>1
  <2> QED BY <2>3, <2>4
<1> QED BY <1>2, <1>3

\* Hops stay among the paths ...
LEMMA WalkStays ==
  ASSUME NEW tree, IsTree(tree), NEW n \in 0 .. Length, NEW q \in Paths
  PROVE  Walk(tree)[n][q] \in Paths
<1> DEFINE T == {i \in Nat : i <= Length => \A p \in Paths : Walk(tree)[i][p] \in Paths}
<1>1. 0 \in T
  BY LengthIsNat, WalkDef
<1>2. ASSUME NEW i \in Nat, i \in T PROVE i + 1 \in T
  <2> SUFFICES ASSUME i + 1 <= Length, NEW p \in Paths PROVE Walk(tree)[i + 1][p] \in Paths
    OBVIOUS
  <2>1. i <= Length
    BY LengthIsNat
  <2>2. tree[p].type = "link" => tree[p].to \in Paths
    BY DEF IsTree, IsEntry
  <2> QED BY <1>2, <2>1, <2>2, WalkDef
<1>3. Nat \subseteq T
  <2> HIDE DEF T
  <2> QED BY <1>1, <1>2, SetInduction
<1> QED BY <1>3, LengthIsNat

LEMMA FollowStays ==
  ASSUME NEW tree, IsTree(tree), NEW q \in Paths
  PROVE  Follow(tree, q) \in Paths
BY WalkStays, LengthIsNat DEF Follow, Length

\* ... and one more hop at the end is one more link.
LEMMA WalkOn ==
  ASSUME NEW tree, IsTree(tree), NEW n \in Nat, n + 1 <= Length, NEW q \in Paths
  PROVE  LET here == Walk(tree)[n][q] IN
         Walk(tree)[n + 1][q] = IF tree[here].type # "link" THEN here ELSE tree[here].to
<1> DEFINE On(i, p) == LET here == Walk(tree)[i][p] IN
                       Walk(tree)[i + 1][p] = IF tree[here].type # "link" THEN here ELSE tree[here].to
           T == {i \in Nat : i + 1 <= Length => \A p \in Paths : On(i, p)}
<1>1. 0 \in T
  <2> SUFFICES ASSUME 1 <= Length, NEW p \in Paths PROVE On(0, p)
    OBVIOUS
  <2>1. Walk(tree)[0][p] = p
    BY WalkDef
  <2>2. Walk(tree)[0 + 1][p] = IF tree[p].type # "link" THEN p ELSE Walk(tree)[0][tree[p].to]
    BY WalkDef
  <2>3. tree[p].type = "link" => Walk(tree)[0][tree[p].to] = tree[p].to
    BY WalkDef DEF IsTree, IsEntry
  <2> QED BY <2>1, <2>2, <2>3
<1>2. ASSUME NEW i \in Nat, i \in T PROVE i + 1 \in T
  <2> SUFFICES ASSUME (i + 1) + 1 <= Length, NEW p \in Paths PROVE On(i + 1, p)
    OBVIOUS
  <2>1. i + 1 <= Length
    BY LengthIsNat
  <2>2. /\ Walk(tree)[i + 1][p] = IF tree[p].type # "link" THEN p ELSE Walk(tree)[i][tree[p].to]
        /\ Walk(tree)[(i + 1) + 1][p] =
             IF tree[p].type # "link" THEN p ELSE Walk(tree)[i + 1][tree[p].to]
    BY <2>1, WalkDef
  <2>3. tree[p].type = "link" => On(i, tree[p].to)
    BY <1>2, <2>1 DEF IsTree, IsEntry
  <2> QED BY <2>1, <2>2, <2>3
<1>3. Nat \subseteq T
  <2> HIDE DEF T
  <2> QED BY <1>1, <1>2, SetInduction
<1> QED BY <1>3

\* A path that is no link leads to itself.
LEMMA FollowFile ==
  ASSUME NEW tree, NEW q \in Paths, tree[q].type # "link"
  PROVE  Follow(tree, q) = q
<1>1. Walk(tree)[Length][q] = q
  <2>1. CASE Length = 0
    BY <2>1, WalkDef
  <2>2. CASE Length # 0
    <3>1. Length - 1 \in Nat /\ (Length - 1) + 1 = Length
      BY <2>2, LengthIsNat
    <3> QED BY <3>1, WalkDef
  <2> QED BY <2>1, <2>2
<1> QED BY <1>1 DEF Follow, Length

\* Links within one component end in it.
LEMMA FollowComponent ==
  ASSUME NEW tree, IsTree(tree), NEW q \in Paths,
         \A p \in Paths : tree[p].type = "link" => Comp(tree[p].to) = Comp(p)
  PROVE  Comp(Follow(tree, q)) = Comp(q)
<1> DEFINE T == {i \in Nat : i <= Length => \A p \in Paths : Comp(Walk(tree)[i][p]) = Comp(p)}
<1>1. 0 \in T
  BY LengthIsNat, WalkDef
<1>2. ASSUME NEW i \in Nat, i \in T PROVE i + 1 \in T
  <2> SUFFICES ASSUME i + 1 <= Length, NEW p \in Paths PROVE Comp(Walk(tree)[i + 1][p]) = Comp(p)
    OBVIOUS
  <2>1. i <= Length
    BY LengthIsNat
  <2>2. tree[p].type = "link" => (tree[p].to \in Paths /\ Comp(tree[p].to) = Comp(p))
    BY DEF IsTree, IsEntry
  <2> QED BY <1>2, <2>1, <2>2, WalkDef
<1>3. Nat \subseteq T
  <2> HIDE DEF T
  <2> QED BY <1>1, <1>2, SetInduction
<1>4. \A p \in Paths : Comp(Walk(tree)[Length][p]) = Comp(p)
  BY <1>3, LengthIsNat
<1> QED BY <1>4 DEF Follow, Length

-----------------------------------------------------------------------------
(* Types.                                                                   *)

JobAt ==
  (pc # "idle") =>
    (job.kind \in Kinds /\ job.floor \in Nat /\ \A p \in Paths : IsEntry(job.prefix[p]))

\* What is recorded of a copy, and what an export is.
IsManifest(k, m) ==
  /\ m.kind = k /\ m.floor \in Nat /\ m.listed \subseteq Paths
  /\ HasRequired(k, m.listed)
IsExport(k, x) ==
  \/ x = NoExport
  \/ /\ x = [type |-> "export", tree |-> x.tree, manifest |-> x.manifest]
     /\ IsTree(x.tree) /\ DOMAIN x.tree = Paths
     /\ IsManifest(k, x.manifest)

ExportsAt ==
  /\ IsTree(staging)
  /\ \A k \in Kinds : IsExport(k, exports[k])
  /\ (pc \in {"staged", "validating"}) => IsManifest(job.kind, manifest)
  /\ (pc = "validating") =>
       /\ IsExport(job.kind, previous)
       /\ exports[job.kind] = [type |-> "export", tree |-> staging, manifest |-> manifest]

TypeInv == TypeOK /\ JobAt /\ ExportsAt

ImportInv == ImportTypeOK /\ JobAt /\ ExportsAt

\* What stands for no value is told by its type.
LEMMA Nothing ==
  /\ NoJob.type = "no job" /\ NoManifest.type = "no manifest" /\ NoExport.type = "no export"
  /\ NoPlan.type = "no plan" /\ NoBinding.type = "no binding" /\ None.type = "none"
BY DEF NoJob, NoManifest, NoExport, NoPlan, NoBinding, None

LEMMA Few == Cardinality({}) <= 1 /\ \A x : Cardinality({x}) <= 1
BY FS_EmptySet, FS_Singleton

LEMMA TwoIsMany == 2 > 1
OBVIOUS

LEMMA Pair ==
  ASSUME NEW a, NEW b, a # b
  PROVE  Cardinality({a, b}) = 2
<1>1. IsFiniteSet({a}) /\ Cardinality({a}) = 1
  BY FS_Singleton
<1>2. {a, b} = {a} \cup {b} /\ b \notin {a}
  OBVIOUS
<1> DEFINE S == {a}
<1> HIDE DEF S
<1>3. Cardinality(S \cup {b}) = IF b \in S THEN Cardinality(S) ELSE Cardinality(S) + 1
  BY <1>1, FS_AddElement DEF S
<1> QED BY <1>1, <1>2, <1>3 DEF S

LEMMA FirstSource ==
  ASSUME NEW S, S \subseteq Paths, S # {}
  PROVE  LET i == CHOOSE i \in DOMAIN PathOrder :
                    PathOrder[i] \in S /\ \A j \in 1 .. i - 1 : PathOrder[j] \notin S
         IN PathOrder[i] \in S
<1> DEFINE N == {i \in DOMAIN PathOrder : PathOrder[i] \in S}
<1>1. DOMAIN PathOrder = 1 .. Length /\ Length \in Nat
  BY OrderAssumption DEF OrderAssumption, Length
<1>2. N \subseteq Nat /\ N # {}
  BY <1>1 DEF Paths
<1>3. PICK m \in N : \A k \in N : m <= k
  <2> HIDE DEF N
  <2> QED BY <1>2, SetSmallest
<1>4. \A j \in 1 .. m - 1 : PathOrder[j] \notin S
  BY <1>1, <1>3
<1> QED BY <1>3, <1>4

LEMMA InitImportInv == ImportInit => ImportInv
<1> SUFFICES ASSUME ImportInit PROVE ImportInv
  OBVIOUS
<1>1. ImportTypeOK
  <2>1. 0 \in 0 .. MaxImports /\ 0 \in 0 .. MaxKills
    BY BoundsAssumption DEF BoundsAssumption
  <2> QED BY <2>1, Few DEF ImportInit, ImportTypeOK, NoTree
<1>2. JobAt /\ ExportsAt
  BY DEF ImportInit, JobAt, ExportsAt, IsTree, IsEntry, NoTree, None, IsExport
<1> QED BY <1>1, <1>2 DEF ImportInv

LEMMA GiveUpInv ==
  ASSUME ImportInv, GiveUp, imports' = imports, kills' \in 0 .. MaxKills,
         DOMAIN exports' = Kinds, \A k \in Kinds : IsExport(k, exports'[k])
  PROVE  ImportInv'
<1>1. ImportTypeOK'
  BY Few DEF GiveUp, ImportInv, ImportTypeOK, NoTree
<1>2. JobAt' /\ ExportsAt'
  BY DEF GiveUp, ImportInv, JobAt, ExportsAt, IsTree, IsEntry, NoTree, None, IsExport
<1> QED BY <1>1, <1>2 DEF ImportInv

\* Where a link of the prefix is followed to.
LEMMA TargetStays ==
  ASSUME ImportInv, pc = "copying", NEW p \in Paths, MayFollow(p)
  PROVE  LinkTarget(p) \in Paths
<1>1. job.prefix[p].type = "link" /\ IsTree(job.prefix)
  BY DEF ImportInv, JobAt, MayFollow, IsTree
<1>2. job.prefix[p].to \in Paths
  BY <1>1 DEF IsTree, IsEntry
<1> QED BY <1>1, <1>2, FollowStays DEF LinkTarget

LEMMA ImportSteps ==
  ASSUME ImportInv, ImportNext
  PROVE  ImportInv'
<1>t. ImportTypeOK /\ JobAt /\ ExportsAt
  BY DEF ImportInv
<1>1. CASE BeginImport
  <2>k. PICK k \in Kinds : \E i \in Imports[k] :
          /\ job' = [type |-> "import", kind |-> k, prefix |-> i.prefix,
                      floor |-> i.floor, version |-> i.version]
          /\ sources' = Sources(k, i.prefix)
          /\ staging' = [p \in Paths |-> IF k = "libstdc++" /\ p \in DriverFiles(i.prefix)
                                          THEN i.prefix[p] ELSE None]
    BY <1>1 DEF BeginImport
  <2>1. PICK i \in Imports[k] :
          /\ job' = [type |-> "import", kind |-> k, prefix |-> i.prefix,
                      floor |-> i.floor, version |-> i.version]
          /\ sources' = Sources(k, i.prefix)
          /\ staging' = [p \in Paths |-> IF k = "libstdc++" /\ p \in DriverFiles(i.prefix)
                                          THEN i.prefix[p] ELSE None]
    BY <2>k
  <2>2. i.floor \in Nat /\ \A p \in Paths : IsEntry(i.prefix[p])
    BY ImportsAssumption DEF ImportsAssumption
  <2>3. /\ imports' \in 0 .. MaxImports /\ pc' = "copying" /\ pending' = {} /\ copied' = {}
        /\ UNCHANGED <<kills, manifest, exports, previous>> /\ pc = "idle"
    BY <1>1, <1>t, BoundsAssumption DEF BeginImport, ImportTypeOK, BoundsAssumption
  <2>4. job' # NoJob /\ sources' \subseteq Paths /\ DOMAIN staging' = Paths
    BY <2>1 DEF NoJob, Sources
  <2>5. ImportTypeOK'
    BY <1>t, <2>3, <2>4, Few DEF ImportTypeOK
  <2>6. JobAt' /\ ExportsAt'
    BY <1>t, <2>1, <2>2, <2>3 DEF JobAt, ExportsAt, IsTree, IsEntry, None
  <2> QED BY <2>5, <2>6 DEF ImportInv
<1>2. CASE NextSource
  <2> DEFINE i == CHOOSE i \in DOMAIN PathOrder :
                    PathOrder[i] \in sources /\ \A j \in 1 .. i - 1 : PathOrder[j] \notin sources
  <2>1. PathOrder[i] \in sources /\ sources \subseteq Paths
    BY <1>2, <1>t, FirstSource DEF NextSource, ImportTypeOK
  <2>2. /\ pc = "copying" /\ pending' = {PathOrder[i]} /\ sources' = sources \ {PathOrder[i]}
        /\ copied' \in {{}, copied}
        /\ UNCHANGED <<imports, kills, pc, job, staging, manifest, exports, previous>>
    BY <1>2 DEF NextSource
  <2> HIDE DEF i
  <2>3. ImportTypeOK'
    BY <1>t, <2>1, <2>2, Few DEF ImportTypeOK
  <2>4. JobAt' /\ ExportsAt'
    BY <1>t, <2>2 DEF JobAt, ExportsAt
  <2> QED BY <2>3, <2>4 DEF ImportInv
<1>3. CASE CopyEntry
  <2>1. PICK p \in pending :
          \/ /\ Visited(p) /\ pending' = {} /\ UNCHANGED <<staging, copied>>
          \/ /\ ~Visited(p) /\ (CopyLink(p) \/ CopyFile(p)) /\ copied' = copied \cup {p}
    BY <1>3 DEF CopyEntry
  <2>2. /\ pc = "copying" /\ p \in Paths
        /\ UNCHANGED <<imports, kills, pc, job, sources, manifest, exports, previous>>
    BY <1>3, <1>t DEF CopyEntry, ImportTypeOK
  <2>3. /\ pending' \subseteq Paths /\ Cardinality(pending') <= 1 /\ copied' \subseteq Paths
        /\ IsTree(staging') /\ DOMAIN staging' = Paths
    <3>1. CASE Visited(p) /\ pending' = {} /\ UNCHANGED <<staging, copied>>
      BY <3>1, <1>t, Few DEF ImportTypeOK, ExportsAt
    <3>2. CASE CopyLink(p) /\ copied' = copied \cup {p}
      <4>1. LinkTarget(p) \in Paths
        BY <3>2, <2>2, TargetStays DEF CopyLink
      <4>2. IsEntry([type |-> "link", to |-> LinkTarget(p), absolute |-> FALSE])
        BY <4>1 DEF IsEntry
      <4> QED BY <3>2, <2>2, <4>1, <4>2, <1>t, Few DEF CopyLink, ImportTypeOK, ExportsAt, IsTree
    <3>3. CASE CopyFile(p) /\ copied' = copied \cup {p}
      <4>1. IsEntry(job.prefix[p])
        BY <2>2, <1>t DEF JobAt
      <4> QED BY <3>3, <2>2, <4>1, <1>t, Few DEF CopyFile, ImportTypeOK, ExportsAt, IsTree
    <3> QED BY <2>1, <3>1, <3>2, <3>3
  <2>4. ImportTypeOK'
    BY <1>t, <2>2, <2>3 DEF ImportTypeOK
  <2>5. JobAt' /\ ExportsAt'
    BY <1>t, <2>2, <2>3 DEF JobAt, ExportsAt
  <2> QED BY <2>4, <2>5 DEF ImportInv
<1>4. CASE RefuseEntry \/ RefuseCopy
  BY <1>4, <1>t, GiveUpInv DEF RefuseEntry, RefuseCopy, ImportTypeOK, ExportsAt
<1>5. CASE Record
  <2>1. /\ pc = "copying" /\ pc' = "staged" /\ manifest' = Recorded(job.kind, staging, job.floor, job.version)
        /\ MayBeRecorded(job.kind, staging, job.floor)
        /\ UNCHANGED <<imports, kills, job, copyVars, exports, previous>>
    BY <1>5 DEF Record, CopyIsDone
  <2>2. IsManifest(job.kind, manifest')
    BY <2>1, <1>t DEF IsManifest, Recorded, MayBeRecorded, Listed, Libraries, DriverFiles, JobAt
  <2>3. ImportTypeOK'
    BY <1>t, <2>1 DEF ImportTypeOK, copyVars
  <2>4. JobAt' /\ ExportsAt'
    BY <1>t, <2>1, <2>2 DEF JobAt, ExportsAt, copyVars
  <2> QED BY <2>3, <2>4 DEF ImportInv
<1>6. CASE Exchange
  <2> DEFINE x == [type |-> "export", tree |-> staging, manifest |-> manifest]
  <2>1. /\ pc = "staged" /\ pc' = "validating" /\ previous' = exports[job.kind]
        /\ exports' = [exports EXCEPT ![job.kind] = x]
        /\ UNCHANGED <<imports, kills, job, copyVars, manifest>>
    BY <1>6 DEF Exchange
  <2>2. IsExport(job.kind, x)
    BY <1>t, <2>1 DEF IsExport, ExportsAt, ImportTypeOK
  <2>3. job.kind \in Kinds /\ DOMAIN exports = Kinds
    BY <1>t, <2>1 DEF JobAt, ImportTypeOK
  <2>4. DOMAIN exports' = Kinds /\ exports'[job.kind] = x /\ \A k \in Kinds \ {job.kind} : exports'[k] = exports[k]
    BY <2>1, <2>3
  <2>5. ImportTypeOK'
    BY <1>t, <2>1, <2>4 DEF ImportTypeOK, copyVars
  <2> HIDE DEF x
  <2>6. JobAt' /\ \A k \in Kinds : IsExport(k, exports'[k])
    BY <1>t, <2>1, <2>2, <2>4 DEF JobAt, ExportsAt
  <2>7. ExportsAt'
    BY <1>t, <2>1, <2>2, <2>3, <2>4, <2>6 DEF ExportsAt, copyVars, x
  <2> QED BY <2>5, <2>6, <2>7 DEF ImportInv
<1>7. CASE Settle
  <2>1. /\ GiveUp /\ UNCHANGED <<imports, kills>> /\ pc = "validating"
        /\ \E x \in {exports[job.kind], previous} : exports' = [exports EXCEPT ![job.kind] = x]
    BY <1>7 DEF Settle
  <2>2. job.kind \in Kinds /\ DOMAIN exports = Kinds /\ IsExport(job.kind, previous)
        /\ \A k \in Kinds : IsExport(k, exports[k])
    BY <1>t, <2>1 DEF JobAt, ImportTypeOK, ExportsAt
  <2>3. DOMAIN exports' = Kinds /\ \A k \in Kinds : IsExport(k, exports'[k])
    BY <2>1, <2>2
  <2> QED BY <1>t, <2>1, <2>3, GiveUpInv DEF ImportTypeOK
<1>8. CASE KillImport
  <2>1. /\ GiveUp /\ UNCHANGED <<imports, exports>> /\ kills' \in 0 .. MaxKills
    BY <1>8, <1>t, BoundsAssumption DEF KillImport, Kill, ImportTypeOK, BoundsAssumption
  <2> QED BY <1>t, <2>1, GiveUpInv DEF ImportTypeOK, ExportsAt
<1>9. CASE Tamper
  <2>1. PICK k \in Kinds, t \in Tampering :
          /\ exports[k].type = "export"
          /\ exports' = [exports EXCEPT ![k].tree[t[1]] = t[2]]
    BY <1>9 DEF Tamper
  <2>2. /\ pc = "idle" /\ UNCHANGED <<imports, kills, pc, job, copyVars, manifest, previous>>
    BY <1>9 DEF Tamper
  <2>3. t[1] \in Paths /\ IsEntry(t[2])
    BY TamperingAssumption DEF TamperingAssumption
  <2> DEFINE x == exports[k]  tree == [x.tree EXCEPT ![t[1]] = t[2]]
             y == [type |-> "export", tree |-> tree, manifest |-> x.manifest]
  <2>4. /\ x = [type |-> "export", tree |-> x.tree, manifest |-> x.manifest]
        /\ IsTree(x.tree) /\ DOMAIN x.tree = Paths /\ IsManifest(k, x.manifest)
    <3>1. IsExport(k, x)
      BY <1>t DEF ExportsAt
    <3>2. x # NoExport
      <4>1. exports[k].type = "export"
        BY <2>1, Zenon
      <4> QED BY <4>1, Nothing
    <3> HIDE DEF x
    <3> QED BY <3>1, <3>2 DEF IsExport
  <2>5. IsTree(tree) /\ DOMAIN tree = Paths
    BY <2>3, <2>4 DEF IsTree
  <2>6. exports' = [exports EXCEPT ![k] = y]
    <3>1. exports' = [exports EXCEPT ![k] = [exports[k] EXCEPT !.tree = [exports[k].tree EXCEPT ![t[1]] = t[2]]]]
      BY <2>1
    <3>2. [x EXCEPT !.tree = tree] = y
      <4> HIDE DEF x, tree
      <4> QED BY <2>4 DEF y
    <3> QED BY <3>1, <3>2
  <2>7. IsExport(k, y)
    BY <2>4, <2>5 DEF IsExport
  <2> HIDE DEF y
  <2>8. DOMAIN exports' = Kinds /\ \A l \in Kinds : IsExport(l, exports'[l])
    BY <1>t, <2>6, <2>7 DEF ImportTypeOK, ExportsAt
  <2>9. ImportTypeOK'
    BY <1>t, <2>2, <2>8 DEF ImportTypeOK, copyVars
  <2> QED BY <1>t, <2>2, <2>8, <2>9 DEF ImportInv, JobAt, ExportsAt, copyVars
<1> QED BY <1>1, <1>2, <1>3, <1>4, <1>5, <1>6, <1>7, <1>8, <1>9 DEF ImportNext, ImportStep

LEMMA NextTypeInv == TypeInv /\ [Next]_vars => TypeInv'
<1> SUFFICES ASSUME TypeInv, [Next]_vars PROVE TypeInv'
  OBVIOUS
<1>t. ImportInv /\ TypeOK
  BY DEF TypeInv, TypeOK, ImportInv
<1>1. CASE ImportNext /\ UNCHANGED bindVars
  BY <1>1, <1>t, ImportSteps DEF ImportInv, TypeInv, TypeOK, bindVars
<1>2. ASSUME UNCHANGED importVars PROVE ImportInv'
  BY <1>2, <1>t DEF importVars, copyVars, ImportInv, ImportTypeOK, JobAt, ExportsAt
<1>3. CASE BindNext /\ UNCHANGED importVars
  <2>1. /\ bpc' \in {"idle", "planned", "qualifying"}
        /\ (plan' = NoPlan) <=> (bpc' = "idle")
        /\ (bpc' = "qualifying") =>
             (binding'.type = "binding" /\ ~binding'.qualified /\ binding'.kinds = plan'.kinds)
    <3>1. CASE Plan
      <4>1. PICK kinds, compiler, sdk, default, env, loaded :
              plan' = [type |-> "plan", kinds |-> kinds, default |-> default,
                       compiler |-> compiler, sdk |-> sdk, env |-> env, loaded |-> loaded]
        BY <3>1, Zenon DEF Plan
      <4>2. plan'.type = "plan"
        BY <4>1
      <4>3. bpc' = "planned"
        BY <3>1 DEF Plan
      <4> QED BY <4>2, <4>3, Nothing
    <3>2. CASE Publish
      BY <3>2, <1>t DEF Publish, TypeOK
    <3>3. CASE Qualify \/ RollBack
      BY <3>3 DEF Qualify, RollBack, LeaveBinding
    <3> QED BY <1>3, <3>1, <3>2, <3>3 DEF BindNext, BindStep
  <2> QED BY <1>2, <1>3, <2>1 DEF TypeInv, TypeOK, ImportInv
<1>4. CASE KillBinding /\ UNCHANGED <<imports, pc, job, copyVars, manifest, exports, previous>>
  <2>1. kills' \in 0 .. MaxKills
    BY <1>4, <1>t, BoundsAssumption DEF KillBinding, Kill, ImportInv, ImportTypeOK, BoundsAssumption
  <2>2. ImportInv'
    BY <1>4, <1>t, <2>1 DEF copyVars, ImportInv, ImportTypeOK, JobAt, ExportsAt
  <2> QED BY <1>4, <2>2 DEF TypeInv, TypeOK, ImportInv, KillBinding, LeaveBinding
<1>5. CASE UNCHANGED vars
  BY <1>5, <1>2, <1>t DEF vars, bindVars, TypeInv, TypeOK, ImportInv
<1> QED BY <1>1, <1>3, <1>4, <1>5 DEF Next

LEMMA InitTypeInv == Init => TypeInv
BY InitImportInv DEF Init, BindInit, TypeInv, TypeOK, ImportInv, NoPlan

\* Every variable keeps to its type, and an import to its worklist of one.
THEOREM TypeCorrect == Spec => []TypeOK
<1>1. TypeInv => TypeOK
  BY DEF TypeInv
<1> QED BY <1>1, InitTypeInv, NextTypeInv, PTL DEF Spec

-----------------------------------------------------------------------------
(* What is left behind.                                                     *)

Stranded(b) == b.type = "binding" /\ ~b.qualified

\* A command begins over no binding or a qualified one, and keeps it.
StrandInv ==
  /\ (bpc = "idle" /\ Stranded(binding)) => kills > 0
  /\ (bpc = "planned") => ~Stranded(binding)
  /\ (bpc = "qualifying") => (~Stranded(replaced) /\ "qualified" \in DOMAIN binding)

LEMMA NextStrand == TypeInv /\ StrandInv /\ [Next]_vars => StrandInv'
<1> SUFFICES ASSUME TypeInv, StrandInv, [Next]_vars PROVE StrandInv'
  OBVIOUS
<1>t. /\ kills \in Nat /\ bpc \in {"idle", "planned", "qualifying"}
  BY BoundsAssumption DEF TypeInv, TypeOK, ImportTypeOK, BoundsAssumption
<1>1. CASE UNCHANGED bindVars /\ kills' \in {kills, kills + 1}
  BY <1>t, <1>1 DEF StrandInv, Stranded, bindVars
<1>2. CASE Plan /\ UNCHANGED kills
  BY <1>2 DEF Plan, StrandInv, Stranded
<1>3. CASE Publish /\ UNCHANGED kills
  BY <1>3 DEF Publish, StrandInv, Stranded
<1>4. CASE Qualify /\ UNCHANGED kills
  <2>1. binding.type = "binding" /\ binding' = [binding EXCEPT !.qualified = TRUE] /\ bpc' = "idle"
    BY <1>4 DEF Qualify, LeaveBinding, TypeInv, TypeOK
  <2>2. binding'.qualified
    BY <1>4, <2>1 DEF StrandInv, Qualify
  <2> QED BY <2>1, <2>2 DEF StrandInv, Stranded
<1>5. CASE RollBack /\ UNCHANGED kills
  BY <1>5 DEF RollBack, LeaveBinding, StrandInv, Stranded
<1>6. CASE KillBinding
  BY <1>t, <1>6 DEF KillBinding, Kill, LeaveBinding, StrandInv
<1>7. CASE ImportNext /\ UNCHANGED bindVars
  <2>1. kills' \in {kills, kills + 1}
    BY <1>7 DEF ImportNext, ImportStep, BeginImport, NextSource, CopyEntry, RefuseEntry, Record,
                RefuseCopy, Exchange, Settle, KillImport, Kill, Tamper
  <2> QED BY <1>1, <1>7, <2>1
<1> QED BY <1>1, <1>2, <1>3, <1>4, <1>5, <1>6, <1>7
        DEF Next, BindNext, BindStep, vars, importVars

\* Only a kill leaves an unqualified binding behind that no later command
\* replaces.
THEOREM KillsStrand == Spec => []OnlyKillsStrand
<1>1. Init => StrandInv
  BY Nothing DEF Init, BindInit, StrandInv, Stranded
<1>2. StrandInv => OnlyKillsStrand
  BY DEF StrandInv, Stranded, OnlyKillsStrand
<1> QED BY <1>1, <1>2, InitTypeInv, NextTypeInv, NextStrand, PTL DEF Spec

-----------------------------------------------------------------------------
(* What a binding is made from.                                             *)

LEMMA ValidElf ==
  ASSUME NEW k \in Kinds, NEW x, IsExport(k, x), IsValid(x)
  PROVE  /\ x.type = "export" /\ IsTree(x.tree) /\ IsManifest(k, x.manifest)
         /\ ElfIsSound(x.tree, Shared(x.manifest.listed), x.manifest.floor)
<1>1. x # NoExport /\ x.type = "export"
  BY Nothing DEF IsValid
<1>2. SharedIsSound(k, x.tree, x.manifest.listed, x.manifest.floor)
  BY <1>1 DEF IsValid, IsExport, IsManifest
<1>3. ElfIsSound(x.tree, Shared(x.manifest.listed), x.manifest.floor)
  BY <1>2 DEF SharedIsSound, GccSharedIsSound, LlvmSharedIsSound
<1> QED BY <1>1, <1>3 DEF IsExport

\* The exports of a plan, when it is made, need nothing newer than the SDK.
LEMMA PlanLoads ==
  ASSUME TypeInv, Plan, NEW k \in plan'.kinds, NEW p \in Shared(exports[k].manifest.listed),
         exports[k].tree[Follow(exports[k].tree, p)].type = "elf"
  PROVE  exports[k].tree[Follow(exports[k].tree, p)].glibc <= plan'.sdk
<1>1. PICK kinds \in SUBSET {l \in Kinds : IsValid(exports[l])} :
        \E compiler \in Compilers, sdk \in Sdks, default \in kinds, env \in Ambient :
         /\ SelectionFits(compiler, default, kinds)
         /\ \A l \in kinds : RuntimeFits(compiler, sdk, exports[l].manifest)
         /\ plan' = [type |-> "plan", kinds |-> kinds, default |-> default,
                     compiler |-> compiler, sdk |-> sdk, env |-> env,
                     loaded |-> [l \in kinds |-> exports[l]]]
  BY Zenon DEF Plan
<1>2. PICK compiler \in Compilers, sdk \in Sdks, default \in kinds, env \in Ambient :
         /\ SelectionFits(compiler, default, kinds)
         /\ \A l \in kinds : RuntimeFits(compiler, sdk, exports[l].manifest)
         /\ plan' = [type |-> "plan", kinds |-> kinds, default |-> default,
                     compiler |-> compiler, sdk |-> sdk, env |-> env,
                     loaded |-> [l \in kinds |-> exports[l]]]
  BY <1>1
<1>3. plan'.kinds = kinds /\ plan'.sdk = sdk
  BY <1>2
<1>4. k \in Kinds /\ IsValid(exports[k]) /\ RuntimeFits(compiler, sdk, exports[k].manifest)
  BY <1>2, <1>3
<1> DEFINE x == exports[k]  r == Follow(x.tree, p)
<1>5. IsExport(k, x)
  BY <1>4 DEF TypeInv, ExportsAt
<1>6. /\ IsTree(x.tree) /\ IsManifest(k, x.manifest)
      /\ ElfIsSound(x.tree, Shared(x.manifest.listed), x.manifest.floor)
  BY <1>4, <1>5, ValidElf
<1>7. p \in Paths
  BY <1>6 DEF Shared, IsManifest
<1>8. r \in Paths /\ r \in ElfFiles(x.tree, Shared(x.manifest.listed))
  BY <1>6, <1>7, FollowStays DEF ElfFiles
<1>9. x.tree[r].glibc <= x.manifest.floor
  BY <1>6, <1>8 DEF ElfIsSound
<1>10. x.tree[r].glibc \in Nat /\ x.manifest.floor \in Nat /\ sdk \in Nat
  BY <1>6, <1>8, SdksAssumption DEF IsTree, IsEntry, IsManifest, SdksAssumption
<1>11. x.manifest.floor <= sdk
  BY <1>4 DEF RuntimeFits
<1> QED BY <1>3, <1>9, <1>10, <1>11

\* No binding is made from an export that needs a newer glibc than the SDK has,
\* whatever became of the export since its import.
THEOREM NothingNewer == Spec => LoadsNothingNewer
<1> DEFINE A == (plan = NoPlan /\ plan' # NoPlan) => \A k \in plan'.kinds :
                  LET x == exports[k] IN
                  \A p \in Shared(x.manifest.listed) :
                    x.tree[Follow(x.tree, p)].type = "elf" =>
                      x.tree[Follow(x.tree, p)].glibc <= plan'.sdk
<1>1. TypeInv /\ [Next]_vars => [A]_vars
  <2> SUFFICES ASSUME TypeInv, Next PROVE A
    BY DEF vars
  <2>1. Plan \/ plan' \in {plan, NoPlan}
    BY DEF Next, BindNext, BindStep, Publish, Qualify, RollBack, KillBinding, LeaveBinding, bindVars
  <2> QED BY <2>1, PlanLoads
<1> QED BY <1>1, InitTypeInv, NextTypeInv, PTL DEF Spec, LoadsNothingNewer

-----------------------------------------------------------------------------
(* What is planned qualifies.                                               *)

\* Whatever runtimes are selected, a GCC binding has only libstdc++.
Planned(x) ==
  /\ \A k \in x.kinds : k \in Kinds /\ IsValid(x.loaded[k]) /\ IsExport(k, x.loaded[k])
  /\ SelectionFits(x.compiler, x.default, x.kinds)
  /\ "libc++" \in x.kinds => x.compiler.family = "clang"

PlanAt == bpc \in {"planned", "qualifying"} => Planned(plan)

LEMMA NextPlanAt == TypeInv /\ PlanAt /\ [Next]_vars => PlanAt'
<1> SUFFICES ASSUME TypeInv, PlanAt, [Next]_vars, bpc' \in {"planned", "qualifying"} PROVE Planned(plan')
  BY DEF PlanAt, Planned
<1>1. CASE UNCHANGED <<bpc, plan>> \/ Publish
  BY <1>1 DEF PlanAt, Publish
<1>2. CASE Plan
  <2>1. PICK kinds \in SUBSET {l \in Kinds : IsValid(exports[l])} :
          \E compiler \in Compilers, sdk \in Sdks, default \in kinds, env \in Ambient :
           /\ SelectionFits(compiler, default, kinds)
           /\ \A l \in kinds : RuntimeFits(compiler, sdk, exports[l].manifest)
           /\ plan' = [type |-> "plan", kinds |-> kinds, default |-> default,
                       compiler |-> compiler, sdk |-> sdk, env |-> env,
                       loaded |-> [l \in kinds |-> exports[l]]]
    BY <1>2, Zenon DEF Plan
  <2>2. PICK compiler \in Compilers, sdk \in Sdks, default \in kinds, env \in Ambient :
           /\ SelectionFits(compiler, default, kinds)
           /\ \A l \in kinds : RuntimeFits(compiler, sdk, exports[l].manifest)
           /\ plan' = [type |-> "plan", kinds |-> kinds, default |-> default,
                       compiler |-> compiler, sdk |-> sdk, env |-> env,
                       loaded |-> [l \in kinds |-> exports[l]]]
    BY <2>1
  <2>3. /\ plan'.kinds = kinds /\ plan'.compiler = compiler /\ plan'.default = default
        /\ plan'.loaded = [l \in kinds |-> exports[l]]
    BY <2>2
  <2>4. \A l \in kinds : l \in Kinds /\ IsValid(exports[l]) /\ IsExport(l, exports[l])
    BY DEF TypeInv, ExportsAt
  <2>5. ASSUME "libc++" \in kinds PROVE compiler.family = "clang"
    <3>1. exports["libc++"].manifest.kind = "libc++"
      BY <2>4, <2>5, ValidElf DEF IsManifest
    <3> QED BY <2>2, <2>5, <3>1 DEF RuntimeFits
  <2> QED BY <2>2, <2>3, <2>4, <2>5 DEF Planned
<1> QED BY <1>1, <1>2
        DEF Next, BindNext, BindStep, Qualify, RollBack, KillBinding, LeaveBinding, bindVars, vars

\* The names in an export that passes its validation end in a library of each
\* component that its kind needs.
LEMMA ValidProvides ==
  ASSUME NEW k \in Kinds, NEW x, IsExport(k, x), IsValid(x)
  PROVE  Provides(k, x)
<1> DEFINE ps == x.manifest.listed
           needed == IF k = "libc++" THEN {"libc++", "libunwind"} ELSE {"libstdc++"}
<1>1. /\ x.type = "export" /\ IsTree(x.tree) /\ IsManifest(k, x.manifest)
      /\ ElfIsSound(x.tree, Shared(ps), x.manifest.floor)
  BY ValidElf
<1>2. SharedIsSound(k, x.tree, ps, x.manifest.floor) /\ StaticIsSound(k, x.tree, ps)
  BY <1>1 DEF IsValid, IsManifest
<1>3. {p \in ps : Resolves(x.tree, p)} = ps
  BY DEF IsValid
<1>4. needed \subseteq {Comp(p) : p \in Shared(ps)}
  <2> SUFFICES ASSUME NEW c \in needed PROVE \E p \in Shared(ps) : Comp(p) = c
    OBVIOUS
  <2> DEFINE carried == {Comp(r) : r \in ElfFiles(x.tree, Shared(ps))}
  <2>c. c \in carried
    <3>1. CASE k = "libstdc++"
      <4>1. {"libstdc++", "libgcc_s"} \subseteq carried
        BY <1>2, <3>1 DEF SharedIsSound, GccSharedIsSound
      <4> QED BY <3>1, <4>1
    <3>2. CASE k = "libc++"
      <4>1. carried = LlvmComponents
        BY <1>2, <3>2 DEF SharedIsSound, LlvmSharedIsSound
      <4> QED BY <3>2, <4>1 DEF LlvmComponents
    <3> QED BY <3>1, <3>2 DEF Kinds
  <2>1. PICK r \in ElfFiles(x.tree, Shared(ps)) : Comp(r) = c
    BY <2>c
  <2>2. x.tree[r].soname \in Names(Shared(ps)) /\ Component[x.tree[r].soname] = c
    BY <1>1, <2>1 DEF ElfIsSound
  <2> QED BY <2>2 DEF Names, Comp
<1>5. needed \subseteq {Comp(p) : p \in Static(ps)}
  <2>1. CASE k = "libc++"
    BY <1>2, <2>1 DEF StaticIsSound, LlvmComponents
  <2>2. CASE k = "libstdc++"
    <3>1. "libstdc++.a" \in Names(ps)
      BY <1>1, <2>2 DEF IsManifest, HasRequired
    <3>2. PICK p \in ps : Name(p) = "libstdc++.a"
      BY <3>1 DEF Names
    <3>3. p \in Static(ps) /\ Comp(p) = "libstdc++"
      BY <3>2, NamesAssumption DEF NamesAssumption, Static, Comp
    <3> QED BY <2>2, <3>3
  <2> QED BY <2>1, <2>2 DEF Kinds
<1> QED BY <1>1, <1>3, <1>4, <1>5 DEF Provides

\* The flags of the wrappers select the runtime that a link is to show.
LEMMA PlannedLinks ==
  ASSUME NEW x, Planned(x), x.env \in {"", x.default}
  PROVE  DefaultLinksPass(x) /\ AlternateLinksPass(x)
<1>1. x.kinds \subseteq Kinds /\ x.default \in x.kinds
  BY DEF Planned, SelectionFits
<1>2. CASE x.kinds = {"libstdc++"}
  BY <1>1, <1>2 DEF DefaultLinksPass, AlternateLinksPass, LinkPasses, Linked, Wrapper, Flags, Kinds
<1>3. CASE x.kinds = {"libc++"}
  <2>1. x.compiler.family = "clang" /\ x.default = "libc++"
    BY <1>1, <1>3 DEF Planned
  <2> QED BY <1>3, <2>1 DEF DefaultLinksPass, AlternateLinksPass, LinkPasses, Linked, Wrapper, Flags, Kinds
<1>4. CASE x.kinds = Kinds
  <2>1. Cardinality(Kinds) = 2
    BY Pair DEF Kinds
  <2>2. x.compiler.family = "clang" /\ x.default = "libstdc++"
    <3>0. Cardinality(x.kinds) = 2
      BY <1>4, <2>1, Zenon
    <3>1. Cardinality(x.kinds) > 1
      BY <3>0, TwoIsMany, Zenon
    <3>2. x.compiler.family = "clang"
      BY <1>4 DEF Planned, Kinds
    <3> QED BY <3>1, <3>2 DEF Planned, SelectionFits
  <2>3. DefaultLinksPass(x)
    BY <1>4, <2>2, ZenonT(40) DEF DefaultLinksPass, LinkPasses, Linked, Wrapper, Flags, Kinds
  <2>4. AlternateLinksPass(x)
    BY <1>4, <2>2, ZenonT(40) DEF AlternateLinksPass, LinkPasses, Linked, Wrapper, Flags, Kinds
  <2> QED BY <2>3, <2>4
<1> QED BY <1>1, <1>2, <1>3, <1>4 DEF Kinds

\* For every compiler, SDK and selection, a plan whose exports have stayed as
\* they were loaded passes every link of its qualification.
THEOREM PlansQualify == Spec => []LoadedPlansQualify
<1>1. Init => PlanAt
  BY DEF Init, BindInit, PlanAt
<1>2. PlanAt => LoadedPlansQualify
  <2> SUFFICES ASSUME PlanAt, bpc = "qualifying", \A k \in plan.kinds : exports[k] = plan.loaded[k],
                      plan.env \in {"", plan.default}
               PROVE  Qualifies(plan)
    BY DEF LoadedPlansQualify
  <2>1. Planned(plan)
    BY DEF PlanAt
  <2>2. MustProvide(plan) \subseteq plan.kinds
    BY <2>1 DEF MustProvide, Planned, SelectionFits
  <2>3. \A k \in MustProvide(plan) : Provides(k, exports[k])
    BY <2>1, <2>2, ValidProvides DEF Planned
  <2> QED BY <2>1, <2>3, PlannedLinks DEF Qualifies
<1> QED BY <1>1, <1>2, InitTypeInv, NextTypeInv, NextPlanAt, PTL DEF Spec

-----------------------------------------------------------------------------
(* Which library a name of an LLVM export leads to.                         *)

\* An LLVM copy follows links within one component only.
LinksWithin ==
  (pc # "idle" /\ job.kind = "libc++") =>
    \A p \in Paths : staging[p].type = "link" => Comp(staging[p].to) = Comp(p)

LEMMA NextLinksWithin == TypeInv /\ LinksWithin /\ [Next]_vars => LinksWithin'
<1> SUFFICES ASSUME TypeInv, LinksWithin, [Next]_vars, pc' # "idle", job'.kind = "libc++",
                    NEW q \in Paths, staging'[q].type = "link"
             PROVE  Comp(staging'[q].to) = Comp(q)
  BY DEF LinksWithin
<1>t. ImportTypeOK /\ JobAt /\ DOMAIN staging = Paths
  BY DEF TypeInv, TypeOK, ImportTypeOK
<1>1. CASE UNCHANGED <<job, staging, pc>> \/ (pc # "idle" /\ UNCHANGED <<job, staging>>)
  BY <1>1 DEF LinksWithin
<1>2. CASE BeginImport
  <2>1. staging'[q] = None
    BY <1>2 DEF BeginImport
  <2> QED BY <2>1, Nothing
<1>3. CASE CopyEntry
  <2>1. PICK p \in pending : staging' = staging \/ CopyLink(p) \/ CopyFile(p)
    BY <1>3 DEF CopyEntry
  <2>2. pc # "idle" /\ job' = job /\ p \in Paths
    BY <1>3, <1>t DEF CopyEntry, ImportTypeOK
  <2>3. CASE staging' = staging \/ q # p
    <3>1. staging'[q] = staging[q]
      BY <1>t, <2>1, <2>3 DEF CopyLink, CopyFile
    <3> QED BY <2>2, <3>1 DEF LinksWithin
  <2>4. CASE CopyLink(p) /\ q = p
    BY <1>t, <2>2, <2>4 DEF CopyLink, MayFollow, LinkTarget
  <2>5. CASE CopyFile(p) /\ q = p
    BY <1>t, <2>2, <2>5 DEF CopyFile, IsFile, IsLink
  <2> QED BY <2>1, <2>3, <2>4, <2>5
<1>4. CASE ImportNext
  <2>1. CASE NextSource \/ Record \/ Exchange \/ Tamper
    BY <1>1, <2>1 DEF NextSource, Record, CopyIsDone, Exchange, Tamper, copyVars
  <2>2. CASE RefuseEntry \/ RefuseCopy \/ Settle \/ KillImport
    BY <2>2 DEF RefuseEntry, RefuseCopy, Settle, KillImport, GiveUp
  <2> QED BY <1>2, <1>3, <1>4, <2>1, <2>2 DEF ImportNext, ImportStep
<1>5. CASE UNCHANGED <<job, staging, pc>>
  BY <1>1, <1>5
<1> QED BY <1>4, <1>5 DEF Next, vars, importVars, copyVars

\* In an LLVM export that passes its validation every name leads to the library
\* of its component, and every SONAME to the one library that carries it.
THEOREM NamesAreOwned == Spec => []NamesReachTheirOwner
<1>1. Init => LinksWithin
  BY DEF Init, ImportInit, LinksWithin
<1>2. TypeInv /\ LinksWithin => NamesReachTheirOwner
  <2> SUFFICES ASSUME TypeInv, LinksWithin, pc = "validating", job.kind = "libc++",
                      IsValid(exports["libc++"])
               PROVE  NamesReachTheirOwner
    BY DEF NamesReachTheirOwner
  <2> DEFINE x == exports["libc++"]  shared == Shared(x.manifest.listed)
  <2>1. x.tree = staging /\ IsExport("libc++", x)
    BY DEF TypeInv, ExportsAt, Kinds
  <2>2. /\ IsTree(x.tree) /\ IsManifest("libc++", x.manifest)
        /\ ElfIsSound(x.tree, shared, x.manifest.floor)
    BY <2>1, ValidElf DEF Kinds
  <2>3. LlvmSharedIsSound(x.tree, shared \cup Static(x.manifest.listed), x.manifest.floor)
    BY <2>2 DEF IsValid, IsManifest, SharedIsSound, Shared, Static
  <2>4. Shared(shared \cup Static(x.manifest.listed)) = shared
    BY DEF Shared, Static
  <2> HIDE DEF x, shared
  <2>5. shared \subseteq Paths
    BY <2>2 DEF shared, Shared, IsManifest
  <2>6. \A p \in shared : Comp(Follow(x.tree, p)) = Comp(p)
    BY <2>1, <2>2, <2>5, FollowComponent DEF LinksWithin
  <2>7. ASSUME NEW r \in ElfFiles(x.tree, shared)
        PROVE  \E p \in shared : Name(p) = x.tree[r].soname /\ (Follow(x.tree, p) = r \/ x.tree[p].type = "script")
    <3>1. x.tree[r].soname \in Names(shared) /\ Component[x.tree[r].soname] = Comp(r)
      BY <2>2 DEF ElfIsSound
    <3>2. PICK p \in shared : Name(p) = x.tree[r].soname
      BY <3>1 DEF Names
    <3>3. x.tree[Follow(x.tree, p)].type \in {"elf", "foreign"} \/ x.tree[p].type = "script"
      BY <2>3, <2>4 DEF LlvmSharedIsSound
    <3>4. CASE x.tree[Follow(x.tree, p)].type \in {"elf", "foreign"}
      <4>1. Follow(x.tree, p) \in ElfFiles(x.tree, shared)
        BY <3>4 DEF ElfFiles
      <4>2. Comp(Follow(x.tree, p)) = Comp(r)
        BY <2>6, <3>1, <3>2 DEF Comp
      <4>3. Follow(x.tree, p) = r
        BY <2>3, <2>4, <4>1, <4>2 DEF LlvmSharedIsSound
      <4> QED BY <3>2, <4>3
    <3> QED BY <3>2, <3>3, <3>4
  <2> QED BY <2>6, <2>7 DEF NamesReachTheirOwner, x, shared
<1> QED BY <1>1, <1>2, InitTypeInv, NextTypeInv, NextLinksWithin, PTL DEF Spec

-----------------------------------------------------------------------------
(* The copy.  The worklist of GCC copies a library and the file that it ends   *)
(* at.  The one of LLVM copies link after link and stops at what it has copied  *)
(* since it took up a library: it is as many hops from the library as it has    *)
(* copied paths, thus never further than there are paths.                      *)

Staged == {p \in Paths : staging[p] # None}

\* A file, or a link that has been rewritten.
CopiedAs(p) ==
  \/ IsFile(job.prefix, p) /\ staging[p] = job.prefix[p]
  \/ /\ job.prefix[p].type = "link"
     /\ staging[p] = [type |-> "link", to |-> LinkTarget(p), absolute |-> FALSE]
     /\ job.kind = "libstdc++" => Resolves(job.prefix, p)

Driver == IF job.kind = "libstdc++" THEN DriverFiles(job.prefix) ELSE {}

\* How the next path was reached.
Reached(p) ==
  IF job.kind = "libc++"
  THEN \E s \in Sources(job.kind, job.prefix), n \in 0 .. Length :
         /\ p = Walk(job.prefix)[n][s]
         /\ IsFiniteSet(copied) /\ Cardinality(copied) = n
  ELSE \/ p \in Sources(job.kind, job.prefix)
       \/ IsFile(job.prefix, p) /\ \E s \in Sources(job.kind, job.prefix) : p = Follow(job.prefix, s)

CopyInv == (pc = "copying") =>
  /\ sources \subseteq Sources(job.kind, job.prefix)
  /\ Sources(job.kind, job.prefix) \subseteq sources \cup pending \cup Staged
  /\ copied \subseteq Staged
  /\ Driver \subseteq Staged
  /\ Staged \subseteq Closure(job.kind, job.prefix) \cup Driver
  /\ \A p \in Staged : CopiedAs(p)
  /\ \A p \in Staged : job.prefix[p].type = "link" => LinkTarget(p) \in Staged \cup pending
  /\ \A p, q \in pending : p = q
  /\ \A p \in pending : Reached(p)

LEMMA PathsAreFew == IsFiniteSet(Paths) /\ Cardinality(Paths) <= Length
<1>1. PathOrder \in [1 .. Length -> Paths] /\ Length \in Nat
  BY OrderAssumption DEF OrderAssumption, Length
<1>2. PathOrder \in Surjection(1 .. Length, Paths)
  BY <1>1 DEF Surjection, Paths
<1>3. ExistsSurjection(1 .. Length, Paths)
  BY <1>2 DEF ExistsSurjection
<1>4. Cardinality(Paths) <= Length
  BY <1>1, <1>3, FS_SurjCardinalityBound
<1>5. IsFiniteSet(1 .. Length)
  BY <1>1, FS_Interval
<1> QED BY <1>2, <1>4, <1>5, FS_Surjection

LEMMA WalkFile ==
  ASSUME NEW tree, NEW n \in Nat, n <= Length, NEW q \in Paths, tree[q].type # "link"
  PROVE  Walk(tree)[n][q] = q
<1>1. CASE n = 0
  BY <1>1, WalkDef
<1>2. CASE n # 0
  <2>0. n - 1 \in Nat /\ n = (n - 1) + 1
    BY <1>2
  <2>1. PICK m \in Nat : n = m + 1
    BY <2>0
  <2>2. Walk(tree)[m + 1][q] = q
    BY <2>1, WalkDef, ZenonT(40)
  <2> QED BY <2>1, <2>2
<1> QED BY <1>1, <1>2

\* A link to a file.
LEMMA FollowLink ==
  ASSUME NEW tree, NEW q \in Paths, tree[q].type = "link", tree[q].to \in Paths,
         tree[tree[q].to].type # "link"
  PROVE  Follow(tree, q) = tree[q].to
<1>1. Length \in Nat /\ Length # 0
  BY LengthIsNat, OrderAssumption DEF OrderAssumption, Paths, Length
<1>2. Length - 1 \in Nat /\ (Length - 1) + 1 = Length /\ Length - 1 <= Length
  BY <1>1
<1>3. Walk(tree)[Length][q] = Walk(tree)[Length - 1][tree[q].to]
  BY <1>2, WalkDef
<1>4. Walk(tree)[Length - 1][tree[q].to] = tree[q].to
  BY <1>2, WalkFile
<1> QED BY <1>3, <1>4 DEF Follow, Length

\* What has been reached belongs to what the libraries lead to.
LEMMA ReachedIsClosed ==
  ASSUME NEW p, Reached(p)
  PROVE  p \in Closure(job.kind, job.prefix)
BY DEF Reached, Closure, Length

\* A link of an LLVM prefix that has not been followed yet is not the last hop.
LEMMA LinkIsReached ==
  ASSUME job.kind = "libc++", job' = job, IsTree(job.prefix), copied \subseteq Paths,
         NEW p \in Paths, Reached(p), ~Visited(p), job.prefix[p].type = "link",
         copied' = copied \cup {p},
         NEW t, t = LinkTarget(p)
  PROVE  Reached(t)'
<1>1. PICK s \in Sources(job.kind, job.prefix), n \in 0 .. Length :
        /\ p = Walk(job.prefix)[n][s]
        /\ IsFiniteSet(copied) /\ Cardinality(copied) = n
  BY DEF Reached
<1>2. n \in Nat /\ s \in Paths
  BY <1>1, LengthIsNat DEF Sources
<1>3. IsFiniteSet(copied') /\ Cardinality(copied') = n + 1
  BY <1>1, FS_AddElement DEF Visited
<1>4. n + 1 <= Length
  <2>1. Cardinality(copied') <= Cardinality(Paths) /\ Cardinality(Paths) \in Nat
    BY PathsAreFew, FS_Subset, FS_CardinalityType
  <2> QED BY <1>2, <1>3, <2>1, PathsAreFew, LengthIsNat
<1>5. t = Walk(job.prefix)[n + 1][s]
  BY <1>1, <1>2, <1>4, WalkOn DEF LinkTarget
<1>6. n + 1 \in 0 .. Length
  BY <1>2, <1>4, LengthIsNat
<1> QED BY <1>1, <1>3, <1>5, <1>6 DEF Reached

LEMMA NextCopy == TypeInv /\ CopyInv /\ [Next]_vars => CopyInv'
<1> SUFFICES ASSUME TypeInv, CopyInv, [Next]_vars, pc' = "copying" PROVE CopyInv'
  BY DEF CopyInv
<1>t. /\ ImportTypeOK /\ JobAt /\ DOMAIN staging = Paths
      /\ pending \subseteq Paths /\ sources \subseteq Paths
  BY DEF TypeInv, TypeOK, ImportTypeOK
<1>1. CASE UNCHANGED <<pc, job, copyVars>>
  BY <1>1 DEF CopyInv, copyVars, Staged, CopiedAs, Driver, Reached, LinkTarget
<1>2. CASE BeginImport
  <2>1. /\ pending' = {} /\ copied' = {} /\ sources' = Sources(job'.kind, job'.prefix)
        /\ staging' = [p \in Paths |-> IF job'.kind = "libstdc++" /\ p \in DriverFiles(job'.prefix)
                                        THEN job'.prefix[p] ELSE None]
    BY <1>2 DEF BeginImport
  <2>2. Driver' = Staged'
    BY <2>1 DEF Driver, Staged, DriverFiles, IsFile
  <2>3. \A p \in Staged' : IsFile(job'.prefix, p) /\ staging'[p] = job'.prefix[p]
    BY <2>1 DEF Staged, DriverFiles
  <2>4. \A p \in Staged' : job'.prefix[p].type # "link"
    BY <2>3 DEF IsFile, IsLink
  <2> QED BY <2>1, <2>2, <2>3, <2>4 DEF CopyInv, CopiedAs
<1>3. CASE NextSource
  <2> DEFINE i == CHOOSE i \in DOMAIN PathOrder :
                    PathOrder[i] \in sources /\ \A j \in 1 .. i - 1 : PathOrder[j] \notin sources
  <2>0. PathOrder[i] \in sources
    BY <1>3, <1>t, FirstSource DEF NextSource
  <2>1. PICK s \in sources : pending' = {s} /\ sources' = sources \ {s}
    BY <1>3, <2>0 DEF NextSource
  <2>2. /\ pc = "copying" /\ pending = {}
        /\ copied' = (IF job.kind = "libc++" THEN {} ELSE copied)
        /\ UNCHANGED <<pc, job, staging>>
    BY <1>3 DEF NextSource
  <2>3. s \in Sources(job.kind, job.prefix) /\ s \in Paths
    BY <1>t, <2>1, <2>2 DEF CopyInv
  <2>4. Reached(s)'
    <3>1. CASE job.kind = "libc++"
      <4>1. 0 \in 0 .. Length /\ s = Walk(job.prefix)[0][s]
        BY <2>3, WalkDef, LengthIsNat
      <4>2. IsFiniteSet(copied') /\ Cardinality(copied') = 0
        BY <2>2, <3>1, FS_EmptySet
      <4> QED BY <2>2, <2>3, <3>1, <4>1, <4>2 DEF Reached
    <3>2. CASE job.kind # "libc++"
      BY <2>2, <2>3, <3>2 DEF Reached
    <3> QED BY <3>1, <3>2
  <2>5. /\ UNCHANGED <<Staged, Driver>> /\ \A p : CopiedAs(p)' = CopiedAs(p) /\ LinkTarget(p)' = LinkTarget(p)
    BY <2>2 DEF Staged, Driver, CopiedAs, LinkTarget
  <2> QED BY <2>1, <2>2, <2>4, <2>5 DEF CopyInv
<1>4. CASE CopyEntry
  <2>1. PICK p \in pending :
          \/ /\ Visited(p) /\ pending' = {} /\ UNCHANGED <<staging, copied>>
          \/ /\ ~Visited(p) /\ (CopyLink(p) \/ CopyFile(p)) /\ copied' = copied \cup {p}
    BY <1>4 DEF CopyEntry
  <2>2. pc = "copying" /\ p \in Paths /\ pending = {p} /\ UNCHANGED <<pc, job, sources>>
    BY <1>4, <1>t DEF CopyEntry, CopyInv
  <2>3. Reached(p) /\ p \in Closure(job.kind, job.prefix)
    BY <2>2, ReachedIsClosed DEF CopyInv
  <2>4. UNCHANGED Driver /\ \A q : LinkTarget(q)' = LinkTarget(q)
    BY <2>2 DEF Driver, LinkTarget
  <2>5. CASE Visited(p) /\ pending' = {} /\ UNCHANGED <<staging, copied>>
    <3>1. p \in Staged
      BY <2>2, <2>5 DEF Visited, CopyInv
    <3>2. UNCHANGED Staged /\ \A q : CopiedAs(q)' = CopiedAs(q)
      BY <2>2, <2>5 DEF Staged, CopiedAs, LinkTarget
    <3> QED BY <2>2, <2>4, <2>5, <3>1, <3>2 DEF CopyInv
  <2>6. ASSUME ~Visited(p), copied' = copied \cup {p}, NEW e, e # None,
               staging' = [staging EXCEPT ![p] = e], CopiedAs(p)',
               \A q, r \in pending' : q = r,
               IF job.prefix[p].type = "link" THEN pending' = {LinkTarget(p)} ELSE pending' = {},
               \A q \in pending' : Reached(q)'
        PROVE  CopyInv'
    <3>1. Staged' = Staged \cup {p}
      BY <1>t, <2>2, <2>6 DEF Staged
    <3>2. \A q \in Staged' : CopiedAs(q)'
      <4> SUFFICES ASSUME NEW q \in Staged, q # p PROVE CopiedAs(q)'
        BY <2>6, <3>1
      <4>1. CopiedAs(q) /\ staging'[q] = staging[q]
        BY <1>t, <2>2, <2>6 DEF CopyInv, Staged
      <4> QED BY <2>2, <2>4, <4>1 DEF CopiedAs
    <3>3. \A q \in Staged' : job'.prefix[q].type = "link" => LinkTarget(q)' \in Staged' \cup pending'
      BY <2>2, <2>4, <2>6, <3>1 DEF CopyInv
    <3>4. /\ sources' \subseteq Sources(job'.kind, job'.prefix)
          /\ Sources(job'.kind, job'.prefix) \subseteq sources' \cup pending' \cup Staged'
          /\ copied' \subseteq Staged' /\ Driver' \subseteq Staged'
          /\ Staged' \subseteq Closure(job'.kind, job'.prefix) \cup Driver'
      BY <2>2, <2>3, <2>4, <2>6, <3>1 DEF CopyInv
    <3> QED BY <2>6, <3>2, <3>3, <3>4 DEF CopyInv
  <2>7. CASE ~Visited(p) /\ copied' = copied \cup {p} /\ CopyLink(p)
    <3>0. PICK t : t = LinkTarget(p)
      OBVIOUS
    <3> DEFINE e == [type |-> "link", to |-> t, absolute |-> FALSE]
    <3>1. /\ MayFollow(p) /\ job.prefix[p].type = "link"
          /\ staging' = [staging EXCEPT ![p] = e] /\ pending' = {t}
      BY <2>7, <3>0 DEF CopyLink, MayFollow
    <3>2. e # None
      <4>1. e.type = "link"
        OBVIOUS
      <4> HIDE DEF e
      <4> QED BY <4>1, Nothing
    <3>3. CopiedAs(p)'
      <4>1. staging'[p] = e
        BY <1>t, <2>2, <3>1
      <4>2. job.kind = "libstdc++" => Resolves(job.prefix, p)
        BY <3>1 DEF MayFollow
      <4> QED BY <2>2, <2>4, <3>0, <3>1, <4>1, <4>2 DEF CopiedAs
    <3>4. Reached(t)'
      <4>1. CASE job.kind = "libc++"
        BY <1>t, <2>2, <2>3, <2>7, <3>0, <3>1, <4>1, LinkIsReached
           DEF JobAt, IsTree, ImportTypeOK
      <4>2. CASE job.kind # "libc++"
        <5>1. t = Follow(job.prefix, p) /\ Resolves(job.prefix, p)
          BY <3>0, <3>1, <4>2 DEF LinkTarget, MayFollow
        <5>2. p \in Sources(job.kind, job.prefix)
          BY <2>3, <3>1, <4>2 DEF Reached, IsFile, IsLink
        <5>3. IsFile(job.prefix, t)
          BY <5>1 DEF Resolves
        <5> QED BY <2>2, <4>2, <5>1, <5>2, <5>3 DEF Reached
      <4> QED BY <4>1, <4>2
    <3> HIDE DEF e
    <3> QED BY <2>6, <2>7, <3>0, <3>1, <3>2, <3>3, <3>4
  <2>8. CASE ~Visited(p) /\ copied' = copied \cup {p} /\ CopyFile(p)
    <3>1. /\ IsFile(job.prefix, p) /\ pending' = {}
          /\ staging' = [staging EXCEPT ![p] = job.prefix[p]]
      BY <2>8 DEF CopyFile
    <3>2. job.prefix[p] # None /\ job.prefix[p].type # "link"
      BY <3>1 DEF IsFile, IsLink
    <3>3. CopiedAs(p)'
      BY <1>t, <2>2, <3>1 DEF CopiedAs
    <3> QED BY <2>6, <2>8, <3>1, <3>2, <3>3
  <2> QED BY <2>1, <2>5, <2>7, <2>8
<1>5. CASE ImportNext
  <2>1. CASE RefuseEntry \/ RefuseCopy \/ Settle \/ KillImport \/ Record \/ Exchange
    BY <2>1 DEF RefuseEntry, RefuseCopy, Settle, KillImport, GiveUp, Record, Exchange
  <2>2. CASE Tamper
    BY <1>1, <2>2 DEF Tamper
  <2> QED BY <1>2, <1>3, <1>4, <1>5, <2>1, <2>2 DEF ImportNext, ImportStep
<1> QED BY <1>1, <1>5 DEF Next, vars, importVars

\* What a copy that is done has, link by link.
LEMMA LinkIsStaged ==
  ASSUME CopyInv, CopyIsDone, NEW p \in Staged, job.prefix[p].type = "link"
  PROVE  /\ LinkTarget(p) \in Staged
         /\ staging[p].type = "link" /\ staging[p].to = LinkTarget(p)
         /\ job.kind = "libstdc++" => Resolves(job.prefix, p)
<1>1. CopiedAs(p) /\ LinkTarget(p) \in Staged \cup pending /\ pending = {}
  BY DEF CopyInv, CopyIsDone
<1>2. ~IsFile(job.prefix, p)
  BY DEF IsFile, IsLink
<1>3. /\ staging[p] = [type |-> "link", to |-> LinkTarget(p), absolute |-> FALSE]
      /\ job.kind = "libstdc++" => Resolves(job.prefix, p)
  BY <1>1, <1>2 DEF CopiedAs
<1> QED BY <1>1, <1>3

\* A copy that is done is closed under the hops of an LLVM prefix ...
LEMMA HopsAreStaged ==
  ASSUME TypeInv, CopyInv, CopyIsDone, job.kind = "libc++", NEW q \in Staged, NEW n \in 0 .. Length
  PROVE  Walk(job.prefix)[n][q] \in Staged /\ Walk(staging)[n][q] = Walk(job.prefix)[n][q]
<1> DEFINE Alike(i, p) == Walk(job.prefix)[i][p] \in Staged /\ Walk(staging)[i][p] = Walk(job.prefix)[i][p]
           T == {i \in Nat : i <= Length => \A p \in Staged : Alike(i, p)}
<1>1. 0 \in T
  BY LengthIsNat, WalkDef DEF Staged
<1>2. ASSUME NEW i \in Nat, i \in T PROVE i + 1 \in T
  <2> SUFFICES ASSUME i + 1 <= Length, NEW p \in Staged PROVE Alike(i + 1, p)
    OBVIOUS
  <2>1. i <= Length /\ p \in Paths
    BY LengthIsNat DEF Staged
  <2>2. CASE job.prefix[p].type = "link"
    <3> DEFINE t == job.prefix[p].to
    <3>1. t \in Staged /\ staging[p].type = "link" /\ staging[p].to = t
      BY <2>2, LinkIsStaged DEF LinkTarget
    <3>2. Alike(i, t)
      BY <1>2, <2>1, <3>1
    <3>3. /\ Walk(job.prefix)[i + 1][p] = Walk(job.prefix)[i][t]
          /\ Walk(staging)[i + 1][p] = Walk(staging)[i][t]
      BY <2>1, <2>2, <3>1, WalkDef
    <3> QED BY <3>2, <3>3
  <2>3. CASE job.prefix[p].type # "link"
    <3>1. staging[p].type # "link"
      BY <2>3 DEF CopyInv, CopyIsDone, CopiedAs
    <3>2. Walk(job.prefix)[i + 1][p] = p /\ Walk(staging)[i + 1][p] = p
      BY <2>1, <2>3, <3>1, WalkDef
    <3> QED BY <3>2
  <2> QED BY <2>2, <2>3
<1>3. Nat \subseteq T
  <2> HIDE DEF T
  <2> QED BY <1>1, <1>2, SetInduction
<1> QED BY <1>3, LengthIsNat

\* ... and one of GCC has the file at the end of each library.
LEMMA EndIsStaged ==
  ASSUME TypeInv, CopyInv, CopyIsDone, job.kind = "libstdc++", NEW s \in Sources(job.kind, job.prefix)
  PROVE  /\ s \in Staged /\ Follow(job.prefix, s) \in Staged
         /\ Resolves(job.prefix, s)
         /\ Follow(staging, s) = Follow(job.prefix, s)
<1>1. s \in Staged /\ s \in Paths
  BY DEF CopyInv, CopyIsDone, Sources
<1>2. CASE job.prefix[s].type = "link"
  <2> DEFINE t == Follow(job.prefix, s)
  <2>1. t \in Staged /\ IsFile(job.prefix, t) /\ staging[s].type = "link" /\ staging[s].to = t
    BY <1>1, <1>2, LinkIsStaged DEF LinkTarget, Resolves
  <2>2. staging[t].type # "link" /\ t \in Paths
    BY <2>1 DEF CopyInv, CopyIsDone, CopiedAs, IsFile, IsLink, Staged
  <2>3. Follow(staging, s) = t
    BY <1>1, <2>1, <2>2, FollowLink
  <2> QED BY <1>1, <2>1, <2>3 DEF Resolves
<1>3. CASE job.prefix[s].type # "link"
  <2>1. IsFile(job.prefix, s) /\ staging[s].type # "link"
    BY <1>1, <1>3 DEF CopyInv, CopyIsDone, CopiedAs
  <2>2. Follow(job.prefix, s) = s /\ Follow(staging, s) = s
    BY <1>1, <1>3, <2>1, FollowFile
  <2> QED BY <1>1, <2>1, <2>2 DEF Resolves
<1> QED BY <1>2, <1>3

\* Whatever chains, circles and shared tails the links form: the worklist ends
\* with what the libraries lead to, and every name leads to the file it led to.
THEOREM CopyFaithful == Spec => []CopyIsFaithful
<1>1. Init => CopyInv
  BY DEF Init, ImportInit, CopyInv
<1>2. TypeInv /\ CopyInv => CopyIsFaithful
  <2> SUFFICES ASSUME TypeInv, CopyInv, CopyIsDone
               PROVE  /\ Staged = Closure(job.kind, job.prefix) \cup Driver
                      /\ \A p \in Sources(job.kind, job.prefix) :
                           /\ Resolves(staging, p) <=> Resolves(job.prefix, p)
                           /\ Resolves(staging, p) =>
                                (staging[Follow(staging, p)] = job.prefix[Follow(job.prefix, p)])
    BY DEF CopyIsFaithful, Staged, Driver
  <2>1. job.kind \in Kinds
    BY DEF TypeInv, JobAt, CopyIsDone
  <2>2. /\ Staged \subseteq Closure(job.kind, job.prefix) \cup Driver /\ Driver \subseteq Staged
        /\ \A p \in Staged : CopiedAs(p)
        /\ Sources(job.kind, job.prefix) \subseteq Staged
    BY DEF CopyInv, CopyIsDone
  <2>3. ASSUME NEW p \in Sources(job.kind, job.prefix)
        PROVE  /\ Follow(staging, p) = Follow(job.prefix, p) /\ Follow(job.prefix, p) \in Staged
               /\ \A q \in (IF job.kind = "libc++" THEN {Walk(job.prefix)[n][p] : n \in 0 .. Length}
                            ELSE {p, Follow(job.prefix, p)}) : q \in Staged
    <3>1. CASE job.kind = "libc++"
      <4>1. \A n \in 0 .. Length :
              Walk(job.prefix)[n][p] \in Staged /\ Walk(staging)[n][p] = Walk(job.prefix)[n][p]
        <5>1. p \in Staged
          BY <2>2
        <5> QED BY <3>1, <5>1, HopsAreStaged
      <4> QED BY <3>1, <4>1, LengthIsNat DEF Follow, Length
    <3>2. CASE job.kind = "libstdc++"
      BY <3>2, EndIsStaged
    <3> QED BY <2>1, <3>1, <3>2 DEF Kinds
  <2>4. Closure(job.kind, job.prefix) \subseteq Staged
    BY <2>3 DEF Closure, Length
  <2>5. ASSUME NEW p \in Sources(job.kind, job.prefix)
        PROVE  /\ Resolves(staging, p) <=> Resolves(job.prefix, p)
               /\ Resolves(staging, p) =>
                    (staging[Follow(staging, p)] = job.prefix[Follow(job.prefix, p)])
    <3> DEFINE r == Follow(job.prefix, p)
    <3>1. Follow(staging, p) = r /\ r \in Staged
      BY <2>3
    <3>2. CopiedAs(r)
      BY <2>2, <3>1
    <3> HIDE DEF r
    <3>3. CASE IsFile(job.prefix, r) /\ staging[r] = job.prefix[r]
      BY <3>1, <3>3 DEF Resolves, IsFile, r
    <3>4. CASE job.prefix[r].type = "link" /\ staging[r].type = "link"
      BY <3>1, <3>4 DEF Resolves, IsFile, IsLink, r
    <3> QED BY <3>2, <3>3, <3>4 DEF CopiedAs
  <2> QED BY <2>2, <2>4, <2>5
<1> QED BY <1>1, <1>2, InitTypeInv, NextTypeInv, NextCopy, PTL DEF Spec
-----------------------------------------------------------------------------
(* Every import ends.                                                       *)

\* What the measure counts.
LEMMA StepsCount ==
  ASSUME TypeInv
  PROVE  /\ IsFiniteSet(sources) /\ IsFiniteSet(Paths \ copied)
         /\ Cardinality(Paths) \in Nat /\ Cardinality(sources) \in Nat
         /\ Cardinality(Paths \ copied) \in Nat
         /\ Cardinality(Paths \ copied) <= Cardinality(Paths)
<1>1. sources \subseteq Paths /\ Paths \ copied \subseteq Paths
  BY DEF TypeInv, TypeOK, ImportTypeOK
<1>2. IsFiniteSet(Paths)
  BY PathsAreFew
<1>3. IsFiniteSet(sources) /\ Cardinality(sources) \in Nat
  BY <1>1, <1>2, FS_Subset, FS_CardinalityType
<1>4. /\ IsFiniteSet(Paths \ copied) /\ Cardinality(Paths \ copied) \in Nat
      /\ Cardinality(Paths \ copied) <= Cardinality(Paths)
  BY <1>1, <1>2, FS_Subset, FS_CardinalityType
<1> QED BY <1>2, <1>3, <1>4, FS_CardinalityType

LEMMA ProductIsNat ==
  \A n, c \in Nat : /\ (n + 2) * c \in Nat
                    /\ c > 0 => (n + 2) * (c - 1) = (n + 2) * c - (n + 2)
OBVIOUS

LEMMA CopyingLeft ==
  ASSUME TypeInv, pc = "copying"
  PROVE  /\ ImportStepsLeft \in Nat /\ ImportStepsLeft >= 3
         /\ ImportStepsLeft = (Cardinality(Paths) + 2) * Cardinality(sources)
              + (IF pending = {} THEN 0 ELSE Cardinality(Paths \ copied) + 1) + 3
<1> DEFINE n == Cardinality(Paths)
           c == Cardinality(sources)
           left == Cardinality(Paths \ copied)
           turns == IF pending = {} THEN 0 ELSE left + 1
<1>1. n \in Nat /\ c \in Nat /\ left \in Nat
  BY StepsCount
<1>2. ImportStepsLeft = (n + 2) * c + turns + 3
  BY DEF ImportStepsLeft
<1>3. (n + 2) * c \in Nat
  BY <1>1, ProductIsNat
<1>4. turns \in Nat
  BY <1>1
<1> HIDE DEF n, c, turns
<1>5. (n + 2) * c + turns + 3 \in Nat /\ (n + 2) * c + turns + 3 >= 3
  <2> DEFINE m == (n + 2) * c
  <2>1. m \in Nat
    BY <1>3
  <2> HIDE DEF m
  <2>2. m + turns + 3 \in Nat /\ m + turns + 3 >= 3
    BY <1>4, <2>1
  <2> QED BY <2>2 DEF m
<1> QED BY <1>2, <1>5 DEF n, c, turns

LEMMA StepsAreNatural == TypeInv => ImportStepsLeft \in Nat
<1> SUFFICES ASSUME TypeInv PROVE ImportStepsLeft \in Nat
  OBVIOUS
<1>1. pc \in {"idle", "copying", "staged", "validating"}
  BY DEF TypeInv, TypeOK, ImportTypeOK
<1>2. CASE pc = "copying"
  BY <1>2, CopyingLeft
<1>3. CASE pc # "copying"
  BY <1>1, <1>3 DEF ImportStepsLeft
<1> QED BY <1>2, <1>3

\* One library less, and the chain from it is still to be followed.
LEMMA SourceCounts ==
  ASSUME TypeInv, TypeInv', NextSource
  PROVE  ImportStepsLeft' < ImportStepsLeft
<1> DEFINE n == Cardinality(Paths)
           c == Cardinality(sources)
<1>1. pc = "copying" /\ pc' = "copying" /\ pending = {} /\ sources # {} /\ sources \subseteq Paths
  BY DEF NextSource, TypeInv, TypeOK, ImportTypeOK
<1>2. PICK s \in sources : pending' = {s} /\ sources' = sources \ {s}
  BY <1>1, FirstSource DEF NextSource
<1>3. Cardinality(sources') = c - 1 /\ c > 0
  <2>1. Cardinality(sources \ {s}) = Cardinality(sources) - 1
    BY StepsCount, FS_RemoveElement
  <2>2. IsFiniteSet(sources \ {s}) /\ Cardinality(sources \ {s}) \in Nat
    BY StepsCount, FS_RemoveElement, FS_CardinalityType
  <2> QED BY <1>2, <2>1, <2>2, StepsCount
<1>4. n \in Nat /\ c \in Nat /\ Cardinality(Paths \ copied') \in Nat /\ Cardinality(Paths \ copied') <= n
  <2>1. IsFiniteSet(Paths) /\ Paths \ copied' \subseteq Paths
    BY PathsAreFew
  <2>2. IsFiniteSet(Paths \ copied') /\ Cardinality(Paths \ copied') <= Cardinality(Paths)
    BY <2>1, FS_Subset
  <2> QED BY <2>2, StepsCount, FS_CardinalityType
<1>5. ImportStepsLeft = (n + 2) * c + 3
  <2>1. ImportStepsLeft = (n + 2) * c + 0 + 3
    BY <1>1, CopyingLeft
  <2>2. (n + 2) * c \in Nat
    BY <1>4, ProductIsNat
  <2> QED BY <2>1, <2>2
<1>6. ImportStepsLeft' = (n + 2) * (c - 1) + (Cardinality(Paths \ copied') + 1) + 3
  <2>1. ImportStepsLeft' =
          (n + 2) * Cardinality(sources') + (Cardinality(Paths \ copied') + 1) + 3
    BY <1>1, <1>2 DEF ImportStepsLeft
  <2> QED BY <1>3, <2>1
<1>7. (n + 2) * (c - 1) = (n + 2) * c - (n + 2) /\ (n + 2) * c \in Nat
  BY <1>3, <1>4, ProductIsNat
<1> DEFINE m == (n + 2) * c
           k == (n + 2) * (c - 1)
           r == Cardinality(Paths \ copied')
<1>8. m \in Nat /\ k = m - (n + 2) /\ r \in Nat /\ r <= n /\ n \in Nat
  BY <1>4, <1>7
<1>9. ImportStepsLeft = m + 3 /\ ImportStepsLeft' = k + (r + 1) + 3
  BY <1>5, <1>6
<1> HIDE DEF m, k, r, n
<1> QED BY <1>8, <1>9

\* A path once copied is not followed again.
LEMMA EntryCounts ==
  ASSUME TypeInv, TypeInv', CopyEntry
  PROVE  ImportStepsLeft' < ImportStepsLeft
<1> DEFINE m == (Cardinality(Paths) + 2) * Cardinality(sources)
           r == Cardinality(Paths \ copied)
<1>1. /\ pc = "copying" /\ pc' = "copying" /\ sources' = sources
      /\ pending # {} /\ pending \subseteq Paths
  BY DEF CopyEntry, TypeInv, TypeOK, ImportTypeOK
<1>2. m \in Nat /\ r \in Nat
  BY StepsCount, ProductIsNat
<1>3. ImportStepsLeft = m + (r + 1) + 3
  BY <1>1, CopyingLeft
<1>4. ImportStepsLeft' = m + (IF pending' = {} THEN 0 ELSE Cardinality(Paths \ copied') + 1) + 3
  BY <1>1 DEF ImportStepsLeft
<1>5. CASE pending' = {}
  <2>1. ImportStepsLeft' = m + 0 + 3
    BY <1>4, <1>5
  <2> HIDE DEF m, r
  <2> QED BY <1>2, <1>3, <2>1
<1>6. CASE pending' # {}
  <2>1. PICK p \in pending : p \notin copied /\ copied' = copied \cup {p}
    BY <1>6 DEF CopyEntry, Visited
  <2>2. Paths \ copied' = (Paths \ copied) \ {p} /\ p \in Paths \ copied
    BY <1>1, <2>1
  <2>3. Cardinality(Paths \ copied') = r - 1
    <3>1. Cardinality((Paths \ copied) \ {p}) = Cardinality(Paths \ copied) - 1
      BY <2>2, StepsCount, FS_RemoveElement
    <3> QED BY <2>2, <3>1
  <2>4. ImportStepsLeft' = m + ((r - 1) + 1) + 3
    BY <1>4, <1>6, <2>3
  <2> HIDE DEF m, r
  <2> QED BY <1>2, <1>3, <2>4
<1> QED BY <1>5, <1>6

LEMMA StepCounts ==
  ASSUME TypeInv, TypeInv', ImportStep
  PROVE  ImportStepsLeft' < ImportStepsLeft
<1>1. CASE NextSource
  BY <1>1, SourceCounts
<1>2. CASE CopyEntry
  BY <1>2, EntryCounts
<1>3. CASE RefuseEntry \/ RefuseCopy
  <2>1. pc = "copying" /\ pc' = "idle"
    BY <1>3 DEF RefuseEntry, RefuseCopy, CopyIsDone, GiveUp
  <2>2. ImportStepsLeft' = 0
    BY <2>1 DEF ImportStepsLeft
  <2> QED BY <2>1, <2>2, CopyingLeft
<1>4. CASE Record
  <2>1. pc = "copying" /\ pc' = "staged"
    BY <1>4 DEF Record, CopyIsDone
  <2>2. ImportStepsLeft' = 2
    BY <2>1 DEF ImportStepsLeft
  <2> QED BY <2>1, <2>2, CopyingLeft
<1>5. CASE Exchange \/ Settle
  <2>1. \/ pc = "staged" /\ pc' = "validating"
        \/ pc = "validating" /\ pc' = "idle"
    BY <1>5, Zenon DEF Exchange, Settle, GiveUp
  <2> QED BY <2>1 DEF ImportStepsLeft
<1> QED BY <1>1, <1>2, <1>3, <1>4, <1>5 DEF ImportStep

\* Whatever circles and chains the links of a prefix form, an import takes no more
\* steps than its libraries and paths allow.
THEOREM ImportsEnd == Spec => ImportsEndSoon /\ [](ImportStepsLeft \in Nat)
<1>1. TypeInv /\ TypeInv' => [ImportStep => ImportStepsLeft' < ImportStepsLeft]_importVars
  BY StepCounts
<1> QED BY <1>1, StepsAreNatural, InitTypeInv, NextTypeInv, PTL DEF Spec, ImportsEndSoon
=============================================================================
