--------------------------- MODULE ProducerProofs ---------------------------
(***************************************************************************)
(* The safety properties of the SDK producer: of one workspace, and of the  *)
(* leases under which processes share the store of them.                    *)
(*                                                                          *)
(* A workspace that looks ready is complete, for every set of commands and  *)
(* stops.  The file check of the outputs cannot tell a half-built toolchain *)
(* from a complete one, so the argument rests on the order of the other     *)
(* files: while provenance is recorded, a receipt vouches for complete      *)
(* outputs (Vouched); the receipt is gone before a container may touch them *)
(* (Unvouched), and a reset works on them only without provenance.          *)
(*                                                                          *)
(* What later attempts can find fault with follows from the order in which  *)
(* an attempt writes its files (OrderInv): a refused workspace is one that a *)
(* stop has left between two of them.  A full build that some setup relies  *)
(* on has been found by whoever works on it since (PromiseInv), and where   *)
(* nothing is stopped no file is missing (Orderly).                         *)
(*                                                                          *)
(* The leases exclude conflicting accesses and cannot deadlock, for any     *)
(* number of processes, selections and cache objects.  Both rest on one     *)
(* invariant: a process holds leases of its current with blocks only, has   *)
(* taken them in the order of their positions (ProcessInv) and conflicts    *)
(* with no other holder (Exclusion).  A circle of waiting processes would   *)
(* have to climb through the positions forever.                             *)
(***************************************************************************)
EXTENDS SdkWorkspace, ProducerLeases, TLAPS, WellFoundedInduction, FiniteSetTheorems

-----------------------------------------------------------------------------
(* One workspace.                                                          *)

Vouched == receipt # "none" => Satisfies(outputs, receipt)

\* What holds at the points between which the outputs are not trusted.
PointInv ==
  /\ pc \in {"reset_toolchain", "reset_build", "reset_defconfig"} => prov = "none"
  /\ pc = "reset_defconfig" => receipt = "none"
  /\ pc \in {"acquire", "record", "record_open", "unreceipt"} => Vouched
  /\ pc \in {"container", "running"} => receipt = "none"
  /\ pc = "receipt" => outputs = command.goal

IInv == TypeOK /\ (prov = "recorded" => Vouched) /\ PointInv

LEMMA InitIInv == Init => IInv
BY CommandsAssumption, MaxStopsAssumption
   DEF CommandsAssumption, MaxStopsAssumption, Init, IInv, TypeOK, Vouched, PointInv,
       Points, Goals, Satisfies

\* What a rendering attempt does.
LEMMA RenderIInv ==
  ASSUME IInv,
         \/ Reuse \/ RefuseTorn \/ Continue
         \/ RefuseRender \/ RenderMarker \/ RenderMarked \/ RenderDefconfig
         \/ OpenManifest("render_manifest", "manifest_open") \/ RenderManifest
  PROVE  IInv'
<1> USE CommandsAssumption DEF CommandsAssumption, IInv, TypeOK, Vouched, PointInv, Goto, End, At,
      Points, RenderPoints, BuildPoints, ExportPoints, Satisfies, Goals, users,
      Refusals
<1>1. CASE Reuse
  <2>1. /\ UNCHANGED files /\ UNCHANGED <<command, found>>
        /\ UNCHANGED stops
        /\ pending' = pending \cup {command.goal}
        /\ pc' = "idle" /\ outcome' = "ensured"
    BY <1>1, Zenon DEF Reuse, End
  <2>2. command.goal \in Goals
    BY DEF Goals
  <2>3. pending' \subseteq Goals
    BY <2>1, <2>2
  <2>a. TypeOK'
    BY <2>1, <2>3 DEF files
  <2>b. (prov = "recorded" => Vouched)' /\ PointInv'
    BY <2>1, <2>2 DEF files
  <2> HIDE DEF TypeOK, Vouched, PointInv
  <2> QED BY <2>a, <2>b
<1>2. CASE RefuseTorn
  BY <1>2 DEF RefuseTorn, files
<1>3. CASE Continue
  <2>1. /\ UNCHANGED files /\ UNCHANGED users /\ UNCHANGED <<command, found>>
        /\ pc' = "build" \/ pc' = "render"
    BY <1>3, Zenon DEF Continue, Goto
  <2>a. TypeOK'
    BY <2>1 DEF files, users
  <2>b. (prov = "recorded" => Vouched)' /\ PointInv'
    BY <2>1 DEF files, users
  <2> HIDE DEF TypeOK, Vouched, PointInv
  <2> QED BY <2>a, <2>b
<1>4. CASE RefuseRender
  <2>1. /\ UNCHANGED <<files, pending, stops>> /\ UNCHANGED <<command, found>>
        /\ pc' = "idle" /\ (outcome' = "unowned" \/ outcome' = "needs_force")
    BY <1>4, Zenon DEF RefuseRender, End
  <2>a. TypeOK'
    BY <2>1 DEF files
  <2>b. (prov = "recorded" => Vouched)' /\ PointInv'
    BY <2>1 DEF files
  <2> HIDE DEF TypeOK, Vouched, PointInv
  <2> QED BY <2>a, <2>b
<1>5. CASE RenderMarker
  BY <1>5 DEF RenderMarker
<1>6. CASE RenderMarked
  BY <1>6 DEF RenderMarked
<1>7. CASE RenderDefconfig
  BY <1>7 DEF RenderDefconfig
<1>8. CASE OpenManifest("render_manifest", "manifest_open")
  BY <1>8 DEF OpenManifest
<1>9. CASE RenderManifest
  BY <1>9 DEF RenderManifest
<1> QED BY <1>1, <1>2, <1>3, <1>4, <1>5, <1>6, <1>7, <1>8, <1>9

\* What a building attempt does.
LEMMA BuildIInv ==
  ASSUME IInv,
         \/ RefuseDefconfig \/ CheckProvenance
         \/ ResetToolchain \/ ResetBuild \/ ResetDefconfig
         \/ Acquire \/ OpenManifest("record", "record_open") \/ RecordProvenance
         \/ RemoveReceipt \/ StartContainer \/ FinishContainer \/ WriteReceipt
  PROVE  IInv'
<1> USE CommandsAssumption DEF CommandsAssumption, IInv, TypeOK, Vouched, PointInv, Goto, End, At,
      Points, RenderPoints, BuildPoints, ExportPoints, Satisfies, Goals, users,
      Refusals
<1>1. CASE RefuseDefconfig
  BY <1>1 DEF RefuseDefconfig, files
<1>2. CASE CheckProvenance
  BY <1>2 DEF CheckProvenance, files
<1>3. CASE ResetToolchain
  BY <1>3 DEF ResetToolchain
<1>4. CASE ResetBuild
  BY <1>4 DEF ResetBuild
<1>5. CASE ResetDefconfig
  BY <1>5 DEF ResetDefconfig
<1>6. CASE Acquire
  BY <1>6 DEF Acquire, files
<1>7. CASE OpenManifest("record", "record_open")
  BY <1>7 DEF OpenManifest
<1>8. CASE RecordProvenance
  BY <1>8 DEF RecordProvenance
<1>9. CASE RemoveReceipt
  BY <1>9 DEF RemoveReceipt
<1>10. CASE StartContainer
  BY <1>10 DEF StartContainer
<1>11. CASE FinishContainer
  BY <1>11 DEF FinishContainer
<1>12. CASE WriteReceipt
  BY <1>12 DEF WriteReceipt
<1> QED BY <1>1, <1>2, <1>3, <1>4, <1>5, <1>6, <1>7, <1>8, <1>9, <1>10, <1>11, <1>12

\* Export, consumption, stops and the start of an attempt.
LEMMA OtherIInv ==
  ASSUME IInv,
         \/ \E c \in Commands : Begin(c)
         \/ SetAsideSdk \/ PublishSdk \/ OpenManifest("state", "state_open")
         \/ WriteBuilt
         \/ \E goal \in Goals : Consume(goal)
         \/ Stop
  PROVE  IInv'
<1> USE CommandsAssumption DEF CommandsAssumption, IInv, TypeOK, Vouched, PointInv, Goto, End, At,
      Points, RenderPoints, BuildPoints, ExportPoints, Satisfies, Goals, users,
      Refusals
<1>1. CASE \E c \in Commands : Begin(c)
  BY <1>1 DEF Begin, files
<1>2. CASE SetAsideSdk
  BY <1>2 DEF SetAsideSdk
<1>3. CASE PublishSdk
  BY <1>3 DEF PublishSdk
<1>4. CASE OpenManifest("state", "state_open")
  BY <1>4 DEF OpenManifest
<1>5. CASE WriteBuilt
  <2>1. /\ UNCHANGED <<marker, prov, defconfig, receipt, outputs, sdk, hidden, stops>>
        /\ UNCHANGED <<command, found>>
        /\ manifest' = "ok" /\ state' = "built"
        /\ pending' = pending \cup {command.goal}
        /\ pc' = "idle" /\ outcome' = "ensured"
    BY <1>5, Zenon DEF WriteBuilt, End
  <2>2. pending' \subseteq Goals
    BY <2>1
  <2>a. TypeOK'
    BY <2>1, <2>2
  <2>b. (prov = "recorded" => Vouched)' /\ PointInv'
    BY <2>1
  <2> HIDE DEF TypeOK, Vouched, PointInv
  <2> QED BY <2>a, <2>b
<1>6. CASE \E goal \in Goals : Consume(goal)
  <2>1. PICK goal \in Goals : Consume(goal)
    BY <1>6
  <2>2. /\ UNCHANGED files /\ UNCHANGED attempt /\ stops' = stops
        /\ pending' = pending \ {goal}
    BY <2>1, Zenon DEF Consume
  <2>3. \/ outcome' = "consumed"
        \/ outcome' = "incomplete_backend"
        \/ outcome' = "changed"
    BY <2>1, Zenon DEF Consume
  <2>4. pending' \subseteq Goals
    BY <2>2, <2>3
  <2>5. outcome' \in {"none", "ensured", "stopped", "consumed"} \cup Refusals
    BY <2>3
  <2>a. TypeOK'
    BY <2>2, <2>4, <2>5 DEF files, attempt
  <2>b. (prov = "recorded" => Vouched)' /\ PointInv'
    BY <2>2, <2>3 DEF files, attempt
  <2> HIDE DEF TypeOK, Vouched, PointInv
  <2> QED BY <2>a, <2>b
<1>7. CASE Stop
  BY <1>7, MaxStopsAssumption DEF MaxStopsAssumption, Stop
<1> QED BY <1>1, <1>2, <1>3, <1>4, <1>5, <1>6, <1>7

LEMMA NextIInv == IInv /\ [Next]_vars => IInv'
<1> SUFFICES ASSUME IInv, [Next]_vars PROVE IInv'
  OBVIOUS
<1>1. CASE UNCHANGED vars
  BY <1>1 DEF vars, files, attempt, users, IInv, TypeOK, Vouched, PointInv, Satisfies
<1>2. CASE Next
  BY <1>2, RenderIInv, BuildIInv, OtherIInv DEF Next, Attempt
<1> QED BY <1>1, <1>2

THEOREM Invariance == Spec => []IInv
BY InitIInv, NextIInv, PTL DEF Spec

\* The workspace stays within its declared states (setup.py:429-483).
THEOREM TypeCorrect == Spec => []TypeOK
<1>1. IInv => TypeOK
  BY DEF IInv
<1> QED BY <1>1, Invariance, PTL

\* A workspace accepted as ready has complete outputs, wherever attempts were
\* stopped before (sdk/crosstool_ng.py:1374-1457, 1505-1652).
THEOREM ReadyIsComplete == Spec => []ReadyMeansComplete
<1>1. IInv => ReadyMeansComplete
  BY DEF IInv, TypeOK, Vouched, ReadyMeansComplete, Ready, BuildSatisfied, Satisfies,
     Goals
<1> QED BY <1>1, Invariance, PTL

-----------------------------------------------------------------------------
(* No attempt takes a ready workspace apart, except for an upgrade.        *)

\* An attempt that goes on past the check found the workspace ready for less
\* than it wants.
FoundInv ==
  /\ pc = "check" => \A goal \in found : Ready(goal)
  /\ pc \notin {"idle", "check"} =>
       \A goal \in found : goal = "sdk" /\ command.goal = "full"

\* A workspace that is ready for a full build is ready for either goal.
LEMMA FullServesBoth ==
  ASSUME Ready("full"), NEW goal \in Goals
  PROVE  Ready(goal)
BY DEF Ready, BuildSatisfied, Satisfies, OutputsLookReady, Goals

LEMMA FoundContinue ==
  ASSUME IInv, FoundInv, Continue
  PROVE  FoundInv'
<1>1. /\ pc = "check" /\ ~Ready(command.goal)
      /\ found' = found /\ command' = command
  BY Zenon DEF Continue, At, Goto
<1>2. command.goal \in Goals
  BY CommandsAssumption DEF CommandsAssumption, IInv, TypeOK
<1>3. ASSUME NEW goal \in found
      PROVE  goal = "sdk" /\ command.goal = "full"
  <2>1. Ready(goal) /\ goal \in Goals
    BY <1>1 DEF FoundInv, IInv, TypeOK
  <2>2. goal # command.goal
    BY <1>1, <2>1
  <2>3. goal # "full"
    BY <1>1, <1>2, <2>1, FullServesBoth
  <2> QED BY <1>2, <2>1, <2>2, <2>3 DEF Goals
<1>4. pc' # "check"
  <2>1. pc' = "build" \/ pc' = "render"
    BY Zenon DEF Continue, Goto
  <2> QED BY <2>1
<1> QED BY <1>1, <1>3, <1>4 DEF FoundInv

\* Once past the check, an attempt moves on to a later point or ends.
LEMMA FoundAttempt ==
  ASSUME FoundInv, Attempt \/ Stop, ~Continue
  PROVE  FoundInv'
<1>1. /\ found' = found /\ command' = command
      /\ pc' = "idle" \/ (pc \notin {"idle", "check"} /\ pc' \notin {"idle", "check"})
  <2> USE DEF At, Goto, End
  <2>1. CASE Reuse \/ RefuseTorn
    BY <2>1, Zenon DEF Reuse, RefuseTorn
  <2>2. CASE RefuseRender \/ RefuseDefconfig
    BY <2>2, Zenon DEF RefuseRender, RefuseDefconfig
  <2>3. CASE RenderMarker \/ RenderMarked \/ RenderDefconfig \/ RenderManifest
    BY <2>3 DEF RenderMarker, RenderMarked, RenderDefconfig, RenderManifest
  <2>4. CASE \/ OpenManifest("render_manifest", "manifest_open")
             \/ OpenManifest("record", "record_open")
             \/ OpenManifest("state", "state_open")
    BY <2>4 DEF OpenManifest
  <2>5. CASE CheckProvenance \/ ResetToolchain \/ ResetBuild \/ ResetDefconfig
    BY <2>5 DEF CheckProvenance, ResetToolchain, ResetBuild, ResetDefconfig
  <2>6. CASE Acquire
    <3>1. pc = "acquire" /\ (pc' = "export" \/ pc' = "record")
          /\ UNCHANGED <<command, found>>
      BY <2>6, Zenon DEF Acquire
    <3> QED BY <3>1
  <2>7. CASE RecordProvenance \/ RemoveReceipt \/ StartContainer \/ FinishContainer
    BY <2>7 DEF RecordProvenance, RemoveReceipt, StartContainer, FinishContainer
  <2>8. CASE WriteReceipt \/ SetAsideSdk \/ PublishSdk
    BY <2>8 DEF WriteReceipt, SetAsideSdk, PublishSdk
  <2>9. CASE WriteBuilt \/ Stop
    BY <2>9 DEF WriteBuilt, Stop
  <2> QED BY <2>1, <2>2, <2>3, <2>4, <2>5, <2>6, <2>7, <2>8, <2>9 DEF Attempt
<1> QED BY <1>1 DEF FoundInv

LEMMA FoundNext == IInv /\ FoundInv /\ [Next]_vars => FoundInv'
<1> SUFFICES ASSUME IInv, FoundInv, [Next]_vars PROVE FoundInv'
  OBVIOUS
<1>1. CASE Continue
  BY <1>1, FoundContinue
<1>2. CASE (Attempt \/ Stop) /\ ~Continue
  BY <1>2, FoundAttempt
<1>3. CASE \E c \in Commands : Begin(c)
  <2>1. /\ pc' = "check" /\ found' = {goal \in Goals : Ready(goal)}
        /\ UNCHANGED files
    BY <1>3, Zenon DEF Begin
  <2> QED BY <2>1 DEF FoundInv, files, Ready, BuildSatisfied, Satisfies, OutputsLookReady
<1>4. CASE \E goal \in Goals : Consume(goal)
  <2>1. UNCHANGED <<files, attempt>> /\ pc = "idle"
    BY <1>4, Zenon DEF Consume, At
  <2> QED BY <2>1 DEF FoundInv, attempt
<1>5. CASE UNCHANGED vars
  BY <1>5 DEF vars, files, attempt, FoundInv, Ready, BuildSatisfied, Satisfies,
     OutputsLookReady
<1> QED BY <1>1, <1>2, <1>3, <1>4, <1>5, Zenon DEF Next

\* The end of an attempt: the files are as they were found, or it upgraded.
LEMMA FoundKept ==
  ASSUME IInv, FoundInv, [Next]_vars, pc # "idle", pc' = "idle", NEW goal \in found
  PROVE  Ready(goal)' \/ (goal = "sdk" /\ command.goal = "full")
<1>1. CASE pc = "check"
  <2>1. Ready(goal)
    BY <1>1 DEF FoundInv
  <2>2. CASE UNCHANGED files
    BY <2>1, <2>2 DEF files, Ready, BuildSatisfied, Satisfies, OutputsLookReady
  <2>3. CASE Stop
    BY <2>1, <2>3 DEF Stop, IInv, TypeOK, Ready, BuildSatisfied, Satisfies,
       OutputsLookReady
  <2>4. CASE Attempt
    <3> USE DEF At
    <3>1. Reuse \/ RefuseTorn \/ Continue
      BY <1>1, <2>4 DEF Attempt, RefuseRender, RenderMarker, RenderMarked,
         RenderDefconfig, OpenManifest, RenderManifest, RefuseDefconfig,
         CheckProvenance, ResetToolchain, ResetBuild, ResetDefconfig, Acquire,
         RecordProvenance, RemoveReceipt, StartContainer, FinishContainer,
         WriteReceipt, SetAsideSdk, PublishSdk, WriteBuilt
    <3>2. UNCHANGED files
      BY <3>1, Zenon DEF Reuse, RefuseTorn, Continue
    <3> QED BY <2>2, <3>2
  <2>5. CASE \E c \in Commands : Begin(c)
    BY <2>5 DEF Begin, At
  <2>6. CASE \E g \in Goals : Consume(g)
    <3>1. pc = "idle"
      BY <2>6, Zenon DEF Consume, At
    <3> QED BY <3>1
  <2>7. CASE UNCHANGED vars
    BY <2>2, <2>7 DEF vars
  <2> QED BY <2>3, <2>4, <2>5, <2>6, <2>7, Zenon DEF Next
<1>2. CASE pc # "check"
  BY <1>2 DEF FoundInv
<1> QED BY <1>1, <1>2

\* docs/architecture.md:57-60 for every mix of commands and stops: setup.py:443
\* returns a ready workspace before anything is taken apart.
THEOREM ReadyIsKept == Spec => ReadyOnlyLostToUpgrade
<1>1. Init => FoundInv
  BY DEF Init, FoundInv
<1>2. IInv /\ FoundInv /\ [Next]_vars =>
        [pc # "idle" /\ pc' = "idle" =>
           \A goal \in found :
             Ready(goal)' \/ (goal = "sdk" /\ command.goal = "full")]_vars
  BY FoundKept
<1> QED BY <1>1, <1>2, FoundNext, Invariance, PTL DEF Spec, ReadyOnlyLostToUpgrade

-----------------------------------------------------------------------------
(* What an attempt that ends has done, and why one is refused.             *)

\* The files are there in the order in which an attempt makes sure of them.
OrderInv ==
  /\ manifest # "none" => marker # "none"
  /\ pc \in (RenderPoints \ {"render"}) \cup {"record_open", "state_open"} =>
       marker # "none"
  /\ pc \in (BuildPoints \cup ExportPoints) \ {"record_open", "state_open"} => manifest = "ok"
  /\ pc \in {"acquire", "record", "record_open", "unreceipt", "container", "running", "receipt"}
              \cup ExportPoints => defconfig = "ok"
  /\ pc \in {"unreceipt", "container", "running", "receipt"} \cup ExportPoints =>
       prov = "recorded"
  /\ pc \in ExportPoints => Satisfies(receipt, command.goal)
  /\ pc \in {"state", "state_open"} => sdk = "tree"

\* A full build that is promised is one the running attempt has found.
PromiseInv == pc # "idle" /\ "full" \in pending => "full" \in found

LEMMA OrderStep ==
  ASSUME IInv, OrderInv, [Next]_vars
  PROVE  OrderInv'
<1> USE DEF OrderInv, At, Goto, End, Satisfies, RenderPoints, BuildPoints, ExportPoints
<1>0. TypeOK /\ command.goal \in Goals
  BY CommandsAssumption DEF CommandsAssumption, IInv, TypeOK
<1>1. CASE UNCHANGED vars
  BY <1>1 DEF vars, files, attempt
<1>2. CASE \E c \in Commands : Begin(c)
  BY <1>2 DEF Begin, files
<1>3. CASE \E goal \in Goals : Consume(goal)
  <2>1. UNCHANGED <<files, attempt>>
    BY <1>3, Zenon DEF Consume
  <2> QED BY <2>1 DEF files, attempt
<1>4. CASE Stop
  BY <1>4 DEF Stop
<1>5. CASE Reuse \/ RefuseTorn \/ RefuseRender \/ RefuseDefconfig
  <2>1. UNCHANGED files /\ pc' = "idle"
    BY <1>5, Zenon DEF Reuse, RefuseTorn, RefuseRender, RefuseDefconfig
  <2> QED BY <2>1 DEF files
<1>6. CASE Continue
  <2>1. UNCHANGED files /\ pc' = (IF manifest = "ok" /\ ~command.force THEN "build" ELSE "render")
    BY <1>6, Zenon DEF Continue
  <2> QED BY <2>1 DEF files
<1>7. CASE RenderMarker \/ RenderMarked \/ RenderDefconfig \/ RenderManifest
  BY <1>7 DEF RenderMarker, RenderMarked, RenderDefconfig, RenderManifest
<1>8. CASE \/ OpenManifest("render_manifest", "manifest_open")
           \/ OpenManifest("record", "record_open")
           \/ OpenManifest("state", "state_open")
  BY <1>8 DEF OpenManifest
<1>9. CASE CheckProvenance
  BY <1>9 DEF CheckProvenance, files
<1>10. CASE ResetToolchain \/ ResetBuild \/ ResetDefconfig
  BY <1>10 DEF ResetToolchain, ResetBuild, ResetDefconfig
<1>11. CASE Acquire
  <2>1. UNCHANGED <<files, command>> /\ pc = "acquire"
        /\ pc' = (IF BuildSatisfied(command.goal) THEN "export" ELSE "record")
    BY <1>11, Zenon DEF Acquire
  <2> QED BY <2>1 DEF files, BuildSatisfied
<1>12. CASE RecordProvenance \/ RemoveReceipt \/ StartContainer \/ FinishContainer
  BY <1>12 DEF RecordProvenance, RemoveReceipt, StartContainer, FinishContainer
<1>13. CASE WriteReceipt \/ SetAsideSdk \/ PublishSdk
  BY <1>0, <1>13 DEF WriteReceipt, SetAsideSdk, PublishSdk
<1>14. CASE WriteBuilt
  BY <1>14 DEF WriteBuilt
<1> QED
  BY <1>1, <1>2, <1>3, <1>4, <1>5, <1>6, <1>7, <1>8, <1>9, <1>10, <1>11, <1>12, <1>13,
     <1>14, Zenon
  DEF Next, Attempt

\* A kept file keeps the workspace ready.
LEMMA SameReady ==
  ASSUME UNCHANGED files, NEW goal
  PROVE  Ready(goal)' <=> Ready(goal)
BY DEF files, Ready, BuildSatisfied, Satisfies, OutputsLookReady

\* An attempt ends where it finds the workspace ready, is refused or stopped, or has
\* written the "built" state.
LEMMA AttemptKinds ==
  ASSUME [Next]_vars
  PROVE  \/ UNCHANGED vars
         \/ \E c \in Commands : Begin(c)
         \/ \E goal \in Goals : Consume(goal)
         \/ Reuse \/ RefuseTorn \/ RefuseRender \/ RefuseDefconfig \/ WriteBuilt \/ Stop
         \/ Attempt /\ pc # "idle" /\ pc' # "idle" /\ UNCHANGED <<command, found, users>>
<1> USE DEF At, Goto
<1>1. CASE Continue \/ CheckProvenance \/ Acquire
  <2>1. /\ pc \in {"check", "build", "acquire"}
        /\ pc' \in {"build", "render", "acquire", "reset_toolchain", "export", "record"}
        /\ UNCHANGED <<command, found, users>>
    <3>1. CASE Continue
      <4>1. pc = "check" /\ pc' = (IF manifest = "ok" /\ ~command.force THEN "build" ELSE "render")
            /\ UNCHANGED <<command, found>> /\ UNCHANGED users
        BY <3>1, Zenon DEF Continue
      <4> QED BY <4>1
    <3>2. CASE CheckProvenance
      <4>1. pc = "build" /\ pc' = (IF prov = "recorded" THEN "acquire" ELSE "reset_toolchain")
            /\ UNCHANGED <<command, found>> /\ UNCHANGED users
        BY <3>2, Zenon DEF CheckProvenance
      <4> QED BY <4>1
    <3>3. CASE Acquire
      <4>1. pc = "acquire" /\ pc' = (IF BuildSatisfied(command.goal) THEN "export" ELSE "record")
            /\ UNCHANGED <<command, found>> /\ UNCHANGED users
        BY <3>3, Zenon DEF Acquire
      <4> QED BY <4>1
    <3> QED BY <1>1, <3>1, <3>2, <3>3
  <2>2. pc # "idle" /\ pc' # "idle" /\ UNCHANGED <<command, found, users>>
    BY <2>1
  <2>3. Attempt
    BY <1>1, Zenon DEF Attempt
  <2> QED BY <2>2, <2>3
<1>2. CASE \/ RenderMarker \/ RenderMarked \/ RenderDefconfig \/ RenderManifest
           \/ OpenManifest("render_manifest", "manifest_open")
           \/ OpenManifest("record", "record_open")
           \/ OpenManifest("state", "state_open")
           \/ ResetToolchain \/ ResetBuild \/ ResetDefconfig
           \/ RecordProvenance \/ RemoveReceipt \/ StartContainer \/ FinishContainer
           \/ WriteReceipt \/ SetAsideSdk \/ PublishSdk
  <2>1. Attempt
    BY <1>2, Zenon DEF Attempt
  <2>2. pc # "idle" /\ pc' # "idle" /\ UNCHANGED <<command, found, users>>
    BY <1>2 DEF RenderMarker, RenderMarked, RenderDefconfig, RenderManifest, OpenManifest,
     ResetToolchain, ResetBuild, ResetDefconfig, RecordProvenance, RemoveReceipt,
     StartContainer, FinishContainer, WriteReceipt, SetAsideSdk, PublishSdk
  <2> QED BY <2>1, <2>2
<1> QED
  BY <1>1, <1>2, Zenon DEF Next, Attempt

LEMMA PromiseStep ==
  ASSUME IInv, FoundInv, PromiseInv, EnsuredStaysReady, [Next]_vars
  PROVE  PromiseInv'
<1>1. CASE UNCHANGED vars
  BY <1>1 DEF vars, attempt, users, PromiseInv
<1>2. CASE \E c \in Commands : Begin(c)
  <2>1. found' = {goal \in Goals : Ready(goal)} /\ pending' = pending /\ pc = "idle"
    BY <1>2 DEF Begin, users, At
  <2>2. "full" \in pending => Ready("full")
    BY <2>1 DEF EnsuredStaysReady, At
  <2> QED BY <2>1, <2>2 DEF PromiseInv, Goals
<1>3. CASE \E goal \in Goals : Consume(goal)
  <2>1. pc' = "idle"
    BY <1>3, Zenon DEF Consume, At, attempt
  <2> QED BY <2>1 DEF PromiseInv
<1>4. CASE Reuse \/ RefuseTorn \/ RefuseRender \/ RefuseDefconfig \/ WriteBuilt \/ Stop
  <2>1. pc' = "idle"
    BY <1>4, Zenon DEF Reuse, RefuseTorn, RefuseRender, RefuseDefconfig, WriteBuilt, Stop, End
  <2> QED BY <2>1 DEF PromiseInv
<1>5. CASE pc # "idle" /\ pc' # "idle" /\ UNCHANGED <<command, found, users>>
  BY <1>5 DEF PromiseInv, users
<1> QED BY <1>1, <1>2, <1>3, <1>4, <1>5, AttemptKinds, Zenon

\* The end of an attempt that does its work.
LEMMA BuiltIsReady ==
  ASSUME IInv, OrderInv, FoundInv, PromiseInv, WriteBuilt
  PROVE  /\ Ready(command.goal)' /\ "full" \notin pending /\ state' = "built"
         /\ pc = "state_open" /\ UNCHANGED <<command, stops>>
         /\ outcome' = "ensured" /\ pending' = pending \cup {command.goal} /\ pc' = "idle"
<1>1. /\ pc = "state_open" /\ pc' = "idle" /\ outcome' = "ensured"
      /\ manifest' = "ok" /\ state' = "built" /\ pending' = pending \cup {command.goal}
      /\ UNCHANGED <<marker, prov, defconfig, receipt, outputs, sdk, hidden, stops>>
      /\ UNCHANGED <<command, found>>
  BY Zenon DEF WriteBuilt, At, End
<1>2. /\ command.goal \in Goals
      /\ defconfig = "ok" /\ prov = "recorded" /\ sdk = "tree"
      /\ Satisfies(receipt, command.goal) /\ Vouched
  BY <1>1, CommandsAssumption
  DEF CommandsAssumption, IInv, TypeOK, OrderInv, ExportPoints
<1>3. Satisfies(outputs, command.goal)
  BY <1>2 DEF Vouched, Satisfies, Goals
<1>4. Ready(command.goal)'
  BY <1>1, <1>2, <1>3 DEF Ready, BuildSatisfied, OutputsLookReady, Satisfies
<1>5. "full" \notin pending
  BY <1>1 DEF PromiseInv, FoundInv
<1> QED BY <1>1, <1>4, <1>5

LEMMA EnsuredStep ==
  ASSUME IInv, OrderInv, FoundInv, PromiseInv, EnsuredStaysReady, [Next]_vars
  PROVE  EnsuredStaysReady'
<1> USE DEF At
<1>0. command \in Commands /\ command.goal \in Goals
  BY CommandsAssumption DEF CommandsAssumption, IInv, TypeOK
<1>a. ASSUME pc' # "idle" PROVE EnsuredStaysReady'
  BY <1>a DEF EnsuredStaysReady
\* What was promised a full build has it still, where the files are kept.
<1>b. ASSUME UNCHANGED files, pc \in {"idle", "check"}, "full" \in pending
      PROVE  Ready("full")'
  BY <1>b, SameReady DEF EnsuredStaysReady, PromiseInv, FoundInv
<1>c. pc \notin {"idle", "check"} => "full" \notin pending
  BY DEF PromiseInv, FoundInv
<1>1. CASE UNCHANGED vars
  <2>1. UNCHANGED <<files, pc, command, pending, outcome>>
    BY <1>1 DEF vars, attempt, users
  <2>2. \A goal : Ready(goal)' <=> Ready(goal)
    BY <2>1, SameReady
  <2> QED BY <2>1, <2>2 DEF EnsuredStaysReady
<1>2. CASE \E c \in Commands : Begin(c)
  BY <1>2, <1>a DEF Begin
<1>3. CASE \E goal \in Goals : Consume(goal)
  <2>1. /\ UNCHANGED files /\ pc = "idle" /\ outcome' # "ensured" /\ pending' \subseteq pending
    <3> PICK goal \in Goals : Consume(goal)
      BY <1>3
    <3>1. UNCHANGED files /\ pc = "idle" /\ pending' = pending \ {goal}
      BY Zenon DEF Consume
    <3>2. outcome' = "consumed" \/ outcome' = "incomplete_backend" \/ outcome' = "changed"
      BY Zenon DEF Consume
    <3> QED BY <3>1, <3>2
  <2> QED BY <2>1, <1>b DEF EnsuredStaysReady
<1>4. CASE Reuse
  <2>1. /\ UNCHANGED <<files, command>> /\ pc = "check" /\ Ready(command.goal)
        /\ pending' = pending \cup {command.goal}
    BY <1>4, Zenon DEF Reuse, End
  <2>2. Ready(command.goal)'
    BY <2>1, SameReady
  <2>3. "full" \in pending' => Ready("full")'
    BY <2>1, <2>2, <1>b
  <2>4. command' = command
    BY <2>1
  <2> QED BY <2>2, <2>3, <2>4 DEF EnsuredStaysReady
<1>5. CASE RefuseTorn \/ RefuseRender \/ RefuseDefconfig
  <2>1. /\ UNCHANGED <<files, pending>> /\ pc # "idle"
        /\ \/ outcome' = "invalid_workspace" \/ outcome' = "unowned"
           \/ outcome' = "needs_force" \/ outcome' = "needs_render"
    BY <1>5, Zenon DEF RefuseTorn, RefuseRender, RefuseDefconfig, End
  <2> QED BY <2>1, <1>b, <1>c DEF EnsuredStaysReady
<1>6. CASE WriteBuilt
  <2>1. /\ Ready(command.goal)' /\ "full" \notin pending /\ command' = command
        /\ pending' = pending \cup {command.goal}
    BY <1>6, BuiltIsReady
  <2> QED BY <2>1 DEF EnsuredStaysReady
<1>7. CASE Stop
  <2>1. /\ sdk' \in {sdk} \cup ({hidden} \ {"none"})
        /\ outcome' = "stopped" /\ pending' = pending /\ pc # "idle"
        /\ UNCHANGED <<marker, manifest, state, prov, defconfig, receipt, outputs>>
    BY <1>0, <1>7, StopPointsAssumption DEF Stop, End
  <2>2. Ready("full") => Ready("full")'
    BY <2>1 DEF IInv, TypeOK, Ready, BuildSatisfied, Satisfies, OutputsLookReady
  <2> QED BY <2>1, <2>2, <1>c DEF EnsuredStaysReady, PromiseInv, FoundInv
<1> QED BY <1>a, <1>1, <1>2, <1>3, <1>4, <1>5, <1>6, <1>7, AttemptKinds, Zenon

\* A refusal is for a wreck.
LEMMA WreckStep ==
  ASSUME IInv, OrderInv, OnlyWrecksRefuse, [Next]_vars
  PROVE  OnlyWrecksRefuse'
<1> USE DEF At
<1>a. ASSUME pc' # "idle" PROVE OnlyWrecksRefuse'
  BY <1>a DEF OnlyWrecksRefuse
<1>b. ASSUME outcome' \in {"none", "ensured", "stopped", "consumed", "changed"}
      PROVE  OnlyWrecksRefuse'
  BY <1>b DEF OnlyWrecksRefuse, Refusals
<1>c. ASSUME UNCHANGED files, pc' = "idle",
             \/ Populated /\ ~Owned
             \/ Owned /\ defconfig = "none"
             \/ Ready("full") /\ state # "built"
      PROVE  OnlyWrecksRefuse'
  <2>1. /\ Populated' <=> Populated
        /\ Owned' <=> Owned
        /\ defconfig' = defconfig /\ state' = state
        /\ Ready("full")' <=> Ready("full")
    BY <1>c, SameReady DEF files, Populated, Owned
  <2> QED BY <1>c, <2>1 DEF OnlyWrecksRefuse, Wreck
<1>1. CASE UNCHANGED vars
  <2>1. UNCHANGED <<files, pc, outcome>>
    BY <1>1 DEF vars, attempt, users
  <2>2. pc = "idle" /\ outcome \in Refusals \ {"changed"} =>
          \/ Populated /\ ~Owned
          \/ Owned /\ defconfig = "none"
          \/ Ready("full") /\ state # "built"
    BY DEF OnlyWrecksRefuse, Wreck
  <2>3. CASE pc = "idle" /\ outcome \in Refusals \ {"changed"}
    BY <1>c, <2>1, <2>2, <2>3
  <2>4. CASE ~(pc = "idle" /\ outcome \in Refusals \ {"changed"})
    BY <2>1, <2>4 DEF OnlyWrecksRefuse
  <2> QED BY <2>3, <2>4
<1>2. CASE \E c \in Commands : Begin(c)
  BY <1>2, <1>a DEF Begin
<1>3. CASE \E goal \in Goals : Consume(goal)
  <2> PICK goal \in Goals : Consume(goal)
    BY <1>3
  <2>1. UNCHANGED <<files, attempt>> /\ pc = "idle"
    BY Zenon DEF Consume
  <2>2. \/ outcome' = "consumed" \/ outcome' = "changed"
        \/ outcome' = "incomplete_backend" /\ goal = "full" /\ Ready(goal) /\ state # "built"
    BY Zenon DEF Consume
  <2>3. pc' = "idle"
    BY <2>1 DEF attempt
  <2>4. CASE outcome' = "consumed" \/ outcome' = "changed"
    BY <1>b, <2>4
  <2>5. CASE goal = "full" /\ Ready(goal) /\ state # "built"
    BY <1>c, <2>1, <2>3, <2>5
  <2> QED BY <2>2, <2>4, <2>5
<1>4. CASE Reuse \/ WriteBuilt \/ Stop
  <2>1. outcome' = "ensured" \/ outcome' = "stopped"
    BY <1>4, Zenon DEF Reuse, WriteBuilt, Stop, End
  <2> QED BY <2>1, <1>b
<1>5. CASE RefuseTorn
  <2>1. UNCHANGED files /\ pc' = "idle" /\ manifest = "torn"
    BY <1>5, Zenon DEF RefuseTorn, End
  <2> QED BY <2>1, <1>c DEF OrderInv, Populated, Owned
<1>6. CASE RefuseRender
  <2>1. UNCHANGED files /\ pc' = "idle" /\ Populated /\ (~Owned \/ manifest = "none")
    BY <1>6, Zenon DEF RefuseRender, End
  <2> QED BY <2>1, <1>c DEF Owned
<1>7. CASE RefuseDefconfig
  <2>1. UNCHANGED files /\ pc = "build" /\ pc' = "idle" /\ defconfig # "ok"
    BY <1>7, Zenon DEF RefuseDefconfig, End
  <2>2. manifest = "ok" /\ defconfig = "none" /\ marker # "none"
    BY <2>1 DEF OrderInv, BuildPoints, IInv, TypeOK
  <2> QED BY <2>1, <2>2, <1>c DEF Populated, Owned
<1> QED BY <1>a, <1>1, <1>2, <1>3, <1>4, <1>5, <1>6, <1>7, AttemptKinds, Zenon

\* Without stops every attempt finds what the previous ones have left in order.
Orderly ==
  stops = 0 =>
    /\ outcome \in {"none", "ensured", "consumed"}
    /\ pc \in {"idle", "check", "render"} => marker = "none" \/ (Owned /\ defconfig = "ok")
    /\ pc \in {"idle", "check"} =>
         /\ Ready("full") => state = "built"
         /\ \A goal \in pending : Ready(goal)
    /\ pc \in {"defconfig", "render_manifest", "manifest_open"} \cup BuildPoints \cup ExportPoints =>
         marker = "ok"
    /\ pc \in {"render_manifest", "manifest_open", "build"} => defconfig = "ok"

LEMMA OrderlyStep ==
  ASSUME IInv, OrderInv, FoundInv, PromiseInv, Orderly, [Next]_vars
  PROVE  Orderly'
<1> USE DEF At, Goto, End
<1>0. TypeOK /\ command.goal \in Goals /\ pending \subseteq Goals
  BY CommandsAssumption DEF CommandsAssumption, IInv, TypeOK
<1>1. SUFFICES ASSUME stops' = 0 PROVE Orderly'
  BY DEF Orderly
<1>2. stops = 0 /\ ~Stop
  <2>1. Stop => stops' = stops + 1
    BY Zenon DEF Stop
  <2>2. Stop \/ stops' = stops
    <3>1. ASSUME UNCHANGED users PROVE stops' = stops
      BY <3>1 DEF users
    <3>2. (\E goal \in Goals : Consume(goal)) => stops' = stops
      BY Zenon DEF Consume
    <3>3. Reuse \/ RefuseTorn \/ RefuseRender \/ RefuseDefconfig \/ WriteBuilt => stops' = stops
      BY Zenon DEF Reuse, RefuseTorn, RefuseRender, RefuseDefconfig, WriteBuilt
    <3>4. (\E c \in Commands : Begin(c)) => UNCHANGED users
      BY Zenon DEF Begin
    <3>5. UNCHANGED vars => UNCHANGED users
      BY DEF vars
    <3> QED BY <3>1, <3>2, <3>3, <3>4, <3>5, AttemptKinds, Zenon
  <2> QED BY <1>0, <1>1, <2>1, <2>2 DEF TypeOK
<1>3. /\ outcome \in {"none", "ensured", "consumed"}
      /\ pc \in {"idle", "check", "render"} => marker = "none" \/ (Owned /\ defconfig = "ok")
      /\ pc \in {"idle", "check"} =>
           (Ready("full") => state = "built") /\ \A goal \in pending : Ready(goal)
      /\ pc \in {"defconfig", "render_manifest", "manifest_open"} \cup BuildPoints \cup ExportPoints =>
           marker = "ok"
      /\ pc \in {"render_manifest", "manifest_open", "build"} => defconfig = "ok"
  BY <1>2 DEF Orderly
<1>a. UNCHANGED files => /\ Owned' <=> Owned
                         /\ \A goal : Ready(goal)' <=> Ready(goal)
                         /\ marker' = marker /\ defconfig' = defconfig /\ state' = state
  BY SameReady DEF files, Owned
\* From idle or the check to either, with the files as they are.
<1>b. ASSUME UNCHANGED files, pc \in {"idle", "check"}, pc' \in {"idle", "check"},
             outcome' \in {"none", "ensured", "consumed"}, \A goal \in pending' : Ready(goal)
      PROVE  Orderly'
  BY <1>3, <1>a, <1>b DEF Orderly, BuildPoints, ExportPoints
<1>4. CASE UNCHANGED vars
  <2>1. UNCHANGED <<files, pc, pending, outcome>>
    BY <1>4 DEF vars, attempt, users
  <2> QED BY <1>3, <1>a, <2>1 DEF Orderly
<1>5. CASE \E c \in Commands : Begin(c)
  <2>1. UNCHANGED files /\ pc = "idle" /\ pc' = "check" /\ UNCHANGED <<pending, outcome>>
    BY <1>5 DEF Begin, users
  <2> QED BY <1>3, <1>b, <2>1
<1>6. CASE \E goal \in Goals : Consume(goal)
  <2> PICK goal \in Goals : Consume(goal)
    BY <1>6
  <2>1. /\ UNCHANGED files /\ UNCHANGED attempt /\ pc = "idle" /\ goal \in pending
        /\ pending' = pending \ {goal}
        /\ Ready(goal) /\ (goal = "full" => state = "built") => outcome' = "consumed"
    BY Zenon DEF Consume
  <2>2. Ready(goal) /\ (goal = "full" => state = "built")
    BY <1>3, <2>1
  <2>3. pc' = pc
    BY <2>1 DEF attempt
  <2> QED BY <1>3, <1>b, <2>1, <2>2, <2>3
<1>7. CASE Reuse
  <2>1. /\ UNCHANGED files /\ pc = "check" /\ pc' = "idle" /\ Ready(command.goal)
        /\ pending' = pending \cup {command.goal} /\ outcome' = "ensured"
    BY <1>7, Zenon DEF Reuse
  <2> QED BY <1>3, <1>b, <2>1
<1>8. CASE RefuseTorn
  <2>1. pc = "check" /\ manifest = "torn"
    BY <1>8, Zenon DEF RefuseTorn
  <2> QED BY <1>3, <2>1 DEF OrderInv, Owned
<1>9. CASE RefuseRender
  <2>1. pc = "render" /\ Populated /\ (~Owned \/ manifest = "none")
    BY <1>9, Zenon DEF RefuseRender
  <2> QED BY <1>3, <2>1 DEF Populated, Owned
<1>10. CASE RefuseDefconfig
  <2>1. pc = "build" /\ defconfig # "ok"
    BY <1>10, Zenon DEF RefuseDefconfig
  <2> QED BY <1>3, <2>1
<1>11. CASE WriteBuilt
  <2>1. /\ Ready(command.goal)' /\ "full" \notin pending /\ state' = "built"
        /\ pc = "state_open" /\ command' = command
        /\ outcome' = "ensured" /\ pending' = pending \cup {command.goal} /\ pc' = "idle"
    BY <1>11, BuiltIsReady
  <2>2. marker' = marker /\ manifest' = "ok" /\ defconfig' = defconfig
    BY <1>11, Zenon DEF WriteBuilt
  <2>3. Owned' /\ defconfig' = "ok"
    BY <1>3, <2>1, <2>2 DEF Owned, OrderInv, ExportPoints
  <2>4. (\A goal \in pending : Ready(goal))'
    <3>1. Ready("full")' => Ready("sdk")'
      BY DEF Ready, BuildSatisfied, Satisfies, OutputsLookReady, Goals
    <3>2. pending \subseteq {"sdk"}
      BY <1>0, <2>1 DEF Goals
    <3>3. Ready("sdk")'
      <4>1. CASE command.goal = "sdk"
        BY <2>1, <4>1
      <4>2. CASE command.goal = "full"
        BY <2>1, <3>1, <4>2
      <4> QED BY <1>0, <4>1, <4>2 DEF Goals
    <3> QED BY <2>1, <3>2, <3>3
  <2> QED BY <2>1, <2>3, <2>4 DEF Orderly, BuildPoints, ExportPoints
<1>12. CASE Attempt /\ pc # "idle" /\ pc' # "idle" /\ UNCHANGED <<command, found, users>>
  <2>0. outcome' \in {"none", "ensured", "consumed"} /\ pc # "idle"
    BY <1>3, <1>12 DEF users
  <2> USE DEF Orderly, BuildPoints, ExportPoints
  <2>1. CASE Reuse \/ RefuseTorn \/ RefuseRender \/ RefuseDefconfig \/ WriteBuilt
    BY <1>7, <1>8, <1>9, <1>10, <1>11, <2>1
  <2>2. CASE Continue
    <3>1. /\ pc = "check" /\ UNCHANGED files
          /\ pc' = (IF manifest = "ok" /\ ~command.force THEN "build" ELSE "render")
      BY <2>2, Zenon DEF Continue
    <3>2. manifest = "ok" => marker = "ok" /\ defconfig = "ok"
      BY <1>3, <3>1 DEF OrderInv, Owned
    <3> QED BY <1>3, <1>a, <2>0, <3>1, <3>2
  <2>3. CASE RenderMarker
    BY <2>0, <2>3 DEF RenderMarker
  <2>4. CASE RenderMarked
    BY <2>0, <2>4 DEF RenderMarked
  <2>5. CASE RenderDefconfig \/ RenderManifest
    BY <1>3, <2>0, <2>5 DEF RenderDefconfig, RenderManifest
  <2>6. CASE \/ OpenManifest("render_manifest", "manifest_open")
             \/ OpenManifest("record", "record_open")
             \/ OpenManifest("state", "state_open")
    BY <1>3, <2>0, <2>6 DEF OpenManifest
  <2>7. CASE CheckProvenance
    BY <1>3, <2>0, <2>7 DEF CheckProvenance, files
  <2>8. CASE ResetToolchain \/ ResetBuild \/ ResetDefconfig
    BY <1>3, <2>0, <2>8 DEF ResetToolchain, ResetBuild, ResetDefconfig
  <2>9. CASE Acquire
    <3>1. UNCHANGED files /\ pc = "acquire" /\ (pc' = "export" \/ pc' = "record")
      BY <2>9, Zenon DEF Acquire
    <3> QED BY <1>3, <1>a, <2>0, <3>1
  <2>10. CASE RecordProvenance \/ RemoveReceipt \/ StartContainer \/ FinishContainer
    BY <1>3, <2>0, <2>10 DEF RecordProvenance, RemoveReceipt, StartContainer, FinishContainer
  <2>11. CASE WriteReceipt \/ SetAsideSdk \/ PublishSdk
    BY <1>3, <2>0, <2>11 DEF WriteReceipt, SetAsideSdk, PublishSdk
  <2> QED
    BY <1>12, <2>1, <2>2, <2>3, <2>4, <2>5, <2>6, <2>7, <2>8, <2>9, <2>10, <2>11, Zenon
    DEF Attempt
<1> QED
  BY <1>2, <1>4, <1>5, <1>6, <1>7, <1>8, <1>9, <1>10, <1>11, <1>12, AttemptKinds, Zenon

\* What the three theorems rest on.
UseInv ==
  IInv /\ OrderInv /\ FoundInv /\ PromiseInv /\ EnsuredStaysReady /\ OnlyWrecksRefuse /\ Orderly

LEMMA InitUseInv == Init => UseInv
<1> SUFFICES ASSUME Init PROVE UseInv
  OBVIOUS
<1>1. OrderInv /\ FoundInv /\ PromiseInv
  BY DEF Init, OrderInv, FoundInv, PromiseInv, RenderPoints, BuildPoints, ExportPoints
<1>2. EnsuredStaysReady /\ OnlyWrecksRefuse
  BY DEF Init, EnsuredStaysReady, OnlyWrecksRefuse, Refusals
<1>3. Orderly
  BY DEF Init, Orderly, Ready, BuildPoints, ExportPoints
<1> QED BY <1>1, <1>2, <1>3, InitIInv DEF UseInv

LEMMA NextUseInv == UseInv /\ [Next]_vars => UseInv'
<1> SUFFICES ASSUME UseInv, [Next]_vars PROVE UseInv'
  OBVIOUS
<1> USE DEF UseInv
<1>1. IInv' /\ OrderInv' /\ FoundInv'
  BY NextIInv, OrderStep, FoundNext
<1>2. PromiseInv' /\ EnsuredStaysReady' /\ OnlyWrecksRefuse' /\ Orderly'
  BY PromiseStep, EnsuredStep, WreckStep, OrderlyStep
<1> QED BY <1>1, <1>2

\* No rerun refuses a workspace but for what the documentation has no remedy for
\* (setup.py:429-483, sdk/crosstool_ng.py:613-632, 1505-1545).
THEOREM RefusalsAreWrecks == Spec => []OnlyWrecksRefuse
<1>1. UseInv => OnlyWrecksRefuse
  BY DEF UseInv
<1> QED BY <1>1, InitUseInv, NextUseInv, PTL DEF Spec

\* A setup gets a workspace that is ready for it, and a full build it relies on is
\* not lost to attempts in between (setup.py:443, 483).
THEOREM EnsuredIsReady == Spec => []EnsuredStaysReady
<1>1. UseInv => EnsuredStaysReady
  BY DEF UseInv
<1> QED BY <1>1, InitUseInv, NextUseInv, PTL DEF Spec

\* Without stops every attempt ensures its SDK and every setup consumes it.
THEOREM UndisturbedConsume == Spec => []UndisturbedSetupsConsume
<1>1. UseInv => UndisturbedSetupsConsume
  BY DEF UseInv, Orderly, UndisturbedSetupsConsume, At, Wreck, Populated, Owned
<1> QED BY <1>1, InitUseInv, NextUseInv, PTL DEF Spec

-----------------------------------------------------------------------------
(* The leases of the store.                                                *)

Exclusion ==
  \A p, q \in Setups : p # q => \A l \in held[p], m \in held[q] : ~Conflict(l, m)

ProcessInv(p) ==
  /\ phase[p] = "idle" => held[p] = {} /\ source[p] = {}
  /\ held[p] \subseteq Needs(p)
  /\ \A l \in held[p], m \in Missing(p) : Position[l[1]] < Position[m[1]]
  /\ source[p] # {} => Leases(p) \subseteq held[p]

LeaseIInv == LeaseTypeOK /\ Exclusion /\ \A p \in Setups : ProcessInv(p)

-----------------------------------------------------------------------------
(* The leases of a with block.                                             *)

LEMMA PositionType ==
  ASSUME NEW l \in Locks
  PROVE  Cardinality(Locks) \in Nat /\ Position[l] \in Nat
         /\ Position[l] < Cardinality(Locks)
<1>1. Cardinality(Locks) \in Nat
  BY LocksAssumption, FS_CardinalityType DEF LocksAssumption
<1> QED BY <1>1, PositionAssumption DEF PositionAssumption

LEMMA StateLeaseIsOne ==
  ASSUME NEW p \in Setups
  PROVE  \E mode \in Modes : StateLease(p) = {<<State(p), mode>>}
BY DEF StateLease, Modes

\* Every lease lies after the state lock and before the source locks.
LEMMA LeaseBounds ==
  ASSUME NEW p \in Setups, NEW l \in Leases(p)
  PROVE  /\ l \in Locks \X Modes
         /\ Position[l[1]] \in Nat
         /\ l \in StateLease(p) \/ Position[State(p)] < Position[l[1]]
         /\ \A s \in Sources : Position[l[1]] < Position[s]
<1> USE DEF Modes
<1>1. /\ State(p) \in Locks /\ Target(p) \in Locks /\ Backend(p) \in Locks
      /\ Tools(p) \in Locks /\ Artifacts(p) \subseteq Locks /\ Sources \subseteq Locks
  BY LocksAssumption DEF LocksAssumption
<1>2. \A k \in Locks : Position[k] \in Nat
  BY PositionType
<1>3. /\ Position[State(p)] < Position[Target(p)]
      /\ Position[State(p)] < Position[Backend(p)]
      /\ Position[Target(p)] < Position[Tools(p)]
      /\ Position[Backend(p)] < Position[Tools(p)]
      /\ \A a \in Artifacts(p) : /\ Position[Tools(p)] < Position[a]
                                 /\ \A s \in Sources : Position[a] < Position[s]
  BY PositionAssumption DEF PositionAssumption
<1>4. Kit(p) \in Artifacts(p)
  BY DEF Artifacts
<1>5. l \in StateLease(p)
        \/ l \in ({Target(p), Backend(p), Tools(p)} \cup Artifacts(p)) \X Modes
  BY DEF Leases, AssemblyLeases, InputLeases
<1>6. CASE l \in StateLease(p)
  BY <1>1, <1>2, <1>3, <1>4, <1>6 DEF StateLease
<1>7. CASE l \in ({Target(p), Backend(p), Tools(p)} \cup Artifacts(p)) \X Modes
  <2>1. l \in Locks \X Modes
    BY <1>1, <1>7
  <2>2. l[1] \in {Target(p), Backend(p), Tools(p)} \cup Artifacts(p)
    BY <1>7
  <2> QED BY <1>1, <1>2, <1>3, <1>4, <2>1, <2>2
<1> QED BY <1>5, <1>6, <1>7

\* A with block wants no lock in two modes, so its leases have distinct positions.
LEMMA LeasesDiffer ==
  ASSUME LeaseTypeOK, NEW p \in Setups, NEW l \in Needs(p), NEW m \in Needs(p), l # m
  PROVE  Position[l[1]] # Position[m[1]]
<1> USE DEF Modes
<1>1. /\ Position[State(p)] < Position[Target(p)]
      /\ Position[State(p)] < Position[Backend(p)]
      /\ Position[Target(p)] < Position[Tools(p)]
      /\ Position[Backend(p)] < Position[Tools(p)]
      /\ \A a \in Artifacts(p) : Position[Tools(p)] < Position[a]
  BY PositionAssumption DEF PositionAssumption
<1>2. \A k \in Locks : Position[k] \in Nat
  BY PositionType
<1>3. /\ State(p) \in Locks /\ Target(p) \in Locks /\ Backend(p) \in Locks
      /\ Tools(p) \in Locks /\ Artifacts(p) \subseteq Locks /\ Sources \subseteq Locks
  BY LocksAssumption DEF LocksAssumption
<1>4. CASE l \in Leases(p) /\ m \in Leases(p)
  <2>1. l[1] \in Locks /\ m[1] \in Locks
    BY <1>4, LeaseBounds
  <2>2. l[1] # m[1]
    <3>1. CASE l \in StateLease(p) /\ m \in StateLease(p)
      BY <3>1, StateLeaseIsOne
    <3>2. CASE l \in StateLease(p) /\ m \notin StateLease(p)
      BY <1>2, <1>3, <1>4, <3>2, LeaseBounds DEF StateLease
    <3>3. CASE l \notin StateLease(p) /\ m \in StateLease(p)
      BY <1>2, <1>3, <1>4, <3>3, LeaseBounds DEF StateLease
    <3>4. CASE l \notin StateLease(p) /\ m \notin StateLease(p)
      <4>1. CASE phase[p] = "assemble"
        <5>1. /\ l \in ({Target(p), Backend(p)} \X {"SH"}) \cup (Artifacts(p) \X {"EX"})
              /\ m \in ({Target(p), Backend(p)} \X {"SH"}) \cup (Artifacts(p) \X {"EX"})
          BY <1>4, <3>4, <4>1 DEF Leases, AssemblyLeases
        <5>2. \A a \in Artifacts(p) : a # Target(p) /\ a # Backend(p)
          BY <1>1, <1>2, <1>3
        <5> QED BY <5>1, <5>2
      <4>2. CASE phase[p] = "tools"
        <5>1. l \in {<<Backend(p), "SH">>, <<Tools(p), "EX">>}
              /\ m \in {<<Backend(p), "SH">>, <<Tools(p), "EX">>}
          BY <1>4, <3>4, <4>2 DEF Leases
        <5>2. Backend(p) # Tools(p)
          BY <1>1, <1>2, <1>3
        <5> QED BY <5>1, <5>2
      <4>3. CASE phase[p] \notin {"assemble", "tools"}
        <5>1. \/ l = <<Target(p), "EX">> /\ m = <<Target(p), "EX">>
              \/ l = <<Backend(p), "EX">> /\ m = <<Backend(p), "EX">>
              \/ l \in InputLeases(p) /\ m \in InputLeases(p)
          BY <1>4, <3>4, <4>3 DEF Leases
        <5> QED BY <5>1 DEF InputLeases
      <4> QED BY <4>1, <4>2, <4>3
    <3> QED BY <3>1, <3>2, <3>3, <3>4
  <2> QED BY <2>1, <2>2, PositionAssumption DEF PositionAssumption
<1>5. CASE l \in Leases(p) /\ m \in source[p] \X {"EX"}
  BY <1>2, <1>3, <1>5, LeaseBounds DEF LeaseTypeOK
<1>6. CASE l \in source[p] \X {"EX"} /\ m \in Leases(p)
  BY <1>2, <1>3, <1>6, LeaseBounds DEF LeaseTypeOK
<1>7. CASE l \in source[p] \X {"EX"} /\ m \in source[p] \X {"EX"}
  <2>1. l[1] # m[1] /\ l[1] \in Locks /\ m[1] \in Locks
    BY <1>3, <1>7 DEF LeaseTypeOK
  <2> QED BY <2>1, PositionAssumption DEF PositionAssumption
<1> QED BY <1>4, <1>5, <1>6, <1>7 DEF Needs

-----------------------------------------------------------------------------
(* The invariant.                                                          *)

LEMMA InitLeaseIInv == LeaseInit => LeaseIInv
BY LocksAssumption
   DEF LocksAssumption, LeaseInit, LeaseIInv, LeaseTypeOK, Exclusion, ProcessInv, Missing

\* What another process does leaves a process as it is.
LEMMA Frame ==
  ASSUME NEW q \in Setups, ProcessInv(q),
         phase'[q] = phase[q], held'[q] = held[q], source'[q] = source[q]
  PROVE  ProcessInv(q)'
<1>1. StateLease(q)' = StateLease(q)
  BY DEF StateLease
<1>2. Leases(q)' = Leases(q)
  BY <1>1 DEF Leases, AssemblyLeases, InputLeases
<1> QED BY <1>2 DEF ProcessInv, Missing, Needs

\* A step of p alone that takes no lease.
LEMMA Shrink ==
  ASSUME LeaseIInv, NEW p \in Setups, held'[p] \subseteq held[p],
         \A q \in Setups \ {p} : held'[q] = held[q]
  PROVE  Exclusion'
BY DEF LeaseIInv, Exclusion, Conflict

LEMMA TakeLeaseIInv ==
  ASSUME LeaseIInv, NEW p \in Setups, NEW l \in Missing(p), TakeLease(p, l)
  PROVE  LeaseIInv'
<1>1. /\ held' = [held EXCEPT ![p] = held[p] \cup {l}]
      /\ UNCHANGED <<phase, todo, source, runs>>
      /\ phase[p] # "idle" /\ First(p, l) /\ Free(p, l)
  BY DEF TakeLease
<1>2. held'[p] = held[p] \cup {l} /\ \A q \in Setups \ {p} : held'[q] = held[q]
  BY <1>1 DEF LeaseIInv, LeaseTypeOK
<1>3. l \in Needs(p)
  BY DEF Missing
<1>4. l \in Locks \X Modes
  BY <1>3, LeaseBounds, LocksAssumption DEF LocksAssumption, Needs, LeaseIInv, LeaseTypeOK, Modes
<1>5. LeaseTypeOK'
  BY <1>1, <1>4 DEF LeaseIInv, LeaseTypeOK
<1>6. Exclusion'
  <2> SUFFICES ASSUME NEW q \in Setups, NEW r \in Setups, q # r,
                      NEW k \in held'[q], NEW m \in held'[r]
               PROVE  ~Conflict(k, m)
    BY DEF Exclusion, Conflict
  <2>1. CASE k \in held[q] /\ m \in held[r]
    BY <2>1 DEF LeaseIInv, Exclusion
  <2>2. CASE q = p /\ k = l
    BY <1>1, <1>2, <2>2 DEF Free
  <2>3. CASE r = p /\ m = l
    BY <1>1, <1>2, <2>3 DEF Free, Conflict
  <2> QED BY <1>2, <2>1, <2>2, <2>3
<1>7. ProcessInv(p)'
  <2>1. Leases(p)' = Leases(p)
    BY <1>1 DEF Leases, StateLease, AssemblyLeases, InputLeases
  <2>2. Needs(p)' = Needs(p)
    BY <1>1, <2>1 DEF Needs
  <2>3. Missing(p)' = Missing(p) \ {l}
    BY <1>2, <2>2 DEF Missing
  <2>4. ASSUME NEW k \in held'[p], NEW m \in Missing(p)'
        PROVE  Position[k[1]] < Position[m[1]]
    <3>1. m \in Missing(p) /\ m # l
      BY <2>3
    <3>2. CASE k \in held[p]
      BY <3>1, <3>2 DEF LeaseIInv, ProcessInv
    <3>3. CASE k = l
      <4>1. Position[l[1]] <= Position[m[1]]
        BY <1>1, <3>1 DEF First
      <4>2. m \in Needs(p) /\ l \in Needs(p) /\ m # l
        BY <1>3, <3>1 DEF Missing
      <4>3. Position[l[1]] # Position[m[1]]
        BY <4>2, LeasesDiffer DEF LeaseIInv
      <4>4. l[1] \in Locks /\ m[1] \in Locks
        <5>1. m \in Locks \X Modes
          BY <4>2, LeaseBounds, LocksAssumption DEF LocksAssumption, Needs, LeaseIInv, LeaseTypeOK,
             Modes
        <5> QED BY <1>4, <5>1
      <4>5. Position[l[1]] \in Nat /\ Position[m[1]] \in Nat
        BY <4>4, PositionType
      <4> QED BY <3>3, <4>1, <4>3, <4>5
    <3> QED BY <1>2, <3>2, <3>3
  <2> QED BY <1>1, <1>2, <1>3, <2>1, <2>2, <2>4 DEF LeaseIInv, ProcessInv
<1>8. ASSUME NEW q \in Setups, q # p PROVE ProcessInv(q)'
  BY <1>1, <1>2, <1>8, Frame DEF LeaseIInv
<1> QED BY <1>5, <1>6, <1>7, <1>8 DEF LeaseIInv

\* The steps that give leases back or take none.
LEMMA StartIInv ==
  ASSUME LeaseIInv, NEW p \in Setups, Start(p)
  PROVE  LeaseIInv'
<1>1. PICK first \in {"enter", "open"} :
        /\ phase[p] = "idle" /\ runs[p] < MaxRuns
        /\ phase' = [phase EXCEPT ![p] = first]
        /\ runs' = [runs EXCEPT ![p] = runs[p] + 1]
        /\ UNCHANGED <<held, todo, source>>
  BY DEF Start
<1>2. runs[p] \in 0 .. MaxRuns /\ MaxRuns \in Nat
  BY LocksAssumption DEF LocksAssumption, LeaseIInv, LeaseTypeOK
<1>3. LeaseTypeOK'
  BY <1>1, <1>2 DEF LeaseIInv, LeaseTypeOK, Phases
<1>4. ProcessInv(p)'
  BY <1>1 DEF LeaseIInv, LeaseTypeOK, ProcessInv
<1>5. ASSUME NEW q \in Setups, q # p PROVE ProcessInv(q)'
  BY <1>1, <1>5, Frame DEF LeaseIInv, LeaseTypeOK
<1>6. Exclusion'
  BY <1>1 DEF LeaseIInv, Exclusion, Conflict
<1> QED BY <1>3, <1>4, <1>5, <1>6 DEF LeaseIInv

LEMMA MoveIInv ==
  ASSUME LeaseIInv, NEW p \in Setups, NEW from \in Phases, NEW to \in Phases, Move(p, from, to),
         from \notin {"open", "bundle"}, to \notin {"open", "bundle"}
  PROVE  LeaseIInv'
<1>1. /\ phase[p] = from /\ Idling(p)
      /\ phase' = [phase EXCEPT ![p] = to]
      /\ held' = [held EXCEPT ![p] = StateLease(p)]
      /\ todo' = [todo EXCEPT ![p] = IF to \in BuildPhases THEN Sources ELSE {}]
      /\ UNCHANGED <<source, runs>>
  BY DEF Move
<1>2. held'[p] = StateLease(p) /\ \A q \in Setups \ {p} : held'[q] = held[q]
  BY <1>1 DEF LeaseIInv, LeaseTypeOK
<1>3. phase'[p] = to /\ \A q \in Setups \ {p} : phase'[q] = phase[q]
  BY <1>1 DEF LeaseIInv, LeaseTypeOK
<1>4. StateLease(p) \subseteq held[p] /\ source[p] = {}
  BY <1>1 DEF Idling, Using, Leases
<1>5. LeaseTypeOK'
  BY <1>1, <1>4 DEF LeaseIInv, LeaseTypeOK
<1>6. Exclusion'
  BY <1>2, <1>4, Shrink
<1>7. ProcessInv(p)'
  <2>1. StateLease(p)' = StateLease(p)
    BY <1>1, <1>3 DEF StateLease
  <2>2. Needs(p)' = Leases(p)'
    BY <1>1, <1>4 DEF Needs
  <2>3. StateLease(p) \subseteq Leases(p)'
    BY <2>1 DEF Leases
  <2>4. ASSUME NEW m \in Missing(p)'
        PROVE  Position[State(p)] < Position[m[1]]
    <3>1. m \in Leases(p)' /\ m \notin StateLease(p)'
      BY <1>2, <2>1, <2>2 DEF Missing
    <3>2. /\ Target(p) \in Locks /\ Backend(p) \in Locks /\ Tools(p) \in Locks
          /\ State(p) \in Locks /\ Artifacts(p) \subseteq Locks
      BY LocksAssumption DEF LocksAssumption
    <3>3. m[1] \in {Target(p), Backend(p), Tools(p)} \cup Artifacts(p)
      BY <3>1 DEF Leases, AssemblyLeases, InputLeases
    <3>4. /\ Position[State(p)] < Position[Target(p)]
          /\ Position[State(p)] < Position[Backend(p)]
          /\ Position[Target(p)] < Position[Tools(p)]
          /\ \A a \in Artifacts(p) : Position[Tools(p)] < Position[a]
          /\ \A k \in Locks : Position[k] \in Nat
      BY PositionType, PositionAssumption DEF PositionAssumption
    <3> QED BY <3>2, <3>3, <3>4
  <2>5. ASSUME NEW k \in held'[p], NEW m \in Missing(p)'
        PROVE  Position[k[1]] < Position[m[1]]
    BY <1>2, <2>4, StateLeaseIsOne
  <2> QED BY <1>1, <1>2, <1>3, <1>4, <2>2, <2>3, <2>5 DEF ProcessInv, Phases
<1>8. ASSUME NEW q \in Setups, q # p PROVE ProcessInv(q)'
  BY <1>1, <1>2, <1>3, <1>8, Frame DEF LeaseIInv
<1> QED BY <1>5, <1>6, <1>7, <1>8 DEF LeaseIInv

LEMMA ReopenIInv ==
  ASSUME LeaseIInv, NEW p \in Setups, Reopen(p)
  PROVE  LeaseIInv'
<1>1. /\ phase' = [phase EXCEPT ![p] = "bundle"] /\ held' = [held EXCEPT ![p] = {}]
      /\ UNCHANGED <<todo, source, runs>> /\ source[p] = {}
  BY DEF Reopen, Idling
<1>2. LeaseTypeOK'
  BY <1>1 DEF LeaseIInv, LeaseTypeOK, Phases
<1>3. held'[p] = {} /\ \A q \in Setups \ {p} : held'[q] = held[q] /\ phase'[q] = phase[q]
  BY <1>1 DEF LeaseIInv, LeaseTypeOK
<1>4. Exclusion'
  BY <1>3, Shrink
<1>5. ProcessInv(p)'
  BY <1>1, <1>3 DEF ProcessInv
<1>6. ASSUME NEW q \in Setups, q # p PROVE ProcessInv(q)'
  BY <1>1, <1>3, <1>6, Frame DEF LeaseIInv
<1> QED BY <1>2, <1>4, <1>5, <1>6 DEF LeaseIInv

LEMMA FetchIInv ==
  ASSUME LeaseIInv, NEW p \in Setups, NEW s \in Sources, Fetch(p, s)
  PROVE  LeaseIInv'
<1>1. /\ source' = [source EXCEPT ![p] = {s}] /\ todo' = [todo EXCEPT ![p] = todo[p] \ {s}]
      /\ UNCHANGED <<phase, held, runs>>
      /\ phase[p] # "idle" /\ Leases(p) \subseteq held[p] /\ source[p] = {}
  BY DEF Fetch, Idling, Using
<1>2. LeaseTypeOK'
  BY <1>1 DEF LeaseIInv, LeaseTypeOK
<1>3. Exclusion'
  BY <1>1 DEF LeaseIInv, Exclusion, Conflict
<1>4. source'[p] = {s} /\ \A q \in Setups \ {p} : source'[q] = source[q]
  BY <1>1 DEF LeaseIInv, LeaseTypeOK
<1>5. ProcessInv(p)'
  <2>1. Leases(p)' = Leases(p)
    BY <1>1 DEF Leases, StateLease, AssemblyLeases, InputLeases
  <2>2. held[p] = Leases(p)
    BY <1>1 DEF LeaseIInv, ProcessInv, Needs
  <2>3. Missing(p)' \subseteq {<<s, "EX">>} /\ held'[p] \subseteq Needs(p)'
    BY <1>1, <1>4, <2>1, <2>2 DEF Missing, Needs
  <2>4. ASSUME NEW k \in held'[p], NEW m \in Missing(p)'
        PROVE  Position[k[1]] < Position[m[1]]
    BY <1>1, <2>2, <2>3, LeaseBounds
  <2> QED BY <1>1, <2>1, <2>3, <2>4 DEF ProcessInv
<1>6. ASSUME NEW q \in Setups, q # p PROVE ProcessInv(q)'
  BY <1>1, <1>4, <1>6, Frame DEF LeaseIInv
<1> QED BY <1>2, <1>3, <1>5, <1>6 DEF LeaseIInv

LEMMA FetchedIInv ==
  ASSUME LeaseIInv, NEW p \in Setups, Fetched(p)
  PROVE  LeaseIInv'
<1>1. /\ source' = [source EXCEPT ![p] = {}]
      /\ held' = [held EXCEPT ![p] = held[p] \ (source[p] \X {"EX"})]
      /\ UNCHANGED <<phase, todo, runs>>
      /\ source[p] # {} /\ Missing(p) = {}
  BY DEF Fetched
<1>2. LeaseTypeOK'
  BY <1>1 DEF LeaseIInv, LeaseTypeOK
<1>3. /\ source'[p] = {} /\ held'[p] = held[p] \ (source[p] \X {"EX"})
      /\ \A q \in Setups \ {p} : held'[q] = held[q] /\ source'[q] = source[q]
  BY <1>1 DEF LeaseIInv, LeaseTypeOK
<1>4. Exclusion'
  BY <1>3, Shrink
<1>5. ProcessInv(p)'
  <2>1. Leases(p)' = Leases(p)
    BY <1>1 DEF Leases, StateLease, AssemblyLeases, InputLeases
  <2>2. phase[p] # "idle" /\ held[p] = Needs(p)
    BY <1>1 DEF LeaseIInv, ProcessInv, Missing
  <2>3. Leases(p) \cap (source[p] \X {"EX"}) = {}
    <3>1. source[p] \subseteq Sources /\ Sources \subseteq Locks
      BY LocksAssumption DEF LocksAssumption, LeaseIInv, LeaseTypeOK
    <3> QED BY <3>1, LeaseBounds
  <2>4. held'[p] = Leases(p) /\ Needs(p)' = Leases(p)
    BY <1>3, <2>1, <2>2, <2>3 DEF Needs
  <2>5. Missing(p)' = {}
    BY <2>4 DEF Missing
  <2> QED BY <1>1, <1>3, <2>2, <2>4, <2>5 DEF ProcessInv
<1>6. ASSUME NEW q \in Setups, q # p PROVE ProcessInv(q)'
  BY <1>1, <1>3, <1>6, Frame DEF LeaseIInv
<1> QED BY <1>2, <1>4, <1>5, <1>6 DEF LeaseIInv

LEMMA LeaveIInv ==
  ASSUME LeaseIInv, NEW p \in Setups, Leave(p)
  PROVE  LeaseIInv'
<1>1. /\ phase' = [phase EXCEPT ![p] = "idle"] /\ held' = [held EXCEPT ![p] = {}]
      /\ todo' = [todo EXCEPT ![p] = {}] /\ source' = [source EXCEPT ![p] = {}]
      /\ UNCHANGED runs
  BY DEF Leave
<1>2. LeaseTypeOK'
  BY <1>1 DEF LeaseIInv, LeaseTypeOK
<1>3. /\ held'[p] = {} /\ source'[p] = {}
      /\ \A q \in Setups \ {p} : /\ held'[q] = held[q] /\ source'[q] = source[q]
                                /\ phase'[q] = phase[q]
  BY <1>1 DEF LeaseIInv, LeaseTypeOK
<1>4. Exclusion'
  BY <1>3, Shrink
<1>5. ProcessInv(p)'
  BY <1>3 DEF ProcessInv
<1>6. ASSUME NEW q \in Setups, q # p PROVE ProcessInv(q)'
  BY <1>3, <1>6, Frame DEF LeaseIInv
<1> QED BY <1>2, <1>4, <1>5, <1>6 DEF LeaseIInv

LEMMA NextLeaseIInv == LeaseIInv /\ [LeaseNext]_leaseVars => LeaseIInv'
<1> SUFFICES ASSUME LeaseIInv, [LeaseNext]_leaseVars PROVE LeaseIInv'
  OBVIOUS
<1>1. CASE UNCHANGED leaseVars
  <2>1. phase' = phase /\ held' = held /\ source' = source /\ todo' = todo /\ runs' = runs
    BY <1>1 DEF leaseVars
  <2>2. LeaseTypeOK' /\ Exclusion'
    BY <2>1 DEF LeaseIInv, LeaseTypeOK, Exclusion, Conflict
  <2> QED BY <2>1, <2>2, Frame DEF LeaseIInv
<1>2. ASSUME NEW p \in Setups, Step(p) PROVE LeaseIInv'
  <2>1. CASE \E l \in Missing(p) : TakeLease(p, l)
    BY <2>1, TakeLeaseIInv
  <2>2. CASE MoveOn(p)
    BY <2>2, MoveIInv DEF MoveOn, Phases
  <2>3. CASE Finish(p)
    BY <2>3, LeaveIInv DEF Finish
  <2> QED BY <1>2, <2>1, <2>2, <2>3, ReopenIInv, FetchedIInv DEF Step
<1> QED BY <1>1, <1>2, StartIInv, LeaveIInv, FetchIInv DEF LeaseNext

THEOREM LeaseInvariance == LeaseSpec => []LeaseIInv
BY InitLeaseIInv, NextLeaseIInv, PTL DEF LeaseSpec

\* The processes hold leases and phases of the declared kinds (setup.py:1208-1415).
THEOREM LeaseTypeCorrect == LeaseSpec => []LeaseTypeOK
<1>1. LeaseIInv => LeaseTypeOK
  BY DEF LeaseIInv
<1> QED BY <1>1, LeaseInvariance, PTL

-----------------------------------------------------------------------------
(* No conflicting accesses.                                                *)

Leased(p, d) == \E mode \in Modes : <<d, mode>> \in held[p]

\* A directory with a lease; a kit is only touched together with its runtimes.
Direct(p, d) ==
  /\ Leased(p, d)
  /\ d = Kit(p) => \A r \in Runtimes(p) : Leased(p, r)
  /\ d \in {State(p), Target(p), Backend(p), Tools(p)} \cup Artifacts(p) \cup Sources

\* A provider kit, which is built under the lease of the runtime it provides.
ByRuntime(p, d) ==
  \E r \in Runtimes(p) : /\ d = Provider[r] /\ <<r, "EX">> \in held[p]
                        /\ <<Kit(p), "EX">> \in held[p]

LEMMA WritesAreLeased ==
  ASSUME LeaseTypeOK, NEW p \in Setups, Using(p), NEW d \in Writes(p)
  PROVE  <<d, "EX">> \in held[p] \/ ByRuntime(p, d)
<1>1. Leases(p) \subseteq held[p]
  BY DEF Using
<1>2. CASE d \in InState(p, "EX")
  BY <1>1, <1>2 DEF InState, Leases
<1>3. CASE phase[p] = "assemble" /\ d \in Artifacts(p) \cup ProviderKits(p)
  <2>1. \A a \in Artifacts(p) : <<a, "EX">> \in held[p]
    BY <1>1, <1>3 DEF Leases, AssemblyLeases
  <2> QED BY <1>3, <2>1 DEF ByRuntime, ProviderKits, Artifacts
<1>4. CASE \/ phase[p] = "target" /\ d = Target(p)
           \/ phase[p] = "backend" /\ d = Backend(p)
           \/ phase[p] = "tools" /\ d = Tools(p)
  BY <1>1, <1>4 DEF Leases
<1>5. CASE d \in source[p] /\ <<d, "EX">> \in held[p]
  BY <1>5
<1> QED BY <1>2, <1>3, <1>4, <1>5 DEF Writes

LEMMA AccessesAreLeased ==
  ASSUME LeaseTypeOK, NEW q \in Setups, Using(q), NEW d \in Reads(q) \cup Writes(q)
  PROVE  Direct(q, d) \/ ByRuntime(q, d)
<1>1. Leases(q) \subseteq held[q]
  BY DEF Using
<1>2. /\ State(q) \in Locks /\ Target(q) \in Locks /\ Backend(q) \in Locks
      /\ Tools(q) \in Locks /\ Artifacts(q) \subseteq Locks /\ Sources \subseteq Locks
  BY LocksAssumption DEF LocksAssumption
<1>3. Kit(q) \in Artifacts(q) /\ Runtimes(q) \subseteq Artifacts(q)
  BY DEF Artifacts
<1>4. /\ Kit(q) # State(q) /\ Kit(q) # Target(q) /\ Kit(q) # Backend(q)
      /\ Kit(q) # Tools(q) /\ Kit(q) \notin Sources
  <2>1. /\ Position[State(q)] < Position[Target(q)]
        /\ Position[Target(q)] < Position[Tools(q)]
        /\ Position[Backend(q)] < Position[Tools(q)]
        /\ Position[Tools(q)] < Position[Kit(q)]
        /\ \A s \in Sources : Position[Kit(q)] < Position[s]
        /\ \A k \in Locks : Position[k] \in Nat
    BY <1>3, PositionType, PositionAssumption DEF PositionAssumption
  <2> QED BY <1>2, <1>3, <2>1
<1>5. CASE d \in InState(q, "EX") \cup InState(q, "SH")
  BY <1>1, <1>4, <1>5 DEF InState, Leases, Direct, Leased, Modes
<1>6. CASE phase[q] = "assemble"
  <2>1. /\ \A a \in Artifacts(q) : <<a, "EX">> \in held[q]
        /\ <<Target(q), "SH">> \in held[q] /\ <<Backend(q), "SH">> \in held[q]
    BY <1>1, <1>6 DEF Leases, AssemblyLeases
  <2>2. CASE d \in Artifacts(q) \cup {Target(q), Backend(q)}
    BY <1>3, <2>1, <2>2 DEF Direct, Leased, Modes
  <2>3. CASE d \in ProviderKits(q)
    BY <1>3, <2>1, <2>3 DEF ByRuntime, ProviderKits
  <2>4. CASE d \in source[q] /\ <<d, "EX">> \in held[q]
    BY <1>4, <2>4 DEF Direct, Leased, Modes, LeaseTypeOK
  <2> QED BY <1>5, <1>6, <2>2, <2>3, <2>4 DEF Reads, Writes
<1>7. CASE phase[q] \in {"reuse", "smoke", "install", "bundle"}
  <2>1. \A a \in {Target(q), Tools(q)} \cup Artifacts(q) : <<a, "SH">> \in held[q]
    BY <1>1, <1>7 DEF Leases, InputLeases
  <2>2. CASE d \in {Target(q), Tools(q)} \cup Artifacts(q)
    BY <1>3, <2>1, <2>2 DEF Direct, Leased, Modes
  <2>3. CASE d \in source[q] /\ <<d, "EX">> \in held[q]
    BY <1>4, <2>3 DEF Direct, Leased, Modes, LeaseTypeOK
  <2> QED BY <1>5, <1>7, <2>2, <2>3 DEF Reads, Writes
<1>8. CASE phase[q] \notin {"assemble", "reuse", "smoke", "install", "bundle"}
  <2>1. CASE \/ phase[q] = "target" /\ d = Target(q)
             \/ phase[q] = "backend" /\ d = Backend(q)
             \/ phase[q] = "tools" /\ d \in {Tools(q), Backend(q)}
    BY <1>1, <1>4, <2>1 DEF Leases, Direct, Leased, Modes
  <2>2. CASE d \in source[q] /\ <<d, "EX">> \in held[q]
    BY <1>4, <2>2 DEF Direct, Leased, Modes, LeaseTypeOK
  <2> QED BY <1>5, <1>8, <2>1, <2>2 DEF Reads, Writes
<1> QED BY <1>6, <1>7, <1>8

LEMMA RuntimeExcludesKit ==
  ASSUME LeaseIInv, NEW p \in Setups, NEW q \in Setups, p # q, NEW d,
         ByRuntime(p, d), Direct(q, d)
  PROVE  FALSE
<1>1. PICK r \in Runtimes(p) : /\ d = Provider[r] /\ <<r, "EX">> \in held[p]
                               /\ <<Kit(p), "EX">> \in held[p]
  BY DEF ByRuntime
<1>2. d = Kit(q)
  <2>1. d \in ProviderKits(p)
    BY <1>1 DEF ProviderKits
  <2> QED BY <2>1, ProviderAssumption DEF ProviderAssumption, Direct, Artifacts
<1>3. ASSUME NEW k, <<k, "EX">> \in held[p], Leased(q, k) PROVE FALSE
  BY <1>3 DEF Leased, LeaseIInv, Exclusion, Conflict
<1>4. CASE d = Kit(p)
  BY <1>1, <1>3, <1>4 DEF Direct
<1>5. CASE r \in Runtimes(q)
  BY <1>1, <1>2, <1>3, <1>5 DEF Direct
<1> QED BY <1>1, <1>2, <1>4, <1>5, ProviderAssumption DEF ProviderAssumption

\* docs/architecture.md:79-84 for any number of processes: shared and exclusive
\* leases keep readers and writers of every directory apart, provider kits included
\* (producer_store.py:130-181, setup.py:1208-1415).
THEOREM AccessesDoNotConflict == LeaseSpec => []NoConflict
<1>1. ASSUME LeaseIInv PROVE NoConflict
  <2> SUFFICES ASSUME NEW p \in Setups, NEW q \in Setups, p # q, Using(p), Using(q),
                      NEW d \in Writes(p), d \in Reads(q) \cup Writes(q)
               PROVE  FALSE
    BY DEF NoConflict
  <2>1. LeaseTypeOK
    BY <1>1 DEF LeaseIInv
  <2>2. /\ <<d, "EX">> \in held[p] \/ ByRuntime(p, d)
        /\ Direct(p, d) \/ ByRuntime(p, d)
        /\ Direct(q, d) \/ ByRuntime(q, d)
    BY <2>1, WritesAreLeased, AccessesAreLeased
  <2>3. CASE <<d, "EX">> \in held[p] /\ Direct(q, d)
    BY <1>1, <2>3 DEF Direct, Leased, LeaseIInv, Exclusion, Conflict
  <2>4. CASE ByRuntime(p, d) /\ Direct(q, d)
    BY <1>1, <2>4, RuntimeExcludesKit
  <2>5. CASE Direct(p, d) /\ ByRuntime(q, d)
    BY <1>1, <2>5, RuntimeExcludesKit
  <2>6. CASE ByRuntime(p, d) /\ ByRuntime(q, d)
    <3>1. \E r : <<r, "EX">> \in held[p] /\ <<r, "EX">> \in held[q]
      BY <2>6, ProviderAssumption DEF ByRuntime, ProviderAssumption
    <3> QED BY <1>1, <3>1 DEF LeaseIInv, Exclusion, Conflict
  <2> QED BY <2>2, <2>3, <2>4, <2>5, <2>6
<1> QED BY <1>1, LeaseInvariance, PTL

-----------------------------------------------------------------------------
(* No deadlock.                                                            *)

\* A nonempty set of positions has a least element.
LEMMA LeastPosition ==
  ASSUME NEW S, S \subseteq Nat, S # {}
  PROVE  \E x \in S : \A y \in S : x <= y
<1>1. PICK x \in S : \A y \in S : ~ (<<y, x>> \in OpToRel(<, Nat))
  BY NatLessThanWellFounded, WFMin
<1>2. ASSUME NEW y \in S PROVE x <= y
  <2>1. ~ (<<y, x>> \in OpToRel(<, Nat))
    BY <1>1
  <2>2. ~ (y < x)
    BY <2>1 DEF OpToRel
  <2> QED BY <2>2
<1> QED BY <1>1, <1>2

\* A nonempty set of positions below a bound has a greatest element.
LEMMA GreatestPosition ==
  ASSUME NEW n \in Nat, NEW S, S \subseteq 0 .. n, S # {}
  PROVE  \E x \in S : \A y \in S : y <= x
<1> DEFINE T == {n - x : x \in S}
<1>1. T \subseteq Nat /\ T # {}
  <2>1. \A x \in S : n - x \in Nat
    OBVIOUS
  <2>2. PICK x \in S : TRUE
    OBVIOUS
  <2>3. n - x \in T
    OBVIOUS
  <2>4. ASSUME NEW u \in T PROVE u \in Nat
    BY <2>1, <2>4
  <2> QED BY <2>3, <2>4
<1>2. PICK t \in T : \A u \in T : t <= u
  <2> HIDE DEF T
  <2> QED BY <1>1, LeastPosition
<1>3. PICK x \in S : t = n - x
  OBVIOUS
<1>4. ASSUME NEW y \in S PROVE y <= x
  <2>1. n - y \in T
    OBVIOUS
  <2>2. n - x <= n - y
    BY <1>2, <1>3, <2>1
  <2> QED BY <2>2
<1> QED BY <1>4

LEMMA MissingType ==
  ASSUME LeaseTypeOK, NEW p \in Setups, NEW l \in Missing(p)
  PROVE  l[1] \in Locks
<1>1. l \in Leases(p) \/ l \in source[p] \X {"EX"}
  BY DEF Missing, Needs
<1> QED BY <1>1, LeaseBounds, LocksAssumption DEF LocksAssumption, LeaseTypeOK

LEMMA SomeFirst ==
  ASSUME LeaseTypeOK, NEW p \in Setups, Missing(p) # {}
  PROVE  \E l \in Missing(p) : First(p, l)
<1> DEFINE S == {Position[l[1]] : l \in Missing(p)}
<1>1. S \subseteq Nat /\ S # {}
  BY MissingType, PositionType
<1>2. PICK x \in S : \A y \in S : x <= y
  <2> HIDE DEF S
  <2> QED BY <1>1, LeastPosition
<1> QED BY <1>2 DEF First

\* The sorted acquisition of producer_store.py:158-181 and the nesting of setup.py
\* leave no circle of waiting processes: the one whose next lease lies furthest in
\* the order finds it held by a process that needs nothing before it.
THEOREM LeasesDoNotDeadlock == LeaseSpec => []DeadlockFree
<1>1. ASSUME LeaseIInv PROVE DeadlockFree
  <2> SUFFICES ASSUME Active # {},
                      \A p \in Active : /\ Missing(p) # {}
                                       /\ \A l \in Missing(p) : First(p, l) => ~Free(p, l)
               PROVE  FALSE
    BY DEF DeadlockFree
  <2> DEFINE W == {n \in 0 .. Cardinality(Locks) :
                     \E p \in Active : \E l \in Missing(p) :
                       First(p, l) /\ n = Position[l[1]]}
  <2>1. LeaseTypeOK /\ Active \subseteq Setups /\ \A p \in Setups : ProcessInv(p)
    BY <1>1 DEF LeaseIInv, Active
  <2>2. \A p \in Active : \E l \in Missing(p) : First(p, l)
    BY <2>1, SomeFirst
  <2>3. ASSUME NEW p \in Active, NEW l \in Missing(p), First(p, l)
        PROVE  Position[l[1]] \in W
    <3>1. Position[l[1]] \in 0 .. Cardinality(Locks)
      BY <2>1, MissingType, PositionType
    <3> QED BY <2>3, <3>1
  <2>4. W # {}
    BY <2>2, <2>3
  <2>5. W \subseteq 0 .. Cardinality(Locks)
    OBVIOUS
  <2>6. Cardinality(Locks) \in Nat
    BY LocksAssumption, FS_CardinalityType DEF LocksAssumption
  <2>7. PICK x \in W : \A y \in W : y <= x
    <3> HIDE DEF W
    <3> QED BY <2>4, <2>5, <2>6, GreatestPosition
  <2>8a. PICK p \in Active : \E l \in Missing(p) : First(p, l) /\ x = Position[l[1]]
    OBVIOUS
  <2>8. PICK l \in Missing(p) : First(p, l) /\ x = Position[l[1]]
    BY <2>8a
  <2>9a. PICK q \in Setups \ {p} : \E m \in held[q] : m[1] = l[1]
    BY <2>8 DEF Free, Conflict
  <2>9. PICK m \in held[q] : m[1] = l[1]
    BY <2>9a
  <2>10. q \in Active
    BY <2>1, <2>9 DEF Active, ProcessInv
  <2>11. PICK k \in Missing(q) : First(q, k)
    BY <2>2, <2>10
  <2>12. Position[m[1]] < Position[k[1]]
    BY <2>1, <2>9, <2>11 DEF ProcessInv
  <2>13. Position[k[1]] <= x
    BY <2>3, <2>7, <2>10, <2>11
  <2>14. Position[k[1]] \in Nat /\ x \in Nat
    BY <2>1, <2>5, <2>6, <2>10, <2>11, MissingType, PositionType
  <2> QED BY <2>8, <2>9, <2>12, <2>13, <2>14
<1> QED BY <1>1, LeaseInvariance, PTL
=============================================================================
