--------------------------- MODULE BuildToolsProofs ---------------------------
(***************************************************************************)
(* No container of a build is lost and nothing foreign is published, for     *)
(* any number of docker clients that killed attempts have left behind, any   *)
(* number of kills, interrupts and failures.  The cidfile is a lock: it is   *)
(* empty while one client is about to name its container (FileOf), it names  *)
(* the only container that may run, and the build lets it go only when that  *)
(* container is gone (OwnInv).  The container of a build runs with its       *)
(* client, unless there was a trouble, and a build with one trouble at most  *)
(* is on its way out only when that client is over (HandledInv).  Until the  *)
(* first trouble there is only that client, and builds end with its work     *)
(* published (CalmInv).                                                      *)
(***************************************************************************)
EXTENDS BuildTools, TLAPS

\* Client c is about to write the cidfile.
Naming(c) == client[c] \in {"opened", "created"}

\* Client c may still make a container run.
MayStart(c) ==
  \/ client[c] \in {"starting", "opened", "created"}
  \/ client[c] = "named" /\ container[c] = "created"

FileOf(c) ==
  /\ container[c] = "running" => cidfile = c
  /\ client[c] = "running" => container[c] = "running"
  /\ (client[c] = "named" /\ container[c] = "created") => cidfile = c
  /\ Naming(c) => (cidfile = Empty /\ \A d \in Clients : Naming(d) => d = c)
  /\ client[c] = "starting" => cidfile # c

\* The client of this attempt has not been started.
Clearing == pc \in {"remove", "discard"} /\ errand = "stale"
Before == pc \in Working \cup {"spawn"} \/ Clearing
\* Its staging directory is there.
Staged == pc \in {"spawn", "wait"} \/ Clearing
\* Its container has done its work.
Done == (pc = "wait" /\ client[own] = "ok") \/ pc = "leave"

OwnInv ==
  /\ pc \in Working => errand = "stale"
  /\ Before => (client[own] = "none" /\ cidfile # own)
  /\ pc = "discard" => (cidfile \in Clients /\ container[cidfile] = Absent)
  /\ (Staged \/ pc = "staging") => image = "mine"
  /\ (Staged /\ client[own] \in {"none", "starting", "opened", "created", "named"})
       => staging \in {Empty, "overtaken"}
  /\ (Staged /\ client[own] \in {"running", "ok"}) => staging \in {"own", "overtaken"}
  /\ Done => (cidfile = own /\ container[own] = Absent /\ client[own] = "ok")
  /\ (Done \/ pc \in Finishing) =>
       (staging \in {"own", "overtaken"} /\ \A d \in Clients : ~MayStart(d))

IInv == TypeOK /\ PublishedIsOwn /\ OwnInv /\ \A c \in Clients : FileOf(c)

-----------------------------------------------------------------------------
LEMMA NextTypeOK ==
  ASSUME TypeOK, OwnInv, [Next]_vars
  PROVE  TypeOK'
<1> USE BoundsAssumption, NamesAssumption
    DEF BoundsAssumption, NamesAssumption, TypeOK, workspace, docker, attempt, Go, Local,
        Working, Guarded, Finishing, Written, Alive, Over
<1>1. ASSUME NEW f \in BOOLEAN, Begin(f) PROVE TypeOK'
  <2>1. plain' \in 0..MaxPlain
    BY <1>1 DEF Begin
  <2>2. PICK c \in Clients :
          own' = c /\ client' = [client EXCEPT ![c] = "none"] /\ mounted' = mounted \ {c}
    BY <1>1 DEF Begin
  <2>3. client' \in [Clients -> Alive \cup Over] /\ own' \in Clients /\ mounted' \subseteq Clients
    BY <2>2
  <2>5. force' \in BOOLEAN
    BY <1>1, Zenon DEF Begin
  <2>6. killed' \in BOOLEAN
    BY <1>1, Zenon DEF Begin
  <2>4. /\ pc' = "workspace" /\ image' = Absent /\ errand' = "stale"
        /\ UNCHANGED <<workspace, artifact, staging, tag, cidfile, container, troubles>>
    BY <1>1 DEF Begin
  <2> QED BY <1>1, <2>1, <2>3, <2>4, <2>5, <2>6
<1>2. CASE UseWorkspace \/ RefuseWorkspace \/ CreateMarker \/ WriteMarker \/ WriteManifest
  <2>1. CASE UseWorkspace \/ RefuseWorkspace
    BY <2>1 DEF UseWorkspace, RefuseWorkspace
  <2>2. CASE CreateMarker \/ WriteMarker
    BY <2>2 DEF CreateMarker, WriteMarker
  <2>3. CASE WriteManifest
    BY <2>3 DEF WriteManifest
  <2> QED BY <1>2, <2>1, <2>2, <2>3
<1>3. CASE Existing \/ Missing \/ DownloadSources \/ CreateScript \/ WriteScript \/ UseScript
  BY <1>3 DEF Existing, Missing, DownloadSources, CreateScript, WriteScript, UseScript
<1>4. CASE RefuseScript \/ CachedImage \/ NoImage \/ BuildImage \/ RequireImage \/ RefuseImage
  BY <1>4 DEF RefuseScript, CachedImage, NoImage, BuildImage, RequireImage, RefuseImage, TakeImage
<1>5. CASE PrepareStaging \/ Spawn \/ ClientSucceeded \/ ClientFailed \/ Leave \/ Finalize
  BY <1>5 DEF PrepareStaging, Spawn, ClientSucceeded, ClientFailed, Leave, Finalize
<1>6. CASE NothingToRemove \/ Malformed \/ Discard
  BY <1>6 DEF NothingToRemove, Malformed, Discard, AfterRemoval, AfterFailure
<1>7. CASE Remove
  <2>1. client' \in [Clients -> Alive \cup Over]
    BY <1>7 DEF Remove
  <2>2. container' \in [Clients -> {Absent, "created", "running"}]
    BY <1>7 DEF Remove
  <2> QED BY <1>7, <2>1, <2>2 DEF Remove
<1>8. CASE Signal
  <2>1. client' \in [Clients -> Alive \cup Over]
    BY <1>8 DEF Signal
  <2>2. container' \in [Clients -> {Absent, "created", "running"}] /\ cidfile' \in Clients \cup {Absent, Empty}
    BY <1>8 DEF Signal
  <2> QED BY <1>8, <2>1, <2>2 DEF Signal
<1>9. CASE SetAside \/ Install
  BY <1>9 DEF SetAside, Install, OwnInv
<1>10. ASSUME NEW c \in Clients, ClientStep(c) \/ Fail(c) PROVE TypeOK'
  <2> USE DEF Elsewhere, Becomes
  <2>1. CASE OpenCidfile(c)
    BY <2>1 DEF OpenCidfile
  <2>2. CASE CreateContainer(c)
    BY <2>2 DEF CreateContainer
  <2>3. CASE NameContainer(c)
    BY <2>3 DEF NameContainer
  <2>4. CASE StartContainer(c)
    <3>1. container' \in [Clients -> {Absent, "created", "running"}]
      BY <2>4 DEF StartContainer
    <3>2. staging' \in {Absent, Empty} \cup Written
      BY <2>4 DEF StartContainer
    <3>3. mounted' \subseteq Clients
      BY <2>4 DEF StartContainer
    <3> QED BY <2>4, <3>1, <3>2, <3>3 DEF StartContainer
  <2>5. CASE CannotStart(c)
    BY <2>5 DEF CannotStart
  <2>6. CASE Exit(c)
    <3>1. client' \in [Clients -> Alive \cup Over]
      BY <2>6 DEF Exit
    <3> QED BY <2>6, <3>1 DEF Exit
  <2>7. CASE Fail(c)
    BY <2>7 DEF Fail, Trouble
  <2> QED BY <1>10, <2>1, <2>2, <2>3, <2>4, <2>5, <2>6, <2>7 DEF ClientStep
<1>11. CASE CannotRemove \/ Kill \/ Error \/ Retag \/ Damage
  <2>1. troubles' \in 0..MaxTroubles
    BY <1>11 DEF CannotRemove, Kill, Error, Retag, Damage, Trouble
  <2>2. CASE CannotRemove
    BY <2>1, <2>2 DEF CannotRemove, AfterFailure
  <2>3. CASE Kill
    <3>1. killed' \in BOOLEAN
      BY <2>3, Zenon DEF Kill
    <3>2. /\ pc' = "idle"
          /\ UNCHANGED <<workspace, artifact, staging, docker, force, own, image, errand, plain>>
      BY <2>3 DEF Kill
    <3> QED BY <2>1, <3>1, <3>2
  <2>6. CASE Error
    BY <2>1, <2>6 DEF Error
  <2>4. CASE Retag
    BY <2>1, <2>4 DEF Retag
  <2>5. CASE Damage
    BY <2>1, <2>5 DEF Damage
  <2> QED BY <1>11, <2>2, <2>3, <2>4, <2>5, <2>6
<1>12. CASE Interrupt
  <2>1. troubles' \in 0..MaxTroubles
    BY <1>12 DEF Interrupt, Trouble
  <2> QED BY <1>12, <2>1 DEF Interrupt
<1>13. CASE UNCHANGED vars
  BY <1>13 DEF vars
<1> QED
  BY <1>1, <1>2, <1>3, <1>4, <1>5, <1>6, <1>7, <1>8, <1>9, <1>10, <1>11, <1>12, <1>13
     DEF Next, Step

LEMMA InitIInv == Init => IInv
<1> SUFFICES ASSUME Init PROVE IInv
  OBVIOUS
<1>1. TypeOK
  <2>1. force \in BOOLEAN /\ manifest \in BOOLEAN /\ killed \in BOOLEAN
    BY Zenon DEF Init
  <2>2. plain \in 0..MaxPlain /\ troubles \in 0..MaxTroubles
    BY BoundsAssumption DEF Init, BoundsAssumption
  <2> QED BY <2>1, <2>2 DEF Init, TypeOK, Over
<1>2. PublishedIsOwn /\ OwnInv
  BY DEF Init, PublishedIsOwn, OwnInv, Before, Clearing, Staged, Done, Working, Finishing, Absent
<1>3. \A c \in Clients : FileOf(c)
  BY DEF Init, FileOf, Naming, Absent
<1> QED BY <1>1, <1>2, <1>3 DEF IInv

-----------------------------------------------------------------------------
(* Steps of the build.                                                      *)

\* Those that leave docker, the staging directory and the artifact alone.
LEMMA QuietSteps ==
  ASSUME IInv,
         \/ UseWorkspace \/ RefuseWorkspace \/ CreateMarker \/ WriteMarker \/ WriteManifest
         \/ Existing \/ Missing \/ DownloadSources \/ CreateScript \/ WriteScript \/ UseScript
         \/ RefuseScript \/ CachedImage \/ NoImage \/ RequireImage \/ RefuseImage
         \/ NothingToRemove \/ Malformed \/ ClientSucceeded \/ ClientFailed \/ Finalize
         \/ CannotRemove \/ Interrupt \/ Kill \/ Error
  PROVE  PublishedIsOwn' /\ OwnInv' /\ \A c \in Clients : FileOf(c)'
<1> USE DEF IInv, TypeOK, docker, attempt, Go, Local
<1>1. UNCHANGED <<artifact, staging, cidfile, client, container, own>>
  BY DEF UseWorkspace, RefuseWorkspace, CreateMarker, WriteMarker, WriteManifest, Existing, Missing,
         DownloadSources, CreateScript, WriteScript, UseScript, RefuseScript, CachedImage, NoImage,
         RequireImage, RefuseImage, TakeImage, NothingToRemove, Malformed, ClientSucceeded,
         ClientFailed, Finalize, CannotRemove, Interrupt, Kill, Error
<1>2. PublishedIsOwn' /\ \A c \in Clients : FileOf(c)'
  BY <1>1 DEF PublishedIsOwn, FileOf, Naming
<1>3. \A d \in Clients : MayStart(d)' <=> MayStart(d)
  BY <1>1 DEF MayStart
<1> USE DEF OwnInv, Before, Clearing, Staged, Done, Working, Finishing
<1>4. CASE UseWorkspace \/ RefuseWorkspace \/ CreateMarker \/ WriteMarker \/ WriteManifest
  BY <1>1, <1>2, <1>4 DEF UseWorkspace, RefuseWorkspace, CreateMarker, WriteMarker, WriteManifest
<1>5. CASE Existing \/ Missing \/ DownloadSources \/ CreateScript \/ WriteScript \/ UseScript
  BY <1>1, <1>2, <1>5 DEF Existing, Missing, DownloadSources, CreateScript, WriteScript, UseScript
<1>6. CASE RefuseScript \/ NoImage \/ RefuseImage
  BY <1>1, <1>2, <1>6 DEF RefuseScript, NoImage, RefuseImage
<1>7. CASE CachedImage \/ RequireImage
  BY <1>1, <1>2, <1>7 DEF CachedImage, RequireImage, TakeImage
<1>8. CASE NothingToRemove \/ Malformed \/ CannotRemove
  BY <1>1, <1>2, <1>8 DEF NothingToRemove, Malformed, CannotRemove, AfterRemoval, AfterFailure
<1>9. CASE ClientSucceeded
  BY <1>1, <1>2, <1>3, <1>9 DEF ClientSucceeded
<1>10. CASE ClientFailed
  BY <1>1, <1>2, <1>10 DEF ClientFailed
<1>11. CASE Finalize
  BY <1>1, <1>2, <1>3, <1>11 DEF Finalize
<1>12. CASE Interrupt
  BY <1>1, <1>2, <1>12 DEF Interrupt
<1>13. CASE Kill \/ Error
  BY <1>1, <1>2, <1>13 DEF Kill, Error
<1> QED BY <1>4, <1>5, <1>6, <1>7, <1>8, <1>9, <1>10, <1>11, <1>12, <1>13

LEMMA BeginStep ==
  ASSUME IInv, NEW f \in BOOLEAN, Begin(f)
  PROVE  PublishedIsOwn' /\ OwnInv' /\ \A c \in Clients : FileOf(c)'
<1> USE DEF IInv, TypeOK
<1>1. PICK c \in Clients :
        Unused(c) /\ own' = c /\ client' = [client EXCEPT ![c] = "none"]
  BY DEF Begin, Go
<1>2. /\ UNCHANGED <<artifact, staging, cidfile, container>>
      /\ pc' = "workspace" /\ errand' = "stale"
  BY DEF Begin, Go
<1>3. \A d \in Clients : FileOf(d)'
  <2>1. \A d \in Clients : client'[d] = client[d] \/ client'[d] = "none"
    BY <1>1
  <2> QED BY <1>2, <2>1 DEF FileOf, Naming
<1>4. OwnInv'
  BY <1>1, <1>2 DEF OwnInv, Before, Clearing, Staged, Done, Working, Finishing, Unused
<1> QED BY <1>2, <1>3, <1>4 DEF PublishedIsOwn

\* Images and directories.
LEMMA DirectorySteps ==
  ASSUME IInv, BuildImage \/ Retag \/ PrepareStaging \/ SetAside \/ Install \/ Damage
  PROVE  PublishedIsOwn' /\ OwnInv' /\ \A c \in Clients : FileOf(c)'
<1> USE DEF IInv, TypeOK, docker, attempt, Go, Local
<1>1. UNCHANGED <<cidfile, client, container, own, image, errand>>
  BY DEF BuildImage, Retag, PrepareStaging, SetAside, Install, Damage
<1>2. \A c \in Clients : FileOf(c)' /\ (MayStart(c)' <=> MayStart(c))
  BY <1>1 DEF FileOf, Naming, MayStart
<1>3. PublishedIsOwn'
  BY DEF PublishedIsOwn, OwnInv, Finishing, Absent, BuildImage, Retag, PrepareStaging, SetAside, Install, Damage
<1> USE DEF OwnInv, Before, Clearing, Staged, Done, Working, Finishing
<1>4. CASE BuildImage \/ Retag \/ Damage
  BY <1>1, <1>2, <1>3, <1>4 DEF BuildImage, Retag, Damage
<1>5. CASE PrepareStaging
  BY <1>1, <1>2, <1>3, <1>5 DEF PrepareStaging
<1>6. CASE SetAside \/ Install
  BY <1>1, <1>2, <1>3, <1>6 DEF SetAside, Install
<1> QED BY <1>4, <1>5, <1>6

\* The build's own hand on the cidfile and on containers.
LEMMA ContainerSteps ==
  ASSUME IInv, Remove \/ Discard \/ Spawn \/ Signal \/ Leave
  PROVE  PublishedIsOwn' /\ OwnInv' /\ \A c \in Clients : FileOf(c)'
<1> USE NamesAssumption DEF IInv, TypeOK, docker, attempt, Go, Local, NamesAssumption
<1>1. UNCHANGED <<artifact, staging, own, image>>
  BY DEF Remove, Discard, Spawn, Signal, Leave
<1>2. CASE Remove
  <2>1. cidfile \in Clients /\ cidfile' = cidfile /\ pc = "remove" /\ pc' = "discard" /\ errand' = errand
    BY <1>2 DEF Remove
  <2>2. /\ \A c \in Clients \ {cidfile} : client'[c] = client[c] /\ container'[c] = container[c]
        /\ container'[cidfile] = Absent
        /\ client'[cidfile] = IF client[cidfile] = "running" THEN "failed" ELSE client[cidfile]
    BY <1>2, <2>1 DEF Remove
  <2>3. \A c \in Clients : FileOf(c)'
    BY <2>1, <2>2 DEF FileOf, Naming, Absent
  <2>4. OwnInv'
    BY <1>1, <2>1, <2>2 DEF OwnInv, Before, Clearing, Staged, Done, Working, Finishing
  <2> QED BY <1>1, <2>3, <2>4 DEF PublishedIsOwn
<1>3. CASE Discard
  <2>1. /\ cidfile' = Absent /\ UNCHANGED <<client, container, errand>>
        /\ pc = "discard" /\ pc' = AfterRemoval
    BY <1>3 DEF Discard
  <2>2. cidfile \in Clients /\ container[cidfile] = Absent
    BY <2>1 DEF OwnInv
  <2>3. \A c \in Clients : FileOf(c)'
    BY <2>1, <2>2 DEF FileOf, Naming, Absent, Empty
  <2>4. OwnInv'
    BY <1>1, <2>1, <2>2 DEF OwnInv, Before, Clearing, Staged, Done, Working, Finishing, AfterRemoval, Absent
  <2> QED BY <1>1, <2>3, <2>4 DEF PublishedIsOwn
<1>4. CASE Spawn
  <2>1. /\ UNCHANGED <<cidfile, container, errand>> /\ pc = "spawn" /\ pc' = "wait"
        /\ client' = [client EXCEPT ![own] = "starting"]
    BY <1>4 DEF Spawn
  <2>2. client[own] = "none" /\ cidfile # own
    BY <2>1 DEF OwnInv, Before
  <2>3. \A c \in Clients : FileOf(c)'
    BY <2>1, <2>2 DEF FileOf, Naming
  <2>4. OwnInv'
    BY <1>1, <2>1, <2>2 DEF OwnInv, Before, Clearing, Staged, Done, Working, Finishing
  <2> QED BY <1>1, <2>3, <2>4 DEF PublishedIsOwn
<1>5. CASE Signal
  <2>1. /\ pc' = "remove" /\ errand' = "release"
        /\ client' = [client EXCEPT ![own] = IF @ \in Alive THEN "failed" ELSE @]
    BY <1>5 DEF Signal
  <2>2. \/ UNCHANGED <<cidfile, container>>
        \/ client[own] = "opened" /\ cidfile' = Absent /\ UNCHANGED container
        \/ /\ client[own] = "running" /\ UNCHANGED cidfile
           /\ container' = [container EXCEPT ![own] = Absent]
    BY <1>5 DEF Signal
  <2>3. \A c \in Clients : FileOf(c)'
    BY <2>1, <2>2 DEF FileOf, Naming, Alive, Absent, Empty
  <2>4. OwnInv'
    BY <1>1, <2>1 DEF OwnInv, Before, Clearing, Staged, Done, Working, Finishing
  <2> QED BY <1>1, <2>3, <2>4 DEF PublishedIsOwn
<1>6. CASE Leave
  <2>1. /\ cidfile' = Absent /\ UNCHANGED <<client, container, errand>>
        /\ pc = "leave" /\ pc' = "finalize"
    BY <1>6 DEF Leave
  <2>2. /\ cidfile = own /\ container[own] = Absent /\ client[own] = "ok"
        /\ \A d \in Clients : ~MayStart(d) /\ ~MayStart(d)'
    BY <2>1 DEF OwnInv, Done, MayStart
  <2>3. \A c \in Clients : FileOf(c)'
    BY <2>1, <2>2 DEF FileOf, Naming, Absent, Empty
  <2>4. OwnInv'
    BY <1>1, <2>1, <2>2 DEF OwnInv, Before, Clearing, Staged, Done, Working, Finishing
  <2> QED BY <1>1, <2>3, <2>4 DEF PublishedIsOwn
<1> QED BY <1>2, <1>3, <1>4, <1>5, <1>6

-----------------------------------------------------------------------------
(* Steps of the docker clients and of the daemon.                          *)

\* A client other than this attempt's moves; or this attempt's, which is waited
\* for, has been given up, or has not been started.
LEMMA ClientSteps ==
  ASSUME IInv, NEW c \in Clients, ClientStep(c) \/ Fail(c)
  PROVE  PublishedIsOwn' /\ OwnInv' /\ \A d \in Clients : FileOf(d)'
<1> USE NamesAssumption DEF IInv, TypeOK, attempt, Elsewhere, Becomes, NamesAssumption
<1>1. UNCHANGED <<artifact, pc, own, image, errand>>
  BY DEF ClientStep, OpenCidfile, CreateContainer, NameContainer, StartContainer, CannotStart, Exit, Fail
<1> USE DEF Before, Clearing, Staged, Done, Working, Finishing
<1>2. CASE OpenCidfile(c)
  <2>1. client[c] = "starting" /\ UNCHANGED <<staging, container>>
    BY <1>2 DEF OpenCidfile
  <2>2. \/ cidfile = Absent /\ cidfile' = Empty /\ client' = [client EXCEPT ![c] = "opened"]
        \/ cidfile # Absent /\ cidfile' = cidfile /\ client' = [client EXCEPT ![c] = "failed"]
    BY <1>2 DEF OpenCidfile
  <2>3. \A d \in Clients : FileOf(d)'
    BY <2>1, <2>2 DEF FileOf, Naming, Absent, Empty
  <2>4. OwnInv'
    BY <1>1, <2>1, <2>2 DEF OwnInv, MayStart, Absent, Empty
  <2> QED BY <1>1, <2>3, <2>4 DEF PublishedIsOwn
<1>3. CASE CreateContainer(c)
  <2>1. /\ client[c] = "opened" /\ client' = [client EXCEPT ![c] = "created"]
        /\ container' = [container EXCEPT ![c] = "created"] /\ UNCHANGED <<staging, cidfile>>
    BY <1>3 DEF CreateContainer
  <2>2. \A d \in Clients : FileOf(d)'
    BY <2>1 DEF FileOf, Naming
  <2>3. cidfile = Empty
    BY <2>1 DEF FileOf, Naming
  <2>4. OwnInv'
    BY <1>1, <2>1, <2>3 DEF OwnInv, MayStart
  <2> QED BY <1>1, <2>2, <2>4 DEF PublishedIsOwn
<1>4. CASE NameContainer(c)
  <2>1. /\ client[c] = "created" /\ client' = [client EXCEPT ![c] = "named"]
        /\ cidfile' = c /\ UNCHANGED <<staging, container>>
    BY <1>4 DEF NameContainer
  <2>2. cidfile = Empty /\ \A d \in Clients : Naming(d) => d = c
    BY <2>1 DEF FileOf, Naming
  <2>3. \A d \in Clients : FileOf(d)'
    BY <2>1, <2>2 DEF FileOf, Naming, Absent, Empty
  <2>4. OwnInv'
    BY <1>1, <2>1, <2>2 DEF OwnInv, MayStart
  <2> QED BY <1>1, <2>3, <2>4 DEF PublishedIsOwn
<1>5. CASE StartContainer(c)
  <2>1. /\ client[c] = "named" /\ container[c] = "created" /\ UNCHANGED cidfile
        /\ client' = [client EXCEPT ![c] = "running"]
        /\ container' = [container EXCEPT ![c] = "running"]
        /\ staging' = CASE staging = Absent -> Absent
                         [] c = own /\ image = "mine" /\ staging = Empty -> "own"
                         [] c = own /\ image = "mine" /\ staging = "overtaken" -> "overtaken"
                         [] c # own /\ staging \in {Empty, "overtaken"} -> "overtaken"
                         [] OTHER -> "mixed"
    BY <1>5 DEF StartContainer
  <2>2. cidfile = c
    BY <2>1 DEF FileOf
  <2>3. \A d \in Clients : FileOf(d)'
    BY <2>1, <2>2 DEF FileOf, Naming
  <2>4. ~Done /\ pc \notin Finishing /\ (c # own => client[own] # "running")
    BY <2>1, <2>2 DEF OwnInv, FileOf, MayStart
  <2>5. (Staged /\ c = own) => staging' \in {"own", "overtaken"}
    BY <2>1 DEF OwnInv, Absent, Empty
  <2>6. (Staged /\ c # own /\ client[own] \in {"none", "starting", "opened", "created", "named"})
           => staging' = "overtaken"
    BY <2>1 DEF OwnInv, Absent, Empty
  <2>7. (Staged /\ c # own) => client[own] # "ok"
    BY <2>4 DEF OwnInv
  <2>8. OwnInv'
    <3>1. client'[own] = IF c = own THEN "running" ELSE client[own]
      BY <2>1
    <3>2. pc # "discard"
      BY <2>1, <2>2 DEF OwnInv, Absent
    <3>6. pc # "leave" /\ (pc = "wait" => client'[own] # "ok")
      BY <2>4, <2>7, <3>1
    <3>3. (Before => (client[own] = "none" /\ cidfile # own))'
      BY <1>1, <2>1, <2>2, <3>1 DEF OwnInv
    <3>4. ((Staged /\ client[own] \in {"none", "starting", "opened", "created", "named"})
            => staging \in {Empty, "overtaken"})'
      BY <1>1, <2>6, <3>1
    <3>5. ((Staged /\ client[own] \in {"running", "ok"}) => staging \in {"own", "overtaken"})'
      BY <1>1, <2>4, <2>5, <2>7, <3>1
    <3> QED BY <1>1, <2>4, <3>2, <3>3, <3>4, <3>5, <3>6 DEF OwnInv
  <2> QED BY <1>1, <2>3, <2>8 DEF PublishedIsOwn
<1>6. CASE CannotStart(c)
  <2>1. /\ client[c] = "named" /\ client' = [client EXCEPT ![c] = "failed"]
        /\ UNCHANGED <<staging, cidfile, container>>
    BY <1>6 DEF CannotStart
  <2>2. \A d \in Clients : FileOf(d)'
    BY <2>1 DEF FileOf, Naming
  <2>3. OwnInv'
    BY <1>1, <2>1 DEF OwnInv, MayStart
  <2> QED BY <1>1, <2>2, <2>3 DEF PublishedIsOwn
<1>7. CASE Exit(c)
  <2>1. /\ container[c] = "running" /\ \A d \in Clients : client[d] # "starting"
        /\ UNCHANGED <<staging, cidfile>> /\ container' = [container EXCEPT ![c] = Absent]
        /\ \/ client[c] # "running" /\ UNCHANGED client
           \/ client[c] = "running" /\ \E x \in {"ok", "failed"} : client' = [client EXCEPT ![c] = x]
    BY <1>7 DEF Exit
  <2>2. cidfile = c
    BY <2>1 DEF FileOf
  <2>3. \A d \in Clients : FileOf(d)'
    BY <2>1, <2>2 DEF FileOf, Naming, Absent
  <2>4. \A d \in Clients : ~MayStart(d)'
    BY <2>1, <2>2 DEF FileOf, Naming, MayStart, Absent, Empty
  <2>5. OwnInv'
    BY <1>1, <2>1, <2>2, <2>4 DEF OwnInv, Absent
  <2> QED BY <1>1, <2>3, <2>5 DEF PublishedIsOwn
<1>8. CASE Fail(c)
  <2>1. /\ client[c] = "running" /\ client' = [client EXCEPT ![c] = "failed"]
        /\ container' = container \/ container' = [container EXCEPT ![c] = Absent]
        /\ UNCHANGED <<staging, cidfile>>
    BY <1>8 DEF Fail
  <2>2. \A d \in Clients : FileOf(d)'
    BY <2>1 DEF FileOf, Naming, Absent
  <2>3. \A d \in Clients : MayStart(d)' => MayStart(d)
    BY <2>1 DEF MayStart, Absent
  <2>4. OwnInv'
    BY <1>1, <2>1, <2>3 DEF OwnInv
  <2> QED BY <1>1, <2>2, <2>4 DEF PublishedIsOwn
<1> QED BY <1>2, <1>3, <1>4, <1>5, <1>6, <1>7, <1>8 DEF ClientStep

-----------------------------------------------------------------------------
LEMMA NextIInv == IInv /\ [Next]_vars => IInv'
<1> SUFFICES ASSUME IInv, [Next]_vars PROVE IInv'
  OBVIOUS
<1>1. TypeOK'
  BY NextTypeOK DEF IInv
<1>2. PublishedIsOwn' /\ OwnInv' /\ \A c \in Clients : FileOf(c)'
  <2>1. CASE Step \/ CannotRemove \/ Interrupt \/ Kill \/ Error \/ Retag \/ Damage
    BY <2>1, QuietSteps, DirectorySteps, ContainerSteps DEF Step
  <2>2. ASSUME NEW f \in BOOLEAN, Begin(f)
        PROVE  PublishedIsOwn' /\ OwnInv' /\ \A c \in Clients : FileOf(c)'
    BY <2>2, BeginStep
  <2>3. ASSUME NEW c \in Clients, ClientStep(c) \/ Fail(c)
        PROVE  PublishedIsOwn' /\ OwnInv' /\ \A d \in Clients : FileOf(d)'
    BY <2>3, ClientSteps
  <2>4. CASE UNCHANGED vars
    BY <2>4 DEF vars, docker, attempt, IInv, PublishedIsOwn, OwnInv, FileOf, Naming, MayStart,
                Before, Clearing, Staged, Done
  <2> QED BY <2>1, <2>2, <2>3, <2>4 DEF Next
<1> QED BY <1>1, <1>2 DEF IInv

THEOREM IInvHolds == Spec => []IInv
BY InitIInv, NextIInv, PTL DEF Spec

-----------------------------------------------------------------------------
(* Cancellation.  A second fact is carried along: a client that is over while   *)
(* its container still runs has been cut off by a trouble, and until the second *)
(* trouble every way out of the guard stops the client first (HandledInv).       *)

\* The guard is on its way out and no removal comes after the one at hand.
Leaving == pc = "idle" \/ (pc \in {"remove", "discard"} /\ errand = "release")

HandledInv ==
  /\ (errand = "cancel" \/ pc = "signal") => troubles >= 1
  /\ container[own] = "running" =>
       (client[own] = "running" \/ (client[own] = "failed" /\ troubles >= 1))
  /\ pc \in Finishing => client[own] = "ok"
  /\ (~killed /\ troubles <= 1 /\ Leaving) => client[own] \in Over
  /\ CancellationLeavesNoWriter

LEMMA InitHandled == Init => HandledInv
BY DEF Init, HandledInv, Leaving, CancellationLeavesNoWriter, Finishing, Over, Absent

\* Steps of the build that leave clients and containers alone and are no trouble.
LEMMA HandledQuiet ==
  ASSUME IInv, HandledInv,
         \/ UseWorkspace \/ RefuseWorkspace \/ CreateMarker \/ WriteMarker \/ WriteManifest
         \/ Existing \/ Missing \/ DownloadSources \/ CreateScript \/ WriteScript \/ UseScript
         \/ RefuseScript \/ CachedImage \/ NoImage \/ RequireImage \/ RefuseImage
         \/ NothingToRemove \/ Malformed \/ ClientSucceeded \/ ClientFailed \/ Finalize
         \/ BuildImage \/ PrepareStaging \/ SetAside \/ Install \/ Discard \/ Leave
  PROVE  HandledInv'
<1> USE NamesAssumption
    DEF NamesAssumption, IInv, TypeOK, HandledInv, Leaving, CancellationLeavesNoWriter, docker,
        attempt, Go, Local, Finishing, Over, Working
<1>1. UNCHANGED <<client, container, own, killed, troubles>>
  BY DEF UseWorkspace, RefuseWorkspace, CreateMarker, WriteMarker, WriteManifest, Existing, Missing,
         DownloadSources, CreateScript, WriteScript, UseScript, RefuseScript, CachedImage, NoImage,
         RequireImage, RefuseImage, TakeImage, NothingToRemove, Malformed, ClientSucceeded,
         ClientFailed, Finalize, BuildImage, PrepareStaging, SetAside, Install, Discard, Leave
<1>2. client[own] \in {"none", "ok"} => container[own] # "running"
  OBVIOUS
<1>3. CASE UseWorkspace \/ RefuseWorkspace \/ CreateMarker \/ WriteMarker \/ WriteManifest
           \/ Existing \/ Missing \/ DownloadSources \/ CreateScript \/ WriteScript
  BY <1>1, <1>2, <1>3
     DEF UseWorkspace, RefuseWorkspace, CreateMarker, WriteMarker, WriteManifest, Existing, Missing,
         DownloadSources, CreateScript, WriteScript, OwnInv, Before
<1>4. CASE UseScript \/ RefuseScript \/ CachedImage \/ NoImage \/ RequireImage \/ RefuseImage
           \/ BuildImage \/ PrepareStaging
  BY <1>1, <1>2, <1>4
     DEF UseScript, RefuseScript, CachedImage, NoImage, RequireImage, RefuseImage, BuildImage,
         PrepareStaging, TakeImage, OwnInv, Before
<1>5. CASE NothingToRemove \/ Malformed
  <2>1. container[own] # "running"
    BY <1>5 DEF NothingToRemove, Malformed, FileOf
  <2>2. pc = "remove" /\ (errand = "stale" => client[own] = "none")
    BY <1>5 DEF NothingToRemove, Malformed, OwnInv, Before, Clearing
  <2>3. errand' = errand /\ pc' \in {AfterRemoval, AfterFailure}
    BY <1>5 DEF NothingToRemove, Malformed
  <2> QED BY <1>1, <2>1, <2>2, <2>3 DEF AfterRemoval, AfterFailure
<1>6. CASE Discard
  <2>1. container[own] # "running"
    BY <1>6 DEF Discard, FileOf, OwnInv, Absent
  <2> QED BY <1>1, <1>6, <2>1 DEF Discard, AfterRemoval
<1>7. CASE ClientFailed
  BY <1>1, <1>7 DEF ClientFailed
<1>8. CASE ClientSucceeded \/ Leave
  BY <1>1, <1>8 DEF ClientSucceeded, Leave, OwnInv, Done
<1>9. CASE Finalize \/ SetAside \/ Install
  BY <1>1, <1>2, <1>9 DEF Finalize, SetAside, Install
<1> QED BY <1>3, <1>4, <1>5, <1>6, <1>7, <1>8, <1>9

\* Steps that start, stop or name clients and containers.
LEMMA HandledDocker ==
  ASSUME IInv, HandledInv,
         \/ Remove \/ Spawn \/ Signal \/ \E f \in BOOLEAN : Begin(f)
         \/ \E c \in Clients : ClientStep(c)
  PROVE  HandledInv'
<1> USE DEF IInv, TypeOK, HandledInv, Leaving, CancellationLeavesNoWriter, attempt, Finishing, Over
<1>1. CASE Remove
  <2>1. /\ pc = "remove" /\ pc' = "discard" /\ cidfile \in Clients
        /\ UNCHANGED <<errand, own, killed, troubles>>
        /\ container' = [container EXCEPT ![cidfile] = Absent]
        /\ client' = [client EXCEPT ![cidfile] = IF @ = "running" THEN "failed" ELSE @]
    BY <1>1 DEF Remove, Go, Local
  <2>2. container'[own] # "running"
    BY <2>1 DEF FileOf, Absent
  <2> QED BY <2>1, <2>2
<1>2. CASE Spawn
  <2>1. /\ pc = "spawn" /\ pc' = "wait" /\ UNCHANGED <<container, errand, own, killed, troubles>>
        /\ client' = [client EXCEPT ![own] = "starting"] /\ client[own] = "none"
    BY <1>2 DEF Spawn, Go, Local, OwnInv, Before
  <2> QED BY <2>1
<1>3. CASE Signal
  <2>1. /\ pc = "signal" /\ pc' = "remove" /\ errand' = "release"
        /\ UNCHANGED <<own, killed, troubles>>
        /\ client' = [client EXCEPT ![own] = IF @ \in Alive THEN "failed" ELSE @]
        /\ container' = container \/ container' = [container EXCEPT ![own] = Absent]
    BY <1>3 DEF Signal, Go
  <2>2. client'[own] \in Over
    BY <2>1 DEF Alive
  <2>3. container'[own] = "running" => client'[own] = "failed"
    BY <2>1 DEF Alive, Absent
  <2> QED BY <2>1, <2>2, <2>3
<1>4. ASSUME NEW f \in BOOLEAN, Begin(f) PROVE HandledInv'
  <2>1. PICK c \in Clients :
          Unused(c) /\ own' = c /\ client' = [client EXCEPT ![c] = "none"]
    BY <1>4 DEF Begin
  <2>2. pc' = "workspace" /\ errand' = "stale" /\ UNCHANGED <<container, troubles>>
    BY <1>4 DEF Begin, Go
  <2> QED BY <2>1, <2>2 DEF Unused, Absent
<1>5. ASSUME NEW c \in Clients, ClientStep(c) PROVE HandledInv'
  <2>1. UNCHANGED <<pc, errand, own, killed, troubles>>
    BY <1>5 DEF ClientStep, OpenCidfile, CreateContainer, NameContainer, StartContainer, CannotStart,
                Exit, Elsewhere
  <2>2. CASE c # own
    <3>1. client'[own] = client[own] /\ container'[own] = container[own]
      BY <1>5, <2>2 DEF ClientStep, OpenCidfile, CreateContainer, NameContainer, StartContainer,
                        CannotStart, Exit, Becomes
    <3> QED BY <2>1, <3>1
  <2>3. CASE c = own
    <3>1. \/ /\ client[own] \in Alive \ {"running"} /\ container'[own] = container[own]
          \/ container'[own] # "running"
          \/ client[own] = "named" /\ client'[own] = "running"
      BY <1>5, <2>3 DEF ClientStep, OpenCidfile, CreateContainer, NameContainer, StartContainer,
                        CannotStart, Exit, Becomes, Absent, Alive
    <3>2. client[own] \in Over => client'[own] = client[own] /\ container'[own] # "running"
      BY <1>5, <2>3 DEF ClientStep, OpenCidfile, CreateContainer, NameContainer, StartContainer,
                        CannotStart, Exit, Becomes, Absent
    <3> QED BY <2>1, <3>1, <3>2 DEF Alive
  <2> QED BY <2>2, <2>3
<1> QED BY <1>1, <1>2, <1>3, <1>4, <1>5

\* The troubles themselves.
LEMMA HandledTroubles ==
  ASSUME IInv, HandledInv,
         \/ CannotRemove \/ Interrupt \/ Kill \/ Error \/ Retag \/ Damage
         \/ \E c \in Clients : Fail(c)
  PROVE  HandledInv'
<1> USE DEF IInv, TypeOK, HandledInv, Leaving, CancellationLeavesNoWriter, docker, attempt, Finishing, Over
<1>1. troubles \in Nat /\ troubles' = troubles + 1
  BY BoundsAssumption
     DEF BoundsAssumption, CannotRemove, Interrupt, Kill, Error, Retag, Damage, Fail, Trouble
<1>2. ASSUME NEW c \in Clients, Fail(c) PROVE HandledInv'
  <2>1. /\ client[c] = "running" /\ client' = [client EXCEPT ![c] = "failed"]
        /\ container' = container \/ container' = [container EXCEPT ![c] = Absent]
        /\ UNCHANGED <<pc, errand, own, killed>>
    BY <1>2 DEF Fail, Becomes, Elsewhere
  <2> QED BY <1>1, <2>1 DEF Absent
<1>3. CASE Kill
  BY <1>1, <1>3 DEF Kill
<1>4. CASE Retag \/ Damage
  BY <1>1, <1>4 DEF Retag, Damage
<1>5. CASE Error
  <2>1. client[own] \in {"none", "ok"}
    BY <1>5 DEF Error, OwnInv, Before, Working
  <2> QED BY <1>1, <1>5, <2>1 DEF Error
<1>6. CASE CannotRemove
  <2>1. errand = "stale" => client[own] = "none"
    BY <1>6 DEF CannotRemove, Go, OwnInv, Before, Clearing
  <2> QED BY <1>1, <1>6, <2>1 DEF CannotRemove, Go, AfterFailure
<1>7. CASE Interrupt
  <2>1. UNCHANGED <<client, container, own, killed>>
    BY <1>7 DEF Interrupt
  <2>2. Before => client[own] = "none"
    BY DEF OwnInv
  <2>3. pc = "leave" => client[own] = "ok"
    BY DEF OwnInv, Done
  <2> QED BY <1>1, <1>7, <2>1, <2>2, <2>3 DEF Interrupt, Before, Clearing, Working, Guarded
<1> QED BY <1>2, <1>3, <1>4, <1>5, <1>6, <1>7

LEMMA NextHandled == IInv /\ HandledInv /\ [Next]_vars => HandledInv'
<1> SUFFICES ASSUME IInv, HandledInv, [Next]_vars PROVE HandledInv'
  OBVIOUS
<1>1. CASE UNCHANGED vars
  BY <1>1 DEF vars, docker, attempt, HandledInv, Leaving, CancellationLeavesNoWriter
<1> QED BY <1>1, HandledQuiet, HandledDocker, HandledTroubles DEF Next, Step

-----------------------------------------------------------------------------
(* Builds that nothing disturbs.  Until the first trouble the clients of former *)
(* builds are over and their containers gone, so that the cidfile, the container *)
(* and the staging directory go through six states together (Underway), and no   *)
(* file is half written but the one at hand (CalmInv).                          *)

Underway ==
  /\ client[own] = "running" => own \in mounted
  /\ \/ client[own] = "starting" /\ cidfile = Absent /\ container[own] = Absent /\ staging = Empty
     \/ client[own] = "opened" /\ cidfile = Empty /\ container[own] = Absent /\ staging = Empty
     \/ client[own] = "created" /\ cidfile = Empty /\ container[own] = "created" /\ staging = Empty
     \/ client[own] = "named" /\ cidfile = own /\ container[own] = "created" /\ staging = Empty
     \/ client[own] = "running" /\ cidfile = own /\ container[own] = "running" /\ staging = "own"
     \/ client[own] = "ok" /\ cidfile = own /\ container[own] = Absent /\ staging = "own"

FilesCalm ==
  /\ marker = Torn => pc = "claim"
  /\ (marker = "good" /\ ~manifest) => pc = "manifest"
  /\ script = Torn => pc = "writing"
  /\ tag \in {Absent, "mine"} /\ (pc = "require" => tag = "mine")
  /\ artifact \in {Absent, "own"}
  /\ (pc \in {"idle", "workspace"} /\ marker # Absent) => artifact = "own"

DockerCalm ==
  /\ errand = "stale" /\ pc \notin {"signal", "discard"}
  /\ \A c \in Clients \ {own} : client[c] \in Over /\ container[c] = Absent
  /\ pc \notin {"wait", "leave"} =>
       (cidfile = Absent /\ container[own] = Absent /\ client[own] \in Over)
  /\ pc = "wait" => Underway
  /\ pc \in {"remove", "spawn"} => staging = Empty
  /\ pc \in {"leave"} \cup Finishing => staging = "own"

CalmInv == troubles = 0 => FilesCalm /\ DockerCalm

LEMMA InitCalm == Init => CalmInv
BY NamesAssumption DEF NamesAssumption, Init, CalmInv, FilesCalm, DockerCalm, Underway, Over, Finishing,
   Absent, Torn

\* Troubles end the calm, and no other step begins it.
LEMMA CalmStays ==
  ASSUME IInv, [Next]_vars, troubles' = 0
  PROVE  /\ troubles = 0
         /\ \/ Step \/ (\E f \in BOOLEAN : Begin(f)) \/ (\E c \in Clients : ClientStep(c))
            \/ UNCHANGED vars
<1>1. troubles \in Nat
  BY BoundsAssumption DEF BoundsAssumption, IInv, TypeOK
<1>2. ~(CannotRemove \/ Interrupt \/ Kill \/ Error \/ Retag \/ Damage \/ \E c \in Clients : Fail(c))
  BY <1>1 DEF CannotRemove, Interrupt, Kill, Error, Retag, Damage, Fail, Trouble
<1>3. \/ Step \/ (\E f \in BOOLEAN : Begin(f)) \/ (\E c \in Clients : ClientStep(c))
      \/ UNCHANGED vars
  BY <1>2 DEF Next
<1>4. CASE Step
  BY <1>3, <1>4
     DEF Step, Local, UseWorkspace, RefuseWorkspace, CreateMarker, WriteMarker, WriteManifest,
         Existing, Missing, DownloadSources, CreateScript, WriteScript, UseScript, RefuseScript,
         CachedImage, NoImage, BuildImage, RequireImage, RefuseImage, TakeImage, PrepareStaging,
         NothingToRemove, Malformed, Remove, Discard, Spawn, ClientSucceeded, ClientFailed, Signal,
         Leave, Finalize, SetAside, Install
<1>5. CASE \E f \in BOOLEAN : Begin(f)
  BY <1>3, <1>5 DEF Begin
<1>6. CASE \E c \in Clients : ClientStep(c)
  BY <1>3, <1>6 DEF ClientStep, OpenCidfile, CreateContainer, NameContainer, StartContainer,
                    CannotStart, Exit
<1>7. CASE UNCHANGED vars
  BY <1>3, <1>7 DEF vars
<1> QED BY <1>3, <1>4, <1>5, <1>6, <1>7

LEMMA CalmFiles ==
  ASSUME IInv, FilesCalm, DockerCalm, Step
  PROVE  FilesCalm'
<1> USE DEF FilesCalm, Go, Local, workspace, docker
<1>1. CASE UseWorkspace \/ RefuseWorkspace \/ CreateMarker \/ WriteMarker \/ WriteManifest
  BY <1>1 DEF UseWorkspace, RefuseWorkspace, CreateMarker, WriteMarker, WriteManifest, IInv, TypeOK,
              Absent, Torn
<1>2. CASE Existing \/ Missing \/ DownloadSources \/ CreateScript \/ WriteScript \/ UseScript
           \/ RefuseScript
  BY <1>2 DEF Existing, Missing, DownloadSources, CreateScript, WriteScript, UseScript, RefuseScript,
              Written, Torn, Absent
<1>3. CASE CachedImage \/ NoImage \/ BuildImage \/ RequireImage \/ RefuseImage \/ PrepareStaging
  BY <1>3 DEF CachedImage, NoImage, BuildImage, RequireImage, RefuseImage, TakeImage, PrepareStaging
<1>4. CASE NothingToRemove \/ Malformed \/ Remove \/ Discard \/ ClientFailed \/ Signal
  BY <1>4, NamesAssumption DEF NamesAssumption, NothingToRemove, Malformed, Remove, Discard, ClientFailed, Signal,
              DockerCalm, Underway, AfterRemoval, IInv, TypeOK, Over, Absent, Empty
<1>5. CASE Spawn \/ ClientSucceeded \/ Leave \/ Finalize \/ SetAside \/ Install
  BY <1>5 DEF Spawn, ClientSucceeded, Leave, Finalize, SetAside, Install, DockerCalm, Finishing
<1> QED BY <1>1, <1>2, <1>3, <1>4, <1>5 DEF Step

LEMMA CalmDocker ==
  ASSUME IInv, FilesCalm, DockerCalm, Step
  PROVE  DockerCalm'
<1> USE DEF Go, Local, docker, attempt, Finishing
<1>1. CASE UseWorkspace \/ RefuseWorkspace \/ CreateMarker \/ WriteMarker \/ WriteManifest
           \/ Existing \/ Missing \/ DownloadSources \/ CreateScript \/ WriteScript \/ UseScript
           \/ RefuseScript \/ NoImage \/ BuildImage \/ RefuseImage \/ CachedImage \/ RequireImage
  <2>1. /\ UNCHANGED <<staging, cidfile, client, container, mounted, own, errand>>
        /\ pc \notin {"wait", "leave", "remove", "spawn"} \cup Finishing
        /\ pc' \in {"idle"} \cup Working
    BY <1>1 DEF UseWorkspace, RefuseWorkspace, CreateMarker, WriteMarker, WriteManifest, Existing,
                Missing, DownloadSources, CreateScript, WriteScript, UseScript, RefuseScript, NoImage,
                BuildImage, RefuseImage, CachedImage, RequireImage, TakeImage, Working
  <2> QED BY <2>1 DEF DockerCalm, Working
<1>2. CASE PrepareStaging
  BY <1>2 DEF PrepareStaging, DockerCalm
<1>3. CASE NothingToRemove
  BY <1>3 DEF NothingToRemove, DockerCalm, AfterRemoval
<1>4. ~(Malformed \/ Remove \/ Discard \/ Signal \/ ClientFailed)
  BY NamesAssumption
     DEF NamesAssumption, Malformed, Remove, Discard, Signal, ClientFailed, DockerCalm, Underway,
         Absent, Empty
<1>5. CASE Spawn
  <2>1. client' = [client EXCEPT ![own] = "starting"] /\ pc = "spawn" /\ pc' = "wait"
        /\ UNCHANGED <<staging, cidfile, container, mounted, own, errand>>
    BY <1>5 DEF Spawn
  <2> QED BY <2>1 DEF DockerCalm, Underway, IInv, TypeOK
<1>6. CASE ClientSucceeded
  BY <1>6 DEF ClientSucceeded, DockerCalm, Underway
<1>7. CASE Leave
  BY <1>7 DEF Leave, DockerCalm, IInv, OwnInv, Done, Over
<1>8. CASE Finalize \/ SetAside \/ Install
  BY <1>8 DEF Finalize, SetAside, Install, DockerCalm
<1> QED BY <1>1, <1>2, <1>3, <1>4, <1>5, <1>6, <1>7, <1>8 DEF Step

LEMMA CalmBegins ==
  ASSUME IInv, FilesCalm, DockerCalm, NEW f \in BOOLEAN, Begin(f)
  PROVE  FilesCalm' /\ DockerCalm'
<1>1. PICK c \in Clients : own' = c /\ client' = [client EXCEPT ![c] = "none"]
  BY DEF Begin
<1>2. /\ UNCHANGED <<marker, manifest, script, artifact, staging, tag, cidfile, container>>
      /\ pc = "idle" /\ pc' = "workspace" /\ errand' = "stale"
  BY DEF Begin, Go, workspace
<1>3. DockerCalm'
  <2>1. \A d \in Clients : client[d] \in Over /\ container[d] = Absent
    BY <1>2 DEF DockerCalm
  <2>2. \A d \in Clients : client'[d] \in Over
    BY <1>1, <2>1 DEF Over, IInv, TypeOK
  <2> QED BY <1>1, <1>2, <2>1, <2>2 DEF DockerCalm, Finishing
<1>4. FilesCalm'
  BY <1>2 DEF FilesCalm
<1> QED BY <1>3, <1>4

LEMMA CalmClients ==
  ASSUME IInv, FilesCalm, DockerCalm, NEW c \in Clients, ClientStep(c)
  PROVE  FilesCalm' /\ DockerCalm'
<1> USE DEF IInv, TypeOK
<1>1. UNCHANGED <<marker, manifest, script, tag, artifact, pc, own, errand, image>>
  BY DEF ClientStep, OpenCidfile, CreateContainer, NameContainer, StartContainer, CannotStart, Exit,
         Elsewhere, workspace, attempt
<1>2. c = own /\ pc = "wait"
  <2>1. client[c] \in Alive \/ container[c] = "running"
    BY DEF ClientStep, OpenCidfile, CreateContainer, NameContainer, StartContainer, CannotStart, Exit,
           Alive
  <2>2. pc = "leave" => client[own] = "ok" /\ container[own] = Absent
    BY DEF OwnInv, Done
  <2> QED BY <2>1, <2>2 DEF DockerCalm, Alive, Over, Absent
<1>3. Underway /\ image = "mine"
  BY <1>2 DEF DockerCalm, OwnInv, Staged
<1>4. \A d \in Clients \ {own} : client'[d] = client[d] /\ container'[d] = container[d]
  BY <1>2 DEF ClientStep, OpenCidfile, CreateContainer, NameContainer, StartContainer, CannotStart,
              Exit, Becomes
<1>5. Underway'
  <2> USE DEF Becomes, Absent, Empty
  <2>1. CASE OpenCidfile(c)
    BY <1>1, <1>2, <1>3, <2>1 DEF OpenCidfile, Underway
  <2>2. CASE CreateContainer(c)
    BY <1>1, <1>2, <1>3, <2>2 DEF CreateContainer, Underway
  <2>3. CASE NameContainer(c)
    BY <1>1, <1>2, <1>3, <2>3 DEF NameContainer, Underway
  <2>4. CASE StartContainer(c)
    BY <1>1, <1>2, <1>3, <2>4 DEF StartContainer, Underway
  <2>5. CASE CannotStart(c)
    BY <1>2, <1>3, <2>5 DEF CannotStart, Underway
  <2>6. CASE Exit(c)
    BY <1>1, <1>2, <1>3, <2>6 DEF Exit, Underway
  <2> QED BY <2>1, <2>2, <2>3, <2>4, <2>5, <2>6 DEF ClientStep
<1>6. DockerCalm'
  BY <1>1, <1>2, <1>4, <1>5 DEF DockerCalm, Finishing
<1>7. FilesCalm'
  BY <1>1 DEF FilesCalm
<1> QED BY <1>6, <1>7

LEMMA NextCalm == IInv /\ CalmInv /\ [Next]_vars => CalmInv'
<1> SUFFICES ASSUME IInv, CalmInv, [Next]_vars, troubles' = 0 PROVE FilesCalm' /\ DockerCalm'
  BY DEF CalmInv
<1>1. /\ FilesCalm /\ DockerCalm
      /\ \/ Step \/ (\E f \in BOOLEAN : Begin(f)) \/ (\E c \in Clients : ClientStep(c))
         \/ UNCHANGED vars
  BY CalmStays DEF CalmInv
<1>2. CASE UNCHANGED vars
  BY <1>1, <1>2 DEF vars, workspace, docker, attempt, FilesCalm, DockerCalm, Underway
<1> QED BY <1>1, <1>2, CalmFiles, CalmDocker, CalmBegins, CalmClients

-----------------------------------------------------------------------------
\* Every variable of the model keeps to its type.
THEOREM TypeCorrect == Spec => []TypeOK
<1>1. IInv => TypeOK
  BY DEF IInv
<1> QED BY <1>1, IInvHolds, PTL

\* A running container is always named by the cidfile, so that no two of them
\* write to the workspace, whatever kills and interrupts leave behind.
THEOREM NoWriterIsLost ==
  Spec => [](NoLostWriter /\ \A c, d \in Clients :
               container[c] = "running" /\ container[d] = "running" => c = d)
<1>1. IInv => NoLostWriter /\ \A c, d \in Clients :
                container[c] = "running" /\ container[d] = "running" => c = d
  BY DEF IInv, FileOf, NoLostWriter
<1> QED BY <1>1, IInvHolds, PTL

\* What is published was written by the attempt's own container, up to clients
\* that were overtaken before it started.
THEOREM PublishedOwn == Spec => []PublishedIsOwn
<1>1. IInv => PublishedIsOwn
  BY DEF IInv
<1> QED BY <1>1, IInvHolds, PTL

\* A build that ends through its handlers leaves no running container, as long
\* as no second trouble falls into the handling of the first.
THEOREM CancelledIsStopped == Spec => []CancellationLeavesNoWriter
<1>1. HandledInv => CancellationLeavesNoWriter
  BY DEF HandledInv
<1> QED BY <1>1, IInvHolds, InitHandled, NextHandled, PTL DEF Spec

\* Until something stops or disturbs a build, each one that ends leaves what its
\* own container wrote, no container and no cidfile, and nothing that a later build
\* refuses.
THEOREM UndisturbedBuilds == Spec => []UndisturbedBuildsPublish
<1>1. IInv /\ CalmInv => UndisturbedBuildsPublish
  <2> SUFFICES ASSUME IInv, troubles = 0, FilesCalm, DockerCalm
               PROVE  UndisturbedBuildsPublish
    BY DEF CalmInv, UndisturbedBuildsPublish
  <2>1. cidfile = Empty => client[own] \in {"opened", "created"}
    BY NamesAssumption
       DEF NamesAssumption, IInv, OwnInv, Done, TypeOK, DockerCalm, Underway, Absent, Empty
  <2>2. ~Wreck
    BY <2>1 DEF Wreck, FilesCalm, IInv, TypeOK, Absent, Torn
  <2>3. pc = "idle" => cidfile = Absent /\ \A c \in Clients : container[c] = Absent
    BY DEF DockerCalm
  <2> QED BY <2>2, <2>3 DEF UndisturbedBuildsPublish, FilesCalm
<1> QED BY <1>1, IInvHolds, InitCalm, NextCalm, PTL DEF Spec

=============================================================================
