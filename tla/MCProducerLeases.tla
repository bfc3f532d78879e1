-------------------------- MODULE MCProducerLeases --------------------------
(* Two work directories on one store: clang shares the SDKs and the GCC      *)
(* runtime of gcc, for which it also builds the gcc kit, and has a kit of its  *)
(* own.                                                                       *)
EXTENDS ProducerLeases, TLC

CONSTANTS gcc, clang

Select(state, kit, set) ==
  [state |-> state, target |-> "sdk-target", backend |-> "sdk-backend",
   tools |-> "tools", kit |-> kit, runtimes |-> {"rt-gcc"}, set |-> set]

MCSelection ==
  gcc :> Select("state-1", "kit-gcc", "set-gcc") @@
  clang :> Select("state-2", "kit-clang", "set-clang")

MCProvider == "rt-gcc" :> "kit-gcc"

\* By rank, then in an arbitrary order of digests.
MCPosition ==
  "state-1" :> 0 @@ "state-2" :> 1 @@ "sdk-target" :> 2 @@ "sdk-backend" :> 3 @@
  "tools" :> 4 @@ "rt-gcc" :> 5 @@ "kit-clang" :> 6 @@ "kit-gcc" :> 7 @@
  "set-clang" :> 8 @@ "set-gcc" :> 9 @@ "source" :> 10
MCLocks == DOMAIN MCPosition
MCSources == {"source"}
=============================================================================
