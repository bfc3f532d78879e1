---------------------------- MODULE AssemblyLoops ----------------------------
(* plan_assembly as it is written: three loops over the runtimes of the      *)
(* variant that append builds and record what is then ready.                 *)
EXTENDS ManagedAssembly, SequencesExt

\* The builds so far and the artifacts that are ready with them.
Begun ==
  [builds |-> <<>>,
   ready |-> {k \in Contexts : Disposition(k) = "reuse"}
             \cup {r \in request.runtimes : RuntimeDisposition(r) = "reuse"}]

ModeNow(a, disposition, ready) == IF a \in ready THEN "preserve" ELSE Mode(disposition)

\* A build as the loops append it, its stage not recorded.
Begins(k, cmode, r, rmode) ==
  [compiler |-> k, cmode |-> cmode, runtime |-> r, rmode |-> rmode, stage |-> 0]

AddPair(plan_, r) ==
  LET k == Provider[r]
      pair == Begins(k, ModeNow(k, Disposition(k), plan_.ready),
                     r, ModeNow(r, RuntimeDisposition(r), plan_.ready))
  IN  [builds |-> Append(plan_.builds, pair), ready |-> plan_.ready \cup {k, r}]

PairSelected(plan_, r) ==
  IF \/ Provider[r] # request.kit
     \/ PublicationReady(r)
     \/ {request.kit, r} \subseteq plan_.ready
     \/ ~Pairing(r)
    THEN plan_ ELSE AddPair(plan_, r)

BuildSelected(plan_) ==
  IF request.kit \in plan_.ready THEN plan_
  ELSE [builds |-> Append(plan_.builds,
          Begins(request.kit, Mode(Disposition(request.kit)), None, "create")),
        ready |-> plan_.ready \cup {request.kit}]

PairProvider(plan_, r) ==
  IF r \in plan_.ready \/ Provider[r] = request.kit \/ ~Pairing(r)
    THEN plan_ ELSE AddPair(plan_, r)

BuildRuntime(plan_, r) ==
  IF r \in plan_.ready THEN plan_
  ELSE [builds |-> Append(plan_.builds,
          Begins(None, "create", r, Mode(RuntimeDisposition(r)))),
        ready |-> plan_.ready \cup {r}]

\* What the body of a loop does with one runtime.
Body(loop, plan_, r) ==
  CASE loop = "selected" -> PairSelected(plan_, r)
    [] loop = "providers" -> PairProvider(plan_, r)
    [] loop = "runtimes" -> BuildRuntime(plan_, r)

\* A loop over the runtimes in their order.
Loop(loop, plan_, runtimes) ==
  LET after[i \in 0 .. Len(runtimes)] ==
        IF i = 0 THEN plan_ ELSE Body(loop, after[i - 1], runtimes[i])
  IN  after[Len(runtimes)]

LoopPlan(runtimes) ==
  LET selected == BuildSelected(Loop("selected", Begun, runtimes))
      provided == Loop("providers", selected, runtimes)
  IN  Loop("runtimes", provided, runtimes).builds

\* assemble.py:280-366: in whatever order the variant lists its runtimes, the loops
\* make the builds of PlanAssembly, each once and in the order of the stages.
PlanFollowsLoops ==
  At("discover") /\ ~Invalid =>
    \A runtimes \in SetToSeqs(request.runtimes) :
      LET loops == LoopPlan(runtimes)
          Staged(i) == {b \in PlanAssembly : [b EXCEPT !.stage = 0] = loops[i]}
      IN  /\ Len(loops) = Cardinality(PlanAssembly)
          /\ {[b EXCEPT !.stage = 0] : b \in PlanAssembly} = ToSet(loops)
          /\ \A i, j \in 1 .. Len(loops) :
               i < j => \A b \in Staged(i), c \in Staged(j) : b.stage <= c.stage
=============================================================================
