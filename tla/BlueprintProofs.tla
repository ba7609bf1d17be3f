--------------------------- MODULE BlueprintProofs ---------------------------
(* Proofs about the Blueprint controller, for every set of instances, every *)
(* bound on generations and every set of faults.                            *)
EXTENDS Blueprint, TLAPS

\* The effect of one iteration of the module loop on the working copy
LEMMA HandledFacts ==
    ASSUME NEW c \in Pass, NEW i \in Instances, NEW state \in ModuleStates
    PROVE  LET h == Handled(c, i, state)
           IN  /\ h \in Pass
               /\ h.generation = c.generation
               /\ h.observed = c.observed
               /\ h.updateRequired = c.updateRequired
               /\ h.readyNow = c.readyNow
               /\ h.status.observedGeneration = c.status.observedGeneration
               /\ h.status.ready = c.status.ready
               /\ h.status.error = c.status.error
               /\ h.status.releases = [c.status.releases EXCEPT ![i] = c.generation]
               /\ h.status.modulesState = [c.status.modulesState EXCEPT ![i] = state]
  BY Zenon DEF Handled, Pass, Status

\* The same for an iteration that ended with an error
LEMMA HandledWithErrorFacts ==
    ASSUME NEW c \in Pass, NEW i \in Instances
    PROVE  LET h == HandledWithError(c, i)
           IN  /\ h \in Pass
               /\ h.generation = c.generation
               /\ h.observed = c.observed
               /\ h.updateRequired = c.updateRequired
               /\ h.readyNow = c.readyNow
               /\ h.status.observedGeneration = c.status.observedGeneration
               /\ h.status.ready = c.status.ready
               /\ h.status.releases = [c.status.releases EXCEPT ![i] = c.generation]
               /\ h.status.modulesState = [c.status.modulesState EXCEPT ![i] = "error"]
<1> DEFINE k == Handled(c, i, "error")
<1>1. /\ k \in Pass
      /\ k.generation = c.generation
      /\ k.observed = c.observed
      /\ k.updateRequired = c.updateRequired
      /\ k.readyNow = c.readyNow
      /\ k.status.observedGeneration = c.status.observedGeneration
      /\ k.status.ready = c.status.ready
      /\ k.status.releases = [c.status.releases EXCEPT ![i] = c.generation]
      /\ k.status.modulesState = [c.status.modulesState EXCEPT ![i] = "error"]
  BY HandledFacts, Zenon DEF ModuleStates
<1> DEFINE s == [k.status EXCEPT !.error = TRUE]
<1>2. HandledWithError(c, i) = [k EXCEPT !.status = s]
  BY DEF HandledWithError
<1> HIDE DEF k
<1>3. /\ s \in Status
      /\ s.observedGeneration = k.status.observedGeneration
      /\ s.ready = k.status.ready
      /\ s.releases = k.status.releases
      /\ s.modulesState = k.status.modulesState
  BY <1>1, Zenon DEF Pass, Status
<1> HIDE DEF s
<1> QED
  BY <1>1, <1>2, <1>3 DEF Pass

\* Resetting the state keeps the releases and the module states
LEMMA ResetFacts ==
    ASSUME NEW status \in Status, NEW g \in Generations
    PROVE  LET r == ResetState(status, g)
           IN  /\ r \in Status
               /\ r.observedGeneration = g
               /\ ~r.ready
               /\ ~r.error
               /\ r.releases = status.releases
               /\ r.modulesState = status.modulesState
<1>1. g \in 0 .. MaxGeneration
  BY DEF Generations
<1> QED
  BY <1>1, Zenon DEF ResetState, Status

\* The initial values have their types
LEMMA InitialValues ==
    /\ EmptyStatus \in Status
    /\ NewObject \in Object
    /\ NoPass \in Pass
    /\ NoRelease \in Release
  BY GenerationAssumption DEF EmptyStatus, NewObject, NoPass, NoRelease, Status,
     Object, Pass, Release, ModuleStates, Generations

\* Every step of the controller and of its environment keeps the types
LEMMA TypeStep == TypeOK /\ [Next]_vars => TypeOK'
<1> SUFFICES ASSUME TypeOK, [Next]_vars PROVE TypeOK'
  OBVIOUS
<1> USE DEF TypeOK
<1>1. CASE ReconcileNothing
  BY <1>1, Zenon DEF ReconcileNothing
<1>2. CASE BeginDelete
  BY <1>2, Zenon DEF BeginDelete
<1>3. ASSUME NEW i \in Instances, DeleteExternalResource(i) PROVE TypeOK'
  BY <1>3, InitialValues DEF DeleteExternalResource, Uninstalled, UninstallFails, Conditions
<1>4. CASE RemoveFinalizer
  BY <1>4, Zenon DEF RemoveFinalizer, Object
<1>5. CASE BeginReconcile
  <2>1. bp' \in Object
    BY <1>5, Zenon DEF BeginReconcile, Object
  <2>2. cur' \in Pass
    <3> DEFINE s == ResetState(cache.status, cache.generation)
               u == cache.status.observedGeneration # cache.generation
    <3>1. s \in Status /\ cache.status \in Status
      BY ResetFacts DEF Object
    <3>2. u \in BOOLEAN
      OBVIOUS
    <3>3. cache.generation \in 0 .. MaxGeneration
      BY DEF Object, Generations
    <3>4. cur' = [generation |-> cache.generation, observed |-> cache.status,
                  status |-> s, updateRequired |-> u, readyNow |-> {}]
      BY <1>5, Zenon DEF BeginReconcile
    <3> HIDE DEF s, u
    <3> QED
      BY <3>1, <3>2, <3>3, <3>4 DEF Pass
  <2>3. todo' \in SUBSET Instances
    BY <1>5 DEF BeginReconcile, Object
  <2> QED
    BY <1>5, <2>1, <2>2, <2>3, Zenon DEF BeginReconcile
<1>6. ASSUME NEW i \in Instances, ReconcileModule(i) PROVE TypeOK'
  <2>1. cur' \in Pass /\ rel' \in [Instances -> Release] /\ health' \in [Instances -> Conditions]
    <3> [state |-> "deployed", gen |-> cur.generation] \in Release
        /\ [state |-> "failed", gen |-> cur.generation] \in Release
      BY DEF Release, Pass
    <3>1. CASE ApplyChartOK(i)
      <4>1. cur' \in Pass
        BY <3>1, HandledFacts, Zenon DEF ApplyChartOK, ModuleStates
      <4> QED
        BY <3>1, <4>1 DEF ApplyChartOK, Conditions
    <3>2. CASE ApplyChartFails(i)
      <4>1. cur' \in Pass
        BY <3>2, HandledWithErrorFacts, Zenon DEF ApplyChartFails
      <4> QED
        BY <3>2, <4>1 DEF ApplyChartFails
    <3>3. CASE ApplyChartSkipped(i)
      BY <3>3, HandledFacts, Zenon DEF ApplyChartSkipped, ModuleStates
    <3>4. CASE CheckRelease(i)
      <4>1. cur.status.modulesState[i] \in ModuleStates
        BY DEF Pass, Status
      <4>2. Handled(cur, i, "ready") \in Pass
        BY HandledFacts, Zenon DEF ModuleStates
      <4>3. [Handled(cur, i, "ready") EXCEPT !.readyNow = @ \cup {i}] \in Pass
        BY <4>2 DEF Pass
      <4> QED
        BY <3>4, <4>1, <4>3, HandledFacts, HandledWithErrorFacts, Zenon
           DEF CheckRelease, ModuleStates, Conditions
    <3> QED
      BY <1>6, <3>1, <3>2, <3>3, <3>4 DEF ReconcileModule
  <2>2. todo' \in SUBSET Instances
    BY <1>6 DEF ReconcileModule, StaleReleases
  <2> QED
    BY <1>6, <2>1, <2>2 DEF ReconcileModule
<1>7. ASSUME NEW i \in Instances, CleanUp(i) PROVE TypeOK'
  <2>1. cur' \in Pass
    BY <1>7, GenerationAssumption DEF CleanUp, Pass, Status
  <2> QED
    BY <1>7, <2>1, InitialValues DEF CleanUp, Uninstalled, UninstallFails, Conditions
<1>8. CASE FinishReconcile
  <2> DEFINE r == cur.readyNow = specs[cur.generation]
             s == [cur.status EXCEPT !.ready = r]
  <2>1. r \in BOOLEAN
    OBVIOUS
  <2>2. bp' = bp \/ bp' = [bp EXCEPT !.status = s]
    BY <1>8, Zenon DEF FinishReconcile
  <2>3. queued' \in BOOLEAN
    BY <1>8, Zenon DEF FinishReconcile
  <2> HIDE DEF r
  <2>4. s \in Status
    BY <2>1 DEF Pass, Status
  <2> HIDE DEF s
  <2>5. bp' \in Object
    BY <2>2, <2>4 DEF Object
  <2> QED
    BY <1>8, <2>3, <2>5, InitialValues DEF FinishReconcile
<1>9. CASE Abort
  BY <1>9, InitialValues DEF Abort
<1>10. ASSUME NEW i \in Instances, AbortInHelm(i) PROVE TypeOK'
  <2>1. rel' \in [Instances -> Release]
    BY <1>10 DEF AbortInHelm, Release, Pass
  <2> QED
    BY <1>10, <2>1, InitialValues DEF AbortInHelm
<1>11. CASE UpdateSpec
  <2>1. bp.generation + 1 \in Generations
    BY <1>11, GenerationAssumption DEF UpdateSpec, Object, Generations
  <2> QED
    BY <1>11, <2>1, Zenon DEF UpdateSpec, Object
<1>12. CASE DeleteBlueprint
  BY <1>12, Zenon DEF DeleteBlueprint, Object
<1>13. CASE Watch
  BY <1>13 DEF Watch
<1>14. CASE Resync
  BY <1>14 DEF Resync
<1>15. ASSUME NEW i \in Instances, NEW h \in Conditions, SetHealth(i, h) PROVE TypeOK'
  BY <1>15 DEF SetHealth
<1>16. CASE UNCHANGED vars
  BY <1>16 DEF vars
<1> QED
  BY <1>1, <1>2, <1>3, <1>4, <1>5, <1>6, <1>7, <1>8, <1>9, <1>10, <1>11, <1>12,
     <1>13, <1>14, <1>15, <1>16 DEF Next, Reconciler

\* TypeOK: the object, its cached copy, the pass and the releases keep their
\* types under every step of the reconciler and of its environment.
THEOREM TypeCorrect == Spec => []TypeOK
<1>1. Init => TypeOK
  BY InitialValues DEF Init, TypeOK, Conditions
<1> QED
  BY <1>1, TypeStep, PTL DEF Spec
-----------------------------------------------------------------------------
(* The safety invariant that holds whatever the faults. *)

InPass == pc \in {"modules", "cleanup"}

\* The modules of the pass that its loop has handled
HandledModules ==
    IF pc = "modules" THEN specs[cur.generation] \ todo ELSE specs[cur.generation]

\* Generations only move down the chain object, cache, pass, stored status
GenerationOrder ==
    /\ cache.status.observedGeneration <= bp.status.observedGeneration
    /\ bp.status.observedGeneration <= cache.generation
    /\ cache.generation <= bp.generation
    /\ InPass => /\ cur.generation \in Generations
                 /\ bp.status.observedGeneration <= cur.generation
                 /\ cur.generation <= cache.generation
                 /\ cur.status.observedGeneration = cur.generation

\* What the loops of a pass have established about its working copy
PassProgress ==
    InPass =>
        /\ pc = "modules" => todo \subseteq specs[cur.generation]
        /\ pc = "cleanup" => \A i \in todo : cur.status.releases[i] # cur.generation
        /\ \A i \in HandledModules : cur.status.releases[i] = cur.generation
        /\ cur.readyNow \subseteq HandledModules
        /\ \A i \in cur.readyNow : cur.status.modulesState[i] = "ready"
        /\ cur.status.error => HandledModules \ cur.readyNow # {}

SafetyInv == TypeOK /\ GenerationOrder /\ PassProgress /\ ReadyIsComplete
-----------------------------------------------------------------------------
\* The effect of one iteration of the module loop, whichever branch it takes
LEMMA ModuleStep ==
    ASSUME TypeOK, NEW i \in Instances, ReconcileModule(i)
    PROVE  /\ cur'.generation = cur.generation
           /\ cur'.updateRequired = cur.updateRequired
           /\ cur'.status.observedGeneration = cur.status.observedGeneration
           /\ cur'.status.releases = [cur.status.releases EXCEPT ![i] = cur.generation]
           /\ \A j \in Instances \ {i} :
                 /\ cur'.status.modulesState[j] = cur.status.modulesState[j]
                 /\ rel'[j] = rel[j]
           /\ \/ cur'.readyNow = cur.readyNow
              \/ /\ cur'.readyNow = cur.readyNow \cup {i}
                 /\ cur'.status.modulesState[i] = "ready"
                 /\ cur'.status.error => cur.status.error
                 /\ rel[i].state = "deployed"
                 /\ rel' = rel
<1> USE DEF TypeOK
<1>h. ASSUME NEW state \in ModuleStates,
             cur' = Handled(cur, i, state) \/ cur' = HandledWithError(cur, i)
      PROVE  /\ cur'.generation = cur.generation
             /\ cur'.updateRequired = cur.updateRequired
             /\ cur'.readyNow = cur.readyNow
             /\ cur'.status.observedGeneration = cur.status.observedGeneration
             /\ cur'.status.releases = [cur.status.releases EXCEPT ![i] = cur.generation]
             /\ \A j \in Instances \ {i} :
                   cur'.status.modulesState[j] = cur.status.modulesState[j]
  <2>1. /\ cur'.generation = cur.generation
        /\ cur'.updateRequired = cur.updateRequired
        /\ cur'.readyNow = cur.readyNow
        /\ cur'.status.observedGeneration = cur.status.observedGeneration
        /\ cur'.status.releases = [cur.status.releases EXCEPT ![i] = cur.generation]
        /\ \E st \in ModuleStates :
              cur'.status.modulesState = [cur.status.modulesState EXCEPT ![i] = st]
    <3>1. CASE cur' = Handled(cur, i, state)
      <4>1. /\ cur'.generation = cur.generation
            /\ cur'.updateRequired = cur.updateRequired
            /\ cur'.readyNow = cur.readyNow
            /\ cur'.status.observedGeneration = cur.status.observedGeneration
            /\ cur'.status.releases = [cur.status.releases EXCEPT ![i] = cur.generation]
            /\ cur'.status.modulesState = [cur.status.modulesState EXCEPT ![i] = state]
        BY <3>1, HandledFacts
      <4> QED
        BY <4>1
    <3>2. CASE cur' = HandledWithError(cur, i)
      BY <3>2, HandledWithErrorFacts, Zenon DEF ModuleStates
    <3> QED
      BY <1>h, <3>1, <3>2
  <2>2. \A j \in Instances \ {i} :
           cur'.status.modulesState[j] = cur.status.modulesState[j]
    BY <2>1 DEF Pass, Status
  <2> QED
    BY <2>1, <2>2
<1>1. CASE ApplyChartOK(i)
  <2>1. \A j \in Instances \ {i} : rel'[j] = rel[j]
    BY <1>1 DEF ApplyChartOK
  <2>2. cur' = Handled(cur, i, "waiting")
    BY <1>1 DEF ApplyChartOK
  <2> QED
    BY <1>h, <2>1, <2>2 DEF ModuleStates
<1>2. CASE ApplyChartFails(i)
  <2>1. \A j \in Instances \ {i} : rel'[j] = rel[j]
    BY <1>2 DEF ApplyChartFails
  <2>2. cur' = HandledWithError(cur, i)
    BY <1>2 DEF ApplyChartFails
  <2> QED
    BY <1>h, <2>1, <2>2 DEF ModuleStates
<1>3. CASE ApplyChartSkipped(i)
  <2>1. rel' = rel /\ cur' = Handled(cur, i, "waiting")
    BY <1>3 DEF ApplyChartSkipped
  <2> QED
    BY <1>h, <2>1 DEF ModuleStates
<1>4. CASE CheckRelease(i)
  <2>1. cur.status.modulesState[i] \in ModuleStates
    BY DEF Pass, Status
  <2>2. rel' = rel
    BY <1>4 DEF CheckRelease
  <2>3. CASE rel[i].state = "deployed" /\ health[i] = "True"
    <3> DEFINE h == Handled(cur, i, "ready")
    <3>1. cur' = [h EXCEPT !.readyNow = @ \cup {i}]
      BY <1>4, <2>3 DEF CheckRelease
    <3>2. /\ h \in Pass
          /\ h.generation = cur.generation
          /\ h.updateRequired = cur.updateRequired
          /\ h.readyNow = cur.readyNow
          /\ h.status.observedGeneration = cur.status.observedGeneration
          /\ h.status.error = cur.status.error
          /\ h.status.releases = [cur.status.releases EXCEPT ![i] = cur.generation]
          /\ h.status.modulesState = [cur.status.modulesState EXCEPT ![i] = "ready"]
      BY HandledFacts, Zenon DEF ModuleStates
    <3> HIDE DEF h
    <3>3. /\ h.status.modulesState[i] = "ready"
          /\ \A j \in Instances \ {i} :
                h.status.modulesState[j] = cur.status.modulesState[j]
      BY <3>2 DEF Pass, Status
    <3>4. /\ cur'.status = h.status
          /\ cur'.generation = h.generation
          /\ cur'.updateRequired = h.updateRequired
          /\ cur'.readyNow = h.readyNow \cup {i}
      BY <3>1, <3>2 DEF Pass
    <3> QED
      BY <2>2, <2>3, <3>2, <3>3, <3>4, Zenon
  <2>4. CASE ~(rel[i].state = "deployed" /\ health[i] = "True")
    <3>1. \E state \in ModuleStates :
            cur' = Handled(cur, i, state) \/ cur' = HandledWithError(cur, i)
      BY <1>4, <2>1, <2>4 DEF CheckRelease, ModuleStates, Conditions
    <3> QED
      BY <1>h, <2>2, <3>1
  <2> QED
    BY <2>3, <2>4
<1> QED
  BY <1>1, <1>2, <1>3, <1>4 DEF ReconcileModule

\* Steps that leave the pass and the stored status alone, and move the object's
\* generation, or bring the cache up to date
LEMMA SafetyOutsidePass ==
    ASSUME SafetyInv, TypeOK', specs' = specs, pc' = pc, cur' = cur, todo' = todo \/ ~InPass,
           bp'.status = bp.status, bp'.generation >= bp.generation,
           cache' = cache \/ cache' = bp
    PROVE  SafetyInv'
<1>1. GenerationOrder'
  BY DEF SafetyInv, TypeOK, Object, Status, Pass, Generations, GenerationOrder, InPass
<1>2. PassProgress'
  BY DEF SafetyInv, PassProgress, InPass, HandledModules
<1>3. ReadyIsComplete'
  BY DEF SafetyInv, ReadyIsComplete
<1> QED
  BY <1>1, <1>2, <1>3 DEF SafetyInv

\* Steps that end, or do not start, a pass and leave the object alone
LEMMA SafetyNoPass ==
    ASSUME SafetyInv, TypeOK', specs' = specs, pc' \in {"idle", "delete"}, bp'.status = bp.status,
           bp'.generation = bp.generation, cache' = cache
    PROVE  SafetyInv'
  BY DEF SafetyInv, GenerationOrder, PassProgress, ReadyIsComplete, InPass

\* Starting a pass (reconcile up to the module loop) keeps the invariant
LEMMA SafetyBegin == SafetyInv /\ BeginReconcile /\ TypeOK' => SafetyInv'
<1> SUFFICES ASSUME SafetyInv, BeginReconcile, TypeOK' PROVE SafetyInv'
  OBVIOUS
<1> USE DEF SafetyInv, TypeOK
<1>1. bp'.status = bp.status /\ bp'.generation = bp.generation
  BY DEF BeginReconcile, Object
<1>2. cache.generation \in Generations /\ cache.status \in Status
  BY DEF Object
<1>3. /\ cur'.generation = cache.generation
      /\ cur'.status = ResetState(cache.status, cache.generation)
      /\ cur'.readyNow = {}
      /\ pc' = "modules"
      /\ todo' = specs[cache.generation]
      /\ specs' = specs
      /\ cache' = cache
  BY DEF BeginReconcile
<1>4. /\ cur'.status.observedGeneration = cache.generation
      /\ ~cur'.status.error
      /\ cur'.status.releases = cache.status.releases
  BY <1>2, <1>3, ResetFacts
<1>5. GenerationOrder'
  BY <1>1, <1>2, <1>3, <1>4 DEF GenerationOrder, InPass, Object, Generations
<1>6. HandledModules' = {}
  BY <1>3 DEF HandledModules
<1>7. PassProgress'
  BY <1>3, <1>4, <1>6 DEF PassProgress
<1>8. ReadyIsComplete'
  BY <1>1, <1>3 DEF ReadyIsComplete
<1> QED
  BY <1>5, <1>7, <1>8

\* One iteration of the module loop keeps the invariant
LEMMA SafetyModule ==
    ASSUME SafetyInv, NEW i \in Instances, ReconcileModule(i), TypeOK'
    PROVE  SafetyInv' /\ HandledModules' = HandledModules \cup {i}
<1> USE DEF SafetyInv
<1>1. /\ pc = "modules" /\ i \in todo
      /\ specs' = specs /\ bp' = bp /\ cache' = cache
      /\ \/ /\ todo = {i} /\ pc' = "cleanup" /\ todo' = StaleReleases(cur'.status)
         \/ /\ todo # {i} /\ pc' = "modules" /\ todo' = todo \ {i}
  BY DEF ReconcileModule
<1>2. /\ cur'.generation = cur.generation
      /\ cur'.status.observedGeneration = cur.status.observedGeneration
      /\ cur'.status.releases = [cur.status.releases EXCEPT ![i] = cur.generation]
      /\ \A j \in Instances \ {i} :
            cur'.status.modulesState[j] = cur.status.modulesState[j]
      /\ \/ cur'.readyNow = cur.readyNow
         \/ /\ cur'.readyNow = cur.readyNow \cup {i}
            /\ cur'.status.modulesState[i] = "ready"
            /\ cur'.status.error => cur.status.error
  BY ModuleStep
<1>3. GenerationOrder'
  BY <1>1, <1>2 DEF GenerationOrder, InPass
<1>4. todo \subseteq specs[cur.generation] /\ cur.generation \in Generations
  BY <1>1 DEF PassProgress, InPass, GenerationOrder
<1>5. HandledModules' = HandledModules \cup {i}
  BY <1>1, <1>2, <1>4 DEF HandledModules
<1>6. i \notin HandledModules /\ HandledModules \subseteq Instances
  BY <1>1, <1>4 DEF HandledModules, TypeOK
<1>7. cur.status.releases \in [Instances -> 0 .. MaxGeneration]
  BY DEF TypeOK, Pass, Status
<1>8. PassProgress'
  <2>1. (pc = "modules" => todo \subseteq specs[cur.generation])'
    BY <1>1, <1>2, <1>4
  <2>2. (pc = "cleanup" => \A j \in todo : cur.status.releases[j] # cur.generation)'
    BY <1>1, <1>2 DEF StaleReleases, GenerationOrder, InPass
  <2>3. (\A j \in HandledModules : cur.status.releases[j] = cur.generation)'
    BY <1>1, <1>2, <1>5, <1>6, <1>7 DEF PassProgress, InPass
  <2>4. (cur.readyNow \subseteq HandledModules)'
    BY <1>1, <1>2, <1>5 DEF PassProgress, InPass
  <2>5. (\A j \in cur.readyNow : cur.status.modulesState[j] = "ready")'
    BY <1>1, <1>2, <1>6 DEF PassProgress, InPass
  <2>6. (cur.status.error => HandledModules \ cur.readyNow # {})'
    BY <1>1, <1>2, <1>5, <1>6 DEF PassProgress, InPass
  <2> QED
    BY <2>1, <2>2, <2>3, <2>4, <2>5, <2>6 DEF PassProgress
<1>9. ReadyIsComplete'
  BY <1>1 DEF ReadyIsComplete
<1> QED
  BY <1>3, <1>5, <1>8, <1>9

\* The effect of one iteration of the clean-up loop
LEMMA CleanUpFacts ==
    ASSUME TypeOK, NEW i \in Instances, CleanUp(i)
    PROVE  /\ cur'.generation = cur.generation
           /\ cur'.readyNow = cur.readyNow
           /\ cur'.updateRequired = cur.updateRequired
           /\ cur'.status.observedGeneration = cur.status.observedGeneration
           /\ cur'.status.modulesState = cur.status.modulesState
           /\ cur'.status.error = cur.status.error
           /\ \/ cur'.status.releases = cur.status.releases /\ rel' = rel
              \/ /\ cur'.status.releases = [cur.status.releases EXCEPT ![i] = 0]
                 /\ rel' = [rel EXCEPT ![i] = NoRelease]
<1>1. CASE Uninstalled(i) /\ cur' = [cur EXCEPT !.status.releases[i] = 0]
  BY <1>1 DEF TypeOK, Pass, Status, Uninstalled
<1>2. CASE UninstallFails(i) /\ UNCHANGED cur
  BY <1>2 DEF UninstallFails
<1> QED
  BY <1>1, <1>2 DEF CleanUp

\* One iteration of the clean-up loop keeps the invariant
LEMMA SafetyCleanUp ==
    ASSUME SafetyInv, NEW i \in Instances, CleanUp(i), TypeOK'
    PROVE  SafetyInv'
<1> USE DEF SafetyInv
<1>1. /\ pc = "cleanup" /\ i \in todo /\ pc' = pc /\ todo' = todo \ {i}
      /\ specs' = specs /\ bp' = bp /\ cache' = cache
  BY DEF CleanUp
<1>2. /\ cur'.generation = cur.generation
      /\ cur'.readyNow = cur.readyNow
      /\ cur'.status.observedGeneration = cur.status.observedGeneration
      /\ cur'.status.modulesState = cur.status.modulesState
      /\ cur'.status.error = cur.status.error
      /\ \/ cur'.status.releases = cur.status.releases
         \/ cur'.status.releases = [cur.status.releases EXCEPT ![i] = 0]
  BY CleanUpFacts, Zenon
<1>r. \A j \in Instances \ {i} : cur'.status.releases[j] = cur.status.releases[j]
  BY <1>2 DEF TypeOK, Pass, Status
<1>3. GenerationOrder'
  BY <1>1, <1>2 DEF GenerationOrder, InPass
<1>4. HandledModules' = HandledModules /\ HandledModules \subseteq Instances
  BY <1>1, <1>2 DEF HandledModules, GenerationOrder, InPass, TypeOK
<1>5. i \notin HandledModules /\ todo \subseteq Instances
  BY <1>1 DEF PassProgress, InPass, TypeOK
<1>6. PassProgress'
  BY <1>1, <1>2, <1>r, <1>4, <1>5 DEF PassProgress, InPass
<1>7. ReadyIsComplete'
  BY <1>1 DEF ReadyIsComplete
<1> QED
  BY <1>3, <1>6, <1>7

\* What the last step of a pass stores
LEMMA FinishFacts ==
    ASSUME SafetyInv, FinishReconcile
    PROVE  /\ bp'.generation = bp.generation
           /\ \/ bp'.status = bp.status
              \/ /\ bp'.status.observedGeneration = cur.generation
                 /\ bp'.status.releases = cur.status.releases
                 /\ bp'.status.modulesState = cur.status.modulesState
                 /\ bp'.status.error = cur.status.error
                 /\ bp'.status.ready => cur.readyNow = specs[cur.generation]
<1> USE DEF SafetyInv, TypeOK
<1> DEFINE r == cur.readyNow = specs[cur.generation]
           s == [cur.status EXCEPT !.ready = r]
<1>1. bp' = bp \/ bp' = [bp EXCEPT !.status = s]
  BY Zenon DEF FinishReconcile
<1>2. r \in BOOLEAN
  OBVIOUS
<1>3. pc = "cleanup"
  BY DEF FinishReconcile
<1>4. cur.status.observedGeneration = cur.generation
  BY <1>3 DEF GenerationOrder, InPass
<1>5. r => cur.readyNow = specs[cur.generation]
  OBVIOUS
<1> HIDE DEF r
<1>6. /\ s.observedGeneration = cur.generation
      /\ s.releases = cur.status.releases
      /\ s.modulesState = cur.status.modulesState
      /\ s.error = cur.status.error
      /\ s.ready => r
  BY <1>2, <1>4 DEF Pass, Status
<1> HIDE DEF s
<1> QED
  BY <1>1, <1>5, <1>6 DEF Object

\* Saving the status keeps the invariant
LEMMA SafetyFinish ==
    ASSUME SafetyInv, FinishReconcile, TypeOK'
    PROVE  SafetyInv'
<1> USE DEF SafetyInv
<1>1. pc = "cleanup" /\ pc' = "idle" /\ specs' = specs /\ cache' = cache
  BY DEF FinishReconcile
<1>2. GenerationOrder'
  BY <1>1, FinishFacts DEF GenerationOrder, InPass, TypeOK, Object, Status, Generations
<1>3. PassProgress'
  BY <1>1 DEF PassProgress, InPass
<1>4. HandledModules = specs[cur.generation]
  BY <1>1 DEF HandledModules
<1>5. cur.generation \in Generations
  BY <1>1 DEF GenerationOrder, InPass
<1>6. ReadyIsComplete'
  BY <1>1, <1>4, <1>5, FinishFacts DEF ReadyIsComplete, PassProgress, InPass, Generations
<1> QED
  BY <1>2, <1>3, <1>6

\* The invariant holds initially
LEMMA SafetyInit == Init => SafetyInv
<1> SUFFICES ASSUME Init PROVE SafetyInv
  OBVIOUS
<1>1. TypeOK
  BY InitialValues DEF Init, TypeOK, Conditions
<1>2. GenerationOrder /\ PassProgress
  BY DEF Init, GenerationOrder, PassProgress, InPass, NewObject, EmptyStatus
<1>3. ReadyIsComplete
  BY DEF Init, ReadyIsComplete, NewObject, EmptyStatus
<1> QED
  BY <1>1, <1>2, <1>3 DEF SafetyInv

\* Every step keeps the invariant
LEMMA SafetyStep == SafetyInv /\ [Next]_vars => SafetyInv'
<1> SUFFICES ASSUME SafetyInv, [Next]_vars PROVE SafetyInv'
  OBVIOUS
<1>0. TypeOK /\ TypeOK'
  BY TypeStep DEF SafetyInv
<1>t. bp.generation \in Nat /\ bp \in Object
  BY <1>0 DEF TypeOK, Object, Generations
<1>1. CASE ReconcileNothing
  BY <1>0, <1>1, <1>t, SafetyOutsidePass DEF ReconcileNothing
<1>2. CASE BeginDelete
  BY <1>0, <1>2, SafetyNoPass DEF BeginDelete
<1>3. ASSUME NEW i \in Instances, DeleteExternalResource(i) PROVE SafetyInv'
  BY <1>0, <1>3, SafetyNoPass DEF DeleteExternalResource
<1>4. CASE RemoveFinalizer
  BY <1>0, <1>4, <1>t, SafetyNoPass DEF RemoveFinalizer, Object
<1>5. CASE BeginReconcile
  BY <1>0, <1>5, SafetyBegin
<1>6. ASSUME NEW i \in Instances, ReconcileModule(i) PROVE SafetyInv'
  BY <1>0, <1>6, SafetyModule
<1>7. ASSUME NEW i \in Instances, CleanUp(i) PROVE SafetyInv'
  BY <1>0, <1>7, SafetyCleanUp
<1>8. CASE FinishReconcile
  BY <1>0, <1>8, SafetyFinish
<1>9. CASE Abort
  BY <1>0, <1>9, SafetyNoPass DEF Abort
<1>10. ASSUME NEW i \in Instances, AbortInHelm(i) PROVE SafetyInv'
  BY <1>0, <1>10, SafetyNoPass DEF AbortInHelm
<1>11. CASE UpdateSpec
  BY <1>0, <1>11, <1>t, SafetyOutsidePass DEF UpdateSpec, Object
<1>12. CASE DeleteBlueprint
  BY <1>0, <1>12, <1>t, SafetyOutsidePass DEF DeleteBlueprint, Object
<1>13. CASE Watch
  BY <1>0, <1>13, <1>t, SafetyOutsidePass DEF Watch
<1>14. CASE Resync
  BY <1>0, <1>14, <1>t, SafetyOutsidePass DEF Resync
<1>15. ASSUME NEW i \in Instances, NEW h \in Conditions, SetHealth(i, h) PROVE SafetyInv'
  BY <1>0, <1>15, <1>t, SafetyOutsidePass DEF SetHealth
<1>16. CASE UNCHANGED vars
  BY <1>0, <1>16, <1>t, SafetyOutsidePass DEF vars
<1> QED
  BY <1>1, <1>2, <1>3, <1>4, <1>5, <1>6, <1>7, <1>8, <1>9, <1>10, <1>11, <1>12,
     <1>13, <1>14, <1>15, <1>16 DEF Next, Reconciler

\* The invariant holds whatever faults occur
THEOREM SafetyInvariant == Spec => []SafetyInv
  BY SafetyInit, SafetyStep, PTL DEF Spec

\* A stored Ready covers every module of the generation it was computed for
\* and comes without an error, for every set of modules and whatever fails.
THEOREM ReadyComplete == Spec => []ReadyIsComplete
  BY SafetyInvariant, PTL DEF SafetyInv

\* Only the end of a pass changes the stored status
LEMMA StatusStep ==
    ASSUME SafetyInv, [Next]_vars
    PROVE  bp'.status = bp.status \/ FinishReconcile
<1>t. bp \in Object
  BY DEF SafetyInv, TypeOK
<1>1. CASE UNCHANGED vars
  BY <1>1 DEF vars
<1>2. CASE ReconcileNothing \/ BeginDelete \/ Abort \/ Watch \/ Resync
  BY <1>2 DEF ReconcileNothing, BeginDelete, Abort, Watch, Resync
<1>3. CASE RemoveFinalizer \/ BeginReconcile \/ UpdateSpec \/ DeleteBlueprint
  BY <1>3, <1>t, Zenon
     DEF RemoveFinalizer, BeginReconcile, UpdateSpec, DeleteBlueprint, Object
<1>4. ASSUME NEW i \in Instances,
             \/ DeleteExternalResource(i) \/ ReconcileModule(i) \/ CleanUp(i)
             \/ AbortInHelm(i) \/ \E h \in Conditions : SetHealth(i, h)
      PROVE  bp' = bp
  BY <1>4 DEF DeleteExternalResource, ReconcileModule, CleanUp, AbortInHelm, SetHealth
<1> QED
  BY <1>1, <1>2, <1>3, <1>4 DEF Next, Reconciler

\* UpdateStatus, which overwrites on a conflict, never takes the stored status
\* back to an earlier generation, however stale the object a pass read.
THEOREM ObservedGenerationMonotone == Spec => ObservedGenerationGrows
<1>1. SafetyInv /\ [Next]_vars
         => [bp'.status.observedGeneration >= bp.status.observedGeneration]_vars
  <2> SUFFICES ASSUME SafetyInv, [Next]_vars
               PROVE  bp'.status.observedGeneration >= bp.status.observedGeneration
    OBVIOUS
  <2>1. bp.status.observedGeneration \in Nat
    BY DEF SafetyInv, TypeOK, Object, Status
  <2>2. CASE bp'.status = bp.status
    BY <2>1, <2>2
  <2>3. CASE FinishReconcile
    <3>1. cur.generation >= bp.status.observedGeneration
      BY <2>3 DEF FinishReconcile, SafetyInv, GenerationOrder, InPass, Generations
    <3> QED
      BY <2>1, <2>3, <3>1, FinishFacts
  <2> QED
    BY <2>2, <2>3, StatusStep
<1> QED
  BY <1>1, SafetyInvariant, PTL DEF Spec, ObservedGenerationGrows

\* The clean-up loop of a pass never uninstalls a module of the generation that
\* the pass deploys, whatever faults occur.
THEOREM CleanUpSafe == Spec => CleanUpSparesModules
<1>1. SafetyInv /\ [Next]_vars
         => [pc = "cleanup" => \A i \in specs[cur.generation] : rel'[i] = rel[i]]_vars
  <2> SUFFICES ASSUME SafetyInv, [Next]_vars, pc = "cleanup",
                      NEW m \in specs[cur.generation]
               PROVE  rel'[m] = rel[m]
    OBVIOUS
  <2>1. ASSUME NEW i \in Instances, CleanUp(i) PROVE rel'[m] = rel[m]
    <3>1. cur.status.releases[m] = cur.generation
      BY DEF SafetyInv, PassProgress, InPass, HandledModules
    <3>2. cur.status.releases[i] # cur.generation
      BY <2>1 DEF SafetyInv, PassProgress, InPass, CleanUp
    <3>3. rel \in [Instances -> Release] /\ m # i
      BY <3>1, <3>2 DEF SafetyInv, TypeOK
    <3>4. rel' = rel \/ rel' = [rel EXCEPT ![i] = NoRelease]
      BY <2>1 DEF CleanUp, Uninstalled, UninstallFails
    <3>5. m \in Instances
      BY DEF SafetyInv, TypeOK, GenerationOrder, InPass
    <3> QED
      BY <3>3, <3>4, <3>5
  <2>2. ASSUME \A i \in Instances : ~CleanUp(i) PROVE rel' = rel
    BY <2>2 DEF Next, Reconciler, vars, Get, ReconcileNothing, BeginDelete,
         DeleteExternalResource, RemoveFinalizer, BeginReconcile, ReconcileModule,
         FinishReconcile, Abort, AbortInHelm, UpdateSpec, DeleteBlueprint, Watch,
         Resync, SetHealth
  <2> QED
    BY <2>1, <2>2
<1> QED
  BY <1>1, SafetyInvariant, PTL DEF Spec, CleanUpSparesModules
-----------------------------------------------------------------------------
(* Ready means applied, when an apply that returns has reached Helm: neither *)
(* "chart" nor "logout" occurs.                                              *)

\* A generation that the stored status has observed, and a module that the
\* pass has handled, is never served by a release of another generation
AppliedInv ==
    /\ bp.status.observedGeneration = cache.generation =>
          \A i \in specs[cache.generation] :
              rel[i].state = "deployed" => rel[i].gen = cache.generation
    /\ InPass =>
          /\ \A i \in specs[cur.generation] :
                \/ cur.updateRequired /\ i \notin HandledModules
                \/ rel[i].state = "deployed" => rel[i].gen = cur.generation
          /\ \A i \in cur.readyNow : rel[i].state = "deployed"

\* A release is only ever taken away, marked as not deployed, or deployed
\* from the generation of the running pass
LEMMA ReleaseStep ==
    ASSUME SafetyInv, [Next]_vars, NEW m \in Instances
    PROVE  \/ rel'[m] = rel[m]
           \/ rel'[m].state # "deployed"
           \/ pc = "modules" /\ rel'[m] = [state |-> "deployed", gen |-> cur.generation]
<1>t. rel \in [Instances -> Release]
  BY DEF SafetyInv, TypeOK
<1>1. ASSUME NEW i \in Instances, DeleteExternalResource(i) \/ CleanUp(i)
      PROVE  rel'[m] = rel[m] \/ rel'[m].state # "deployed"
  BY <1>1, <1>t DEF DeleteExternalResource, CleanUp, Uninstalled, UninstallFails, NoRelease
<1>2. ASSUME NEW i \in Instances, ReconcileModule(i)
      PROVE  \/ rel'[m] = rel[m]
             \/ rel'[m].state # "deployed"
             \/ pc = "modules" /\ rel'[m] = [state |-> "deployed", gen |-> cur.generation]
  BY <1>2, <1>t DEF ReconcileModule, ApplyChartOK, ApplyChartFails, ApplyChartSkipped,
       CheckRelease
<1>3. ASSUME NEW i \in Instances, AbortInHelm(i)
      PROVE  rel'[m] = rel[m] \/ rel'[m].state # "deployed"
  BY <1>3, <1>t DEF AbortInHelm
<1>4. CASE UNCHANGED rel
  BY <1>4
<1> QED
  BY <1>1, <1>2, <1>3, <1>4 DEF Next, Reconciler, vars, ReconcileNothing, BeginDelete,
     RemoveFinalizer, BeginReconcile, FinishReconcile, Abort, UpdateSpec,
     DeleteBlueprint, Watch, Resync, SetHealth

\* An iteration of the module loop that returns leaves no older release
LEMMA ModuleApplied ==
    ASSUME SafetyInv, NEW i \in Instances, ReconcileModule(i), cur.updateRequired,
           "chart" \notin Faults, "logout" \notin Faults
    PROVE  rel'[i].state = "deployed" => rel'[i].gen = cur.generation
  BY DEF SafetyInv, TypeOK, ReconcileModule, ApplyChartOK, ApplyChartFails,
         ApplyChartSkipped, CheckRelease

\* One iteration of the module loop keeps AppliedInv
LEMMA AppliedModule ==
    ASSUME SafetyInv, AppliedInv, NEW i \in Instances, ReconcileModule(i), TypeOK',
           "chart" \notin Faults, "logout" \notin Faults
    PROVE  AppliedInv'
<1> USE DEF SafetyInv
<1>1. /\ pc = "modules" /\ InPass /\ InPass' /\ i \in todo
      /\ specs' = specs /\ bp' = bp /\ cache' = cache
  BY DEF ReconcileModule, InPass
<1>2. /\ cur'.generation = cur.generation
      /\ cur'.updateRequired = cur.updateRequired
      /\ \A j \in Instances \ {i} : rel'[j] = rel[j]
      /\ \/ cur'.readyNow = cur.readyNow
         \/ /\ cur'.readyNow = cur.readyNow \cup {i}
            /\ rel[i].state = "deployed"
            /\ rel' = rel
  BY ModuleStep, Zenon
<1>3. HandledModules' = HandledModules \cup {i} /\ i \notin HandledModules
  BY <1>1, SafetyModule DEF HandledModules
<1>4. /\ cur.generation \in Generations /\ cache.generation \in Generations
      /\ specs[cur.generation] \subseteq Instances
      /\ specs[cache.generation] \subseteq Instances
      /\ i \in specs[cur.generation]
  BY <1>1 DEF GenerationOrder, PassProgress, TypeOK, Object
<1>5. rel'[i].state = "deployed" => rel'[i].gen = cur.generation
  <2>1. CASE cur.updateRequired
    BY <2>1, ModuleApplied
  <2>2. CASE ~cur.updateRequired
    <3>1. rel[i].state = "deployed" => rel[i].gen = cur.generation
      BY <1>1, <1>4, <2>2 DEF AppliedInv
    <3>2. \/ rel'[i] = rel[i]
          \/ rel'[i].state # "deployed"
          \/ rel'[i] = [state |-> "deployed", gen |-> cur.generation]
      BY ReleaseStep DEF Next, Reconciler
    <3> QED
      BY <3>1, <3>2
  <2> QED
    BY <2>1, <2>2
<1>6. ASSUME bp.status.observedGeneration = cache.generation,
             NEW j \in specs[cache.generation], rel'[j].state = "deployed"
      PROVE  rel'[j].gen = cache.generation
  <2>1. cur.generation = cache.generation
    BY <1>1, <1>4, <1>6 DEF GenerationOrder, Generations
  <2>2. CASE j = i
    BY <1>5, <1>6, <2>1, <2>2
  <2>3. CASE j # i
    BY <1>2, <1>4, <1>6, <2>3 DEF AppliedInv
  <2> QED
    BY <2>2, <2>3
<1>7. ASSUME NEW j \in specs[cur.generation]
      PROVE  \/ cur'.updateRequired /\ j \notin HandledModules'
             \/ rel'[j].state = "deployed" => rel'[j].gen = cur.generation
  <2>1. CASE j = i
    BY <1>5, <2>1
  <2>2. CASE j # i
    BY <1>1, <1>2, <1>3, <1>4, <2>2 DEF AppliedInv
  <2> QED
    BY <2>1, <2>2
<1>8. \A j \in cur'.readyNow : rel'[j].state = "deployed"
  <2>1. cur.readyNow \subseteq HandledModules /\ cur.readyNow \subseteq Instances
    BY <1>1 DEF PassProgress, TypeOK, Pass
  <2>2. \A j \in cur.readyNow : rel'[j].state = "deployed"
    BY <1>1, <1>2, <1>3, <2>1 DEF AppliedInv
  <2> QED
    BY <1>2, <2>2
<1> QED
  BY <1>1, <1>2, <1>6, <1>7, <1>8 DEF AppliedInv

\* Starting a pass keeps AppliedInv: a pass that need not update starts on a
\* generation that has been applied
LEMMA AppliedBegin ==
    ASSUME SafetyInv, AppliedInv, BeginReconcile
    PROVE  AppliedInv'
<1> USE DEF SafetyInv
<1>1. bp'.status = bp.status
  BY DEF BeginReconcile, TypeOK, Object
<1>2. /\ cur'.generation = cache.generation
      /\ cur'.readyNow = {}
      /\ pc' = "modules" /\ InPass'
      /\ todo' = specs[cache.generation]
      /\ specs' = specs /\ cache' = cache /\ rel' = rel
  BY DEF BeginReconcile, InPass
<1>3. cur'.updateRequired \/ cache.status.observedGeneration = cache.generation
  <2> DEFINE u == cache.status.observedGeneration # cache.generation
  <2>1. cur'.updateRequired = u
    BY Zenon DEF BeginReconcile
  <2> QED
    BY <2>1, Zenon
<1>4. cache.status.observedGeneration = cache.generation
         => bp.status.observedGeneration = cache.generation
  BY DEF GenerationOrder, TypeOK, Object, Status, Generations
<1>5. HandledModules' = {}
  BY <1>2 DEF HandledModules
<1> QED
  BY <1>1, <1>2, <1>3, <1>4, <1>5 DEF AppliedInv

\* The clean-up loop keeps AppliedInv
LEMMA AppliedCleanUp ==
    ASSUME SafetyInv, AppliedInv, NEW i \in Instances, CleanUp(i)
    PROVE  AppliedInv'
<1> USE DEF SafetyInv
<1>1. /\ pc = "cleanup" /\ pc' = pc /\ InPass /\ InPass' /\ i \in todo
      /\ specs' = specs /\ bp' = bp /\ cache' = cache
  BY DEF CleanUp, InPass
<1>2. /\ cur'.generation = cur.generation
      /\ cur'.updateRequired = cur.updateRequired
      /\ cur'.readyNow = cur.readyNow
      /\ rel' = rel \/ rel' = [rel EXCEPT ![i] = NoRelease]
  BY CleanUpFacts, Zenon
<1>3. \A j \in Instances : rel'[j] = rel[j] \/ (j = i /\ rel'[j].state # "deployed")
  BY <1>2 DEF TypeOK, NoRelease
<1>4. /\ cur.generation \in Generations /\ cache.generation \in Generations
      /\ specs[cur.generation] \subseteq Instances
      /\ specs[cache.generation] \subseteq Instances
  BY <1>1 DEF GenerationOrder, TypeOK, Object
<1>5. HandledModules' = HandledModules
  BY <1>1, <1>2 DEF HandledModules
<1>6. i \notin cur.readyNow /\ cur.readyNow \subseteq Instances
  BY <1>1 DEF PassProgress, TypeOK, Pass
<1> QED
  BY <1>1, <1>2, <1>3, <1>4, <1>5, <1>6 DEF AppliedInv

\* Saving the status keeps AppliedInv
LEMMA AppliedFinish ==
    ASSUME SafetyInv, AppliedInv, FinishReconcile
    PROVE  AppliedInv'
<1>1. /\ pc = "cleanup" /\ InPass /\ ~InPass'
      /\ specs' = specs /\ cache' = cache /\ rel' = rel
  BY DEF FinishReconcile, InPass
<1>2. \A i \in specs[cur.generation] : rel[i].state = "deployed" => rel[i].gen = cur.generation
  BY <1>1 DEF AppliedInv, HandledModules
<1> QED
  BY <1>1, <1>2, FinishFacts DEF AppliedInv

\* Steps outside a pass, or that leave the running pass alone
LEMMA AppliedFrame ==
    ASSUME SafetyInv, AppliedInv, specs' = specs, bp'.status = bp.status,
           \/ ~InPass'
           \/ pc' = pc /\ cur' = cur /\ todo' = todo /\ rel' = rel,
           cache' = cache \/ cache' = bp,
           \A m \in Instances : rel'[m] = rel[m] \/ rel'[m].state # "deployed"
    PROVE  AppliedInv'
<1> USE DEF SafetyInv
<1>1. /\ bp'.status.observedGeneration = cache'.generation
            => bp.status.observedGeneration = cache.generation /\ cache'.generation = cache.generation
      /\ specs[cache.generation] \subseteq Instances
  BY DEF GenerationOrder, TypeOK, Object, Status, Generations
<1>2. (bp.status.observedGeneration = cache.generation =>
          \A i \in specs[cache.generation] :
              rel[i].state = "deployed" => rel[i].gen = cache.generation)'
  BY <1>1 DEF AppliedInv
<1>3. CASE ~InPass'
  BY <1>2, <1>3 DEF AppliedInv
<1>4. CASE pc' = pc /\ cur' = cur /\ todo' = todo /\ rel' = rel
  <2>1. (InPass' <=> InPass) /\ HandledModules' = HandledModules
    BY <1>4 DEF InPass, HandledModules
  <2> QED
    BY <1>2, <1>4, <2>1 DEF AppliedInv
<1> QED
  BY <1>3, <1>4

\* Every step keeps AppliedInv
LEMMA AppliedStep ==
    ASSUME SafetyInv, AppliedInv, [Next]_vars, "chart" \notin Faults, "logout" \notin Faults
    PROVE  AppliedInv'
<1>0. TypeOK'
  BY TypeStep DEF SafetyInv
<1>t. /\ bp \in Object
      /\ \A m \in Instances : \/ rel'[m] = rel[m]
                              \/ rel'[m].state # "deployed"
                              \/ pc = "modules"
  BY ReleaseStep DEF SafetyInv, TypeOK
<1>1. CASE BeginReconcile
  BY <1>1, AppliedBegin
<1>2. ASSUME NEW i \in Instances, ReconcileModule(i) PROVE AppliedInv'
  BY <1>0, <1>2, AppliedModule
<1>3. ASSUME NEW i \in Instances, CleanUp(i) PROVE AppliedInv'
  BY <1>3, AppliedCleanUp
<1>4. CASE FinishReconcile
  BY <1>4, AppliedFinish
<1>5. CASE ReconcileNothing \/ BeginDelete \/ Watch \/ Resync
  BY <1>5, AppliedFrame DEF ReconcileNothing, BeginDelete, Watch, Resync, InPass
<1>6. ASSUME NEW i \in Instances, DeleteExternalResource(i) PROVE AppliedInv'
  BY <1>t, <1>6, AppliedFrame DEF DeleteExternalResource, InPass
<1>7. CASE RemoveFinalizer
  BY <1>t, <1>7, AppliedFrame DEF RemoveFinalizer, InPass, Object
<1>8. CASE Abort
  BY <1>8, AppliedFrame DEF Abort, InPass
<1>9. ASSUME NEW i \in Instances, AbortInHelm(i) PROVE AppliedInv'
  <2>1. \A m \in Instances : rel'[m] = rel[m] \/ rel'[m].state # "deployed"
    BY <1>9 DEF AbortInHelm, SafetyInv, TypeOK
  <2> QED
    BY <1>9, <2>1, AppliedFrame DEF AbortInHelm, InPass
<1>10. CASE UpdateSpec \/ DeleteBlueprint
  BY <1>t, <1>10, AppliedFrame, Zenon DEF UpdateSpec, DeleteBlueprint, Object
<1>11. ASSUME NEW i \in Instances, NEW h \in Conditions, SetHealth(i, h) PROVE AppliedInv'
  BY <1>11, AppliedFrame DEF SetHealth
<1>12. CASE UNCHANGED vars
  BY <1>12, AppliedFrame DEF vars
<1> QED
  BY <1>1, <1>2, <1>3, <1>4, <1>5, <1>6, <1>7, <1>8, <1>9, <1>10, <1>11, <1>12
     DEF Next, Reconciler

\* When every apply that returns has reached Helm, a pass stores Ready for a
\* generation only if Helm has all its modules deployed from that generation,
\* although passes may be aborted, read old objects and fail to uninstall.
THEOREM ReadyApplied ==
    ASSUME "chart" \notin Faults, "logout" \notin Faults
    PROVE  Spec => ReadyOnlyIfApplied
<1>1. Init => AppliedInv
  <2> SUFFICES ASSUME Init PROVE AppliedInv
    OBVIOUS
  <2>1. ~InPass /\ bp.status.observedGeneration # cache.generation
    BY DEF Init, InPass, NewObject, EmptyStatus
  <2> QED
    BY <2>1 DEF AppliedInv
<1>2. SafetyInv /\ AppliedInv /\ [Next]_vars => AppliedInv'
  BY AppliedStep
<1>3. SafetyInv /\ AppliedInv /\ [Next]_vars
         => [(bp'.status # bp.status /\ bp'.status.ready) =>
               LET g == bp'.status.observedGeneration
               IN  \A i \in specs[g] : rel[i] = [state |-> "deployed", gen |-> g]]_vars
  <2> SUFFICES ASSUME SafetyInv, AppliedInv, [Next]_vars,
                      bp'.status # bp.status, bp'.status.ready,
                      NEW i \in specs[bp'.status.observedGeneration]
               PROVE  rel[i] = [state |-> "deployed", gen |-> bp'.status.observedGeneration]
    OBVIOUS
  <2>1. FinishReconcile
    BY StatusStep
  <2>2. pc = "cleanup" /\ InPass
    BY <2>1 DEF FinishReconcile, InPass
  <2>3. /\ bp'.status.observedGeneration = cur.generation
        /\ cur.readyNow = specs[cur.generation]
    BY <2>1, FinishFacts
  <2>4. rel[i].state = "deployed" /\ rel[i].gen = cur.generation
    BY <2>2, <2>3 DEF AppliedInv, HandledModules
  <2>5. rel[i] \in Release
    BY <2>2, <2>3 DEF SafetyInv, TypeOK, GenerationOrder
  <2> QED
    BY <2>3, <2>4, <2>5 DEF Release
<1> QED
  BY <1>1, <1>2, <1>3, SafetyInvariant, PTL DEF Spec, ReadyOnlyIfApplied
-----------------------------------------------------------------------------
(* The inventory of releases is complete when passes are not cut short and   *)
(* do not read an outdated object: neither "abort" nor "stale" occurs.       *)

\* A pass runs for an object that is there, and knows the status it will
\* replace
InventoryInv ==
    /\ ReleasesTracked
    /\ InPass => bp.exists /\ bp.finalizer /\ cur.observed = bp.status
    /\ pc = "delete" => bp.exists /\ bp.deleting /\ bp.finalizer

\* Steps that do not touch the inventory, the releases or the pass
LEMMA InventoryFrame ==
    ASSUME InventoryInv, bp'.status = bp.status, rel' = rel, pc' = pc, cur' = cur,
           bp'.finalizer = bp.finalizer,
           bp'.exists => bp.exists, bp.exists /\ bp.finalizer => bp'.exists,
           bp.deleting => bp'.deleting
    PROVE  InventoryInv'
  BY DEF InventoryInv, ReleasesTracked, InPass

\* Starting a pass on the newest object keeps the inventory complete
LEMMA InventoryBegin ==
    ASSUME SafetyInv, InventoryInv, BeginReconcile, "stale" \notin Faults
    PROVE  InventoryInv'
<1>1. pc = "idle" /\ cache = bp /\ bp.exists /\ pc' = "modules" /\ rel' = rel
  BY DEF BeginReconcile, Get
<1>2. bp \in Object /\ bp.generation \in Generations /\ bp.status \in Status
  BY DEF SafetyInv, TypeOK, Object
<1>3. bp'.status = bp.status /\ bp'.exists /\ bp'.finalizer
  BY <1>1, <1>2 DEF BeginReconcile, Object
<1>4. cur'.observed = bp.status /\ cur'.status = ResetState(bp.status, bp.generation)
  BY <1>1 DEF BeginReconcile
<1>5. cur'.status.releases = bp.status.releases
  BY <1>2, <1>4, ResetFacts
<1> QED
  BY <1>1, <1>3, <1>4, <1>5 DEF InventoryInv, ReleasesTracked, InPass

\* One iteration of the module loop keeps the inventory complete
LEMMA InventoryModule ==
    ASSUME SafetyInv, InventoryInv, NEW i \in Instances, ReconcileModule(i)
    PROVE  InventoryInv'
<1>1. /\ pc = "modules" /\ InPass /\ InPass' /\ bp' = bp /\ pc' \in {"modules", "cleanup"}
  BY DEF ReconcileModule, InPass
<1>2. /\ cur'.status.releases = [cur.status.releases EXCEPT ![i] = cur.generation]
      /\ \A j \in Instances \ {i} : rel'[j] = rel[j]
  BY ModuleStep DEF SafetyInv
<1>3. cur.generation # 0 /\ cur.status.releases \in [Instances -> 0 .. MaxGeneration]
  BY <1>1 DEF SafetyInv, GenerationOrder, Generations, TypeOK, Pass, Status
<1>4. \A j \in Instances : rel'[j].state # "none" => cur'.status.releases[j] # 0
  BY <1>1, <1>2, <1>3 DEF InventoryInv, ReleasesTracked, InPass
<1>5. cur'.observed = cur.observed
  <2>1. cur \in Pass /\ cur.status.modulesState[i] \in ModuleStates
    BY DEF SafetyInv, TypeOK, Pass, Status
  <2>2. \/ \E state \in ModuleStates : cur' = Handled(cur, i, state)
        \/ cur' = HandledWithError(cur, i)
        \/ cur' = [Handled(cur, i, "ready") EXCEPT !.readyNow = @ \cup {i}]
    BY <2>1 DEF ReconcileModule, ApplyChartOK, ApplyChartFails, ApplyChartSkipped,
         CheckRelease, ModuleStates, Conditions, SafetyInv, TypeOK
  <2>3. ASSUME NEW state \in ModuleStates, cur' = Handled(cur, i, state)
        PROVE  cur'.observed = cur.observed
    <3>1. Handled(cur, i, state).observed = cur.observed
      BY <2>1, Zenon DEF Handled, Pass
    <3> QED
      BY <2>3, <3>1
  <2>4. CASE cur' = HandledWithError(cur, i)
    BY <2>1, <2>4, HandledWithErrorFacts, Zenon
  <2>5. CASE cur' = [Handled(cur, i, "ready") EXCEPT !.readyNow = @ \cup {i}]
    <3> DEFINE h == Handled(cur, i, "ready")
    <3>1. h \in Pass /\ h.observed = cur.observed
      BY <2>1, HandledFacts, Zenon DEF ModuleStates
    <3>2. cur' = [h EXCEPT !.readyNow = @ \cup {i}]
      BY <2>5
    <3> HIDE DEF h
    <3> QED
      BY <3>1, <3>2 DEF Pass
  <2> QED
    BY <2>2, <2>3, <2>4, <2>5
<1> QED
  BY <1>1, <1>4, <1>5 DEF InventoryInv, ReleasesTracked, InPass

\* The clean-up loop drops an entry only with its release
LEMMA InventoryCleanUp ==
    ASSUME SafetyInv, InventoryInv, NEW i \in Instances, CleanUp(i)
    PROVE  InventoryInv'
<1>1. pc = "cleanup" /\ pc' = pc /\ bp' = bp
  BY DEF CleanUp
<1>2. \/ cur'.status.releases = cur.status.releases /\ rel' = rel
      \/ /\ cur'.status.releases = [cur.status.releases EXCEPT ![i] = 0]
         /\ rel' = [rel EXCEPT ![i] = NoRelease]
  BY CleanUpFacts DEF SafetyInv
<1>3. cur' = cur \/ cur' = [cur EXCEPT !.status.releases[i] = 0]
  BY DEF CleanUp
<1>4. cur'.observed = cur.observed
  BY <1>3 DEF SafetyInv, TypeOK, Pass, Status
<1>5. \A j \in Instances : rel'[j].state # "none" => cur'.status.releases[j] # 0
  <2>1. \A j \in Instances : rel[j].state # "none" => cur.status.releases[j] # 0
    BY <1>1 DEF InventoryInv, ReleasesTracked, InPass
  <2>2. rel \in [Instances -> Release] /\ cur.status.releases \in [Instances -> 0 .. MaxGeneration]
    BY DEF SafetyInv, TypeOK, Pass, Status
  <2> QED
    BY <1>2, <2>1, <2>2 DEF NoRelease
<1> QED
  BY <1>1, <1>4, <1>5 DEF InventoryInv, ReleasesTracked, InPass

\* A status equal to the one read is not saved, and names the same releases
LEMMA InventoryFinish ==
    ASSUME SafetyInv, InventoryInv, FinishReconcile
    PROVE  InventoryInv'
<1> USE DEF SafetyInv, TypeOK
<1> DEFINE r == cur.readyNow = specs[cur.generation]
           s == [cur.status EXCEPT !.ready = r]
<1>1. bp' = IF bp.exists /\ s # cur.observed THEN [bp EXCEPT !.status = s] ELSE bp
  BY Zenon DEF FinishReconcile
<1>2. pc = "cleanup" /\ pc' = "idle" /\ rel' = rel
  BY DEF FinishReconcile
<1>3. r \in BOOLEAN
  OBVIOUS
<1> HIDE DEF r
<1>4. s.releases = cur.status.releases
  BY <1>3 DEF Pass, Status
<1>5. cur.observed = bp.status /\ bp.exists
  BY <1>2 DEF InventoryInv, InPass
<1> HIDE DEF s
<1>6. bp'.status.releases = cur.status.releases /\ bp'.exists = bp.exists
  BY <1>1, <1>4, <1>5, Zenon DEF Object
<1> QED
  BY <1>2, <1>6 DEF InventoryInv, ReleasesTracked, InPass

\* Every step keeps the inventory complete
LEMMA InventoryStep ==
    ASSUME SafetyInv, InventoryInv, [Next]_vars, "abort" \notin Faults, "stale" \notin Faults
    PROVE  InventoryInv'
<1>t. bp \in Object /\ rel \in [Instances -> Release]
  BY DEF SafetyInv, TypeOK
<1>1. CASE BeginReconcile
  BY <1>1, InventoryBegin
<1>2. ASSUME NEW i \in Instances, ReconcileModule(i) PROVE InventoryInv'
  BY <1>2, InventoryModule
<1>3. ASSUME NEW i \in Instances, CleanUp(i) PROVE InventoryInv'
  BY <1>3, InventoryCleanUp
<1>4. CASE FinishReconcile
  BY <1>4, InventoryFinish
<1>5. CASE BeginDelete
  BY <1>5 DEF BeginDelete, Get, InventoryInv, ReleasesTracked, InPass
<1>6. ASSUME NEW i \in Instances, DeleteExternalResource(i) PROVE InventoryInv'
  <2>1. rel' = rel \/ rel' = [rel EXCEPT ![i] = NoRelease]
    BY <1>6 DEF DeleteExternalResource, Uninstalled, UninstallFails
  <2>2. \A j \in Instances : rel'[j].state # "none" => rel[j].state # "none"
    BY <1>t, <2>1 DEF NoRelease
  <2> QED
    BY <1>6, <2>2 DEF DeleteExternalResource, InventoryInv, ReleasesTracked, InPass
<1>7. CASE RemoveFinalizer
  BY <1>7, <1>t DEF RemoveFinalizer, InventoryInv, ReleasesTracked, InPass, Object
<1>8. CASE ReconcileNothing \/ Watch \/ Resync
  BY <1>8, InventoryFrame DEF ReconcileNothing, Watch, Resync
<1>9. CASE UpdateSpec
  BY <1>9, <1>t, InventoryFrame DEF UpdateSpec, Object
<1>10. CASE DeleteBlueprint
  BY <1>10, <1>t, InventoryFrame DEF DeleteBlueprint, Object
<1>11. ASSUME NEW i \in Instances, NEW h \in Conditions, SetHealth(i, h) PROVE InventoryInv'
  BY <1>11, InventoryFrame DEF SetHealth
<1>12. CASE UNCHANGED vars
  BY <1>12, InventoryFrame DEF vars
<1> QED
  BY <1>1, <1>2, <1>3, <1>4, <1>5, <1>6, <1>7, <1>8, <1>9, <1>10, <1>11, <1>12
     DEF Next, Reconciler, Abort, AbortInHelm

\* The inventory is complete when no pass is aborted or reads an old object
THEOREM InventoryComplete ==
    ASSUME "abort" \notin Faults, "stale" \notin Faults
    PROVE  Spec => []InventoryInv
<1>1. Init => InventoryInv
  BY DEF Init, InventoryInv, ReleasesTracked, InPass, NoRelease
<1>2. SafetyInv /\ InventoryInv /\ [Next]_vars => InventoryInv'
  BY InventoryStep
<1> QED
  BY <1>1, <1>2, SafetyInvariant, PTL DEF Spec

\* Releases names every release in Helm, so that the clean-up and the finalizer
\* can find it, when no pass is aborted or reads an old object, although applies
\* and uninstalls may fail in every way.
THEOREM Tracked ==
    ASSUME "abort" \notin Faults, "stale" \notin Faults
    PROVE  Spec => []ReleasesTracked
  BY InventoryComplete, PTL DEF InventoryInv
-----------------------------------------------------------------------------
(* Nothing is left behind when, in addition, "uninstall" does not occur.     *)

\* The finalizer guards every release, and the deletion visits all of them
GuardedInv ==
    /\ ~bp.finalizer => \A i \in Instances : rel[i].state = "none"
    /\ ~bp.exists => ~bp.finalizer
    /\ pc = "delete" => \A i \in Instances : rel[i].state # "none" => i \in todo

\* Every step keeps GuardedInv
LEMMA GuardedStep ==
    ASSUME SafetyInv, InventoryInv, GuardedInv, [Next]_vars, "abort" \notin Faults,
           "stale" \notin Faults, "uninstall" \notin Faults
    PROVE  GuardedInv'
<1>t. bp \in Object /\ rel \in [Instances -> Release]
  BY DEF SafetyInv, TypeOK
<1>1. CASE BeginReconcile
  BY <1>1, <1>t DEF BeginReconcile, GuardedInv, Object
<1>2. ASSUME NEW i \in Instances, ReconcileModule(i) \/ CleanUp(i) PROVE GuardedInv'
  BY <1>2 DEF ReconcileModule, CleanUp, InventoryInv, InPass, GuardedInv
<1>3. CASE FinishReconcile
  <2>1. pc' # "delete" /\ rel' = rel /\ pc = "cleanup"
    BY <1>3 DEF FinishReconcile
  <2>2. bp'.finalizer /\ bp'.exists
    BY <1>3, <1>t, <2>1 DEF FinishReconcile, InventoryInv, InPass, Object
  <2> QED
    BY <2>1, <2>2 DEF GuardedInv
<1>4. CASE BeginDelete
  BY <1>4 DEF BeginDelete, Get, GuardedInv, InventoryInv, ReleasesTracked
<1>5. ASSUME NEW i \in Instances, DeleteExternalResource(i) PROVE GuardedInv'
  <2>1. rel'[i].state = "none" /\ \A j \in Instances \ {i} : rel'[j] = rel[j]
    BY <1>5, <1>t DEF DeleteExternalResource, Uninstalled, UninstallFails, NoRelease
  <2> QED
    BY <1>5, <2>1 DEF DeleteExternalResource, GuardedInv
<1>6. CASE RemoveFinalizer
  BY <1>6, <1>t DEF RemoveFinalizer, GuardedInv, Object
<1>7. CASE ReconcileNothing \/ Watch \/ Resync \/ UNCHANGED vars
  BY <1>7 DEF ReconcileNothing, Watch, Resync, GuardedInv, Get, vars
<1>8. CASE UpdateSpec \/ DeleteBlueprint
  BY <1>8, <1>t, Zenon DEF UpdateSpec, DeleteBlueprint, GuardedInv, Object
<1>9. ASSUME NEW i \in Instances, NEW h \in Conditions, SetHealth(i, h) PROVE GuardedInv'
  BY <1>9 DEF SetHealth, GuardedInv
<1> QED
  BY <1>1, <1>2, <1>3, <1>4, <1>5, <1>6, <1>7, <1>8, <1>9
     DEF Next, Reconciler, Abort, AbortInHelm

\* When uninstalls succeed, no pass is aborted and none reads an old object, a
\* deleted blueprint leaves no release behind.
THEOREM DeletedClean ==
    ASSUME "abort" \notin Faults, "stale" \notin Faults, "uninstall" \notin Faults
    PROVE  Spec => []NothingLeftBehind
<1>1. Init => GuardedInv
  BY DEF Init, GuardedInv, NoRelease, NewObject
<1>2. SafetyInv /\ InventoryInv /\ GuardedInv /\ [Next]_vars => GuardedInv'
  BY GuardedStep
<1>3. GuardedInv => NothingLeftBehind
  BY Zenon DEF GuardedInv, NothingLeftBehind
<1> QED
  BY <1>1, <1>2, <1>3, SafetyInvariant, InventoryComplete, PTL DEF Spec

\* The clean-up loop still has to visit every release that is out of date
OutdatedInv ==
    pc = "cleanup" =>
        \A i \in Instances :
            rel[i].state # "none" /\ cur.status.releases[i] # cur.generation => i \in todo

\* Every step keeps OutdatedInv
LEMMA OutdatedStep ==
    ASSUME SafetyInv, InventoryInv, OutdatedInv, [Next]_vars, "abort" \notin Faults,
           "stale" \notin Faults, "uninstall" \notin Faults
    PROVE  OutdatedInv'
<1>1. ASSUME NEW i \in Instances, ReconcileModule(i) PROVE OutdatedInv'
  <2>1. InventoryInv' /\ bp' = bp /\ pc = "modules"
    BY <1>1, InventoryModule DEF ReconcileModule
  <2>2. /\ cur'.generation = cur.generation
        /\ cur'.status.observedGeneration = cur.status.observedGeneration
    BY <1>1, ModuleStep, Zenon DEF SafetyInv
  <2>3. bp.exists /\ cur.status.observedGeneration = cur.generation
    BY <2>1 DEF InventoryInv, SafetyInv, GenerationOrder, InPass
  <2>4. ASSUME pc' = "cleanup" PROVE todo' = StaleReleases(cur'.status)
    BY <1>1, <2>1, <2>4 DEF ReconcileModule
  <2> QED
    BY <2>1, <2>2, <2>3, <2>4 DEF OutdatedInv, StaleReleases, InventoryInv, ReleasesTracked
<1>2. ASSUME NEW i \in Instances, CleanUp(i) PROVE OutdatedInv'
  <2>1. /\ cur'.generation = cur.generation
        /\ \/ cur'.status.releases = cur.status.releases
           \/ cur'.status.releases = [cur.status.releases EXCEPT ![i] = 0]
    BY <1>2, CleanUpFacts DEF SafetyInv
  <2>2. \A j \in Instances \ {i} : cur'.status.releases[j] = cur.status.releases[j]
    BY <2>1 DEF SafetyInv, TypeOK, Pass, Status
  <2>3. rel'[i].state = "none" /\ \A j \in Instances \ {i} : rel'[j] = rel[j]
    BY <1>2 DEF CleanUp, Uninstalled, UninstallFails, NoRelease, SafetyInv, TypeOK
  <2> QED
    BY <1>2, <2>1, <2>2, <2>3 DEF CleanUp, OutdatedInv
<1>3. CASE pc' # "cleanup"
  BY <1>3 DEF OutdatedInv
<1>4. CASE pc' = pc /\ cur' = cur /\ todo' = todo /\ rel' = rel
  BY <1>4 DEF OutdatedInv
<1>5. ASSUME NEW i \in Instances, DeleteExternalResource(i) PROVE pc' # "cleanup"
  BY <1>5 DEF DeleteExternalResource
<1>6. CASE BeginDelete \/ RemoveFinalizer \/ BeginReconcile \/ FinishReconcile \/ Abort
  BY <1>3, <1>6 DEF BeginDelete, RemoveFinalizer, BeginReconcile, FinishReconcile, Abort
<1>7. ASSUME NEW i \in Instances, AbortInHelm(i) PROVE pc' # "cleanup"
  BY <1>7 DEF AbortInHelm
<1>8. CASE \/ ReconcileNothing \/ UpdateSpec \/ DeleteBlueprint \/ Watch \/ Resync
          \/ UNCHANGED vars
  BY <1>4, <1>8 DEF ReconcileNothing, UpdateSpec, DeleteBlueprint, Watch, Resync, vars
<1>9. ASSUME NEW i \in Instances, NEW h \in Conditions, SetHealth(i, h) PROVE OutdatedInv'
  BY <1>4, <1>9 DEF SetHealth
<1> QED
  BY <1>1, <1>2, <1>3, <1>5, <1>6, <1>7, <1>8, <1>9 DEF Next, Reconciler

\* Under the same conditions, at the end of every pass each release is mapped to
\* the generation that the pass observed, or has been uninstalled.
THEOREM CurrentAtEnd ==
    ASSUME "abort" \notin Faults, "stale" \notin Faults, "uninstall" \notin Faults
    PROVE  Spec => ReleasesCurrentAtEnd
<1>1. Init => OutdatedInv
  BY DEF Init, OutdatedInv
<1>2. SafetyInv /\ InventoryInv /\ OutdatedInv /\ [Next]_vars => OutdatedInv'
  BY OutdatedStep
<1>3. SafetyInv /\ InventoryInv /\ OutdatedInv /\ [Next]_vars
         => [(pc = "cleanup" /\ pc' = "idle") =>
               \A i \in Instances : rel[i].state # "none" =>
                   bp'.status.releases[i] = bp'.status.observedGeneration]_vars
  <2> SUFFICES ASSUME SafetyInv, InventoryInv, OutdatedInv, [Next]_vars,
                      pc = "cleanup", pc' = "idle",
                      NEW i \in Instances, rel[i].state # "none"
               PROVE  bp'.status.releases[i] = bp'.status.observedGeneration
    OBVIOUS
  <2>1. FinishReconcile
    BY DEF Next, Reconciler, vars, Get, ReconcileNothing, BeginDelete,
       DeleteExternalResource, RemoveFinalizer, BeginReconcile, ReconcileModule, CleanUp,
       Abort, AbortInHelm, UpdateSpec, DeleteBlueprint, Watch, Resync, SetHealth
  <2>2. cur.status.releases[i] = cur.generation
    BY <2>1 DEF FinishReconcile, OutdatedInv
  <2>3. /\ cur.status.observedGeneration = cur.generation
        /\ cur.observed = bp.status
        /\ bp.exists
    BY DEF SafetyInv, GenerationOrder, InventoryInv, InPass
  <2> DEFINE r == cur.readyNow = specs[cur.generation]
             s == [cur.status EXCEPT !.ready = r]
  <2>4. bp' = IF bp.exists /\ s # cur.observed THEN [bp EXCEPT !.status = s] ELSE bp
    BY <2>1, Zenon DEF FinishReconcile
  <2>5. r \in BOOLEAN
    OBVIOUS
  <2> HIDE DEF r
  <2>6. /\ s.releases = cur.status.releases
        /\ s.observedGeneration = cur.status.observedGeneration
    BY <2>5 DEF SafetyInv, TypeOK, Pass, Status
  <2> HIDE DEF s
  <2>7. bp'.status = s
    BY <2>3, <2>4 DEF SafetyInv, TypeOK, Object
  <2> QED
    BY <2>2, <2>3, <2>6, <2>7
<1> QED
  BY <1>1, <1>2, <1>3, SafetyInvariant, InventoryComplete, PTL
     DEF Spec, ReleasesCurrentAtEnd
=============================================================================
