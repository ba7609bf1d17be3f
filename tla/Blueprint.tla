------------------------------ MODULE Blueprint ------------------------------
(***************************************************************************)
(* The Blueprint controller (manager/controllers/app/                      *)
(* blueprint_controller.go): one Blueprint object, the work queue and the  *)
(* informer cache that drive its reconciler, and the Helm releases the     *)
(* reconciler installs, upgrades, polls and uninstalls.                    *)
(*                                                                         *)
(* One reconcile pass is several steps, because the Helm calls, the API    *)
(* server and the process itself may do something else in between: the     *)
(* object is read, each module of the spec is handled, each stale release  *)
(* is uninstalled, and the status is saved.  A release is identified with  *)
(* the module instance it is named after (utils.GetReleaseName).           *)
(***************************************************************************)
EXTENDS Naturals

CONSTANTS
    Instances,      \* module instance names
    MaxGeneration,  \* bound: number of versions of the spec
    Faults          \* the faults of the environment that may occur

(***************************************************************************)
(* "abort"     the process stops, or an API call ends the pass early       *)
(* "stale"     a pass may start before the informer cache caught up        *)
(* "chart"     helm status fails for an existing release, or an apply      *)
(*             fails before Helm records it (secret, pull, load, render)   *)
(* "logout"    the registry logout fails after the chart was pulled        *)
(* "helm"      Helm records the install or upgrade as failed               *)
(* "uninstall" helm uninstall fails                                        *)
(***************************************************************************)
FaultKinds == {"abort", "stale", "chart", "logout", "helm", "uninstall"}

ASSUME GenerationAssumption == MaxGeneration \in Nat \ {0}
ASSUME FaultsAssumption == Faults \subseteq FaultKinds

VARIABLES
    specs,    \* specs[g]: the modules that generation g of the spec lists
    bp,       \* the Blueprint object in the API server
    cache,    \* the informer's copy of it, which r.Get reads
    queued,   \* the key waits in the work queue
    pc,       \* the phase of the reconcile pass
    cur,      \* the pass's working copy of the object
    todo,     \* modules, or releases, the current loop has still to visit
    rel,      \* Helm: the last revision of each release
    health    \* the condition the release's resources show

vars == <<specs, bp, cache, queued, pc, cur, todo, rel, health>>
-----------------------------------------------------------------------------
Generations == 1 .. MaxGeneration

\* ObservedState of one module: absent, ready, not ready, not ready with error
ModuleStates == {"absent", "ready", "waiting", "error"}

\* BlueprintStatus; a release that is not in the map has version 0
Status == [observedGeneration : 0 .. MaxGeneration,
           ready : BOOLEAN,
           error : BOOLEAN,
           releases : [Instances -> 0 .. MaxGeneration],
           modulesState : [Instances -> ModuleStates]]

Object == [exists : BOOLEAN, deleting : BOOLEAN, finalizer : BOOLEAN,
           generation : Generations, status : Status]

\* What one pass holds in memory: the object's generation, the status as it
\* was read (observedStatus), the status being computed, updateRequired, and
\* the modules counted in numReady
Pass == [generation : 0 .. MaxGeneration, observed : Status, status : Status,
         updateRequired : BOOLEAN, readyNow : SUBSET Instances]

\* The last revision of a release, and the generation its values come from
Release == [state : {"none", "deployed", "failed", "pending"},
            gen : 0 .. MaxGeneration]

Conditions == {"True", "False", "Unknown"}

TypeOK ==
    /\ specs \in [Generations -> SUBSET Instances]
    /\ bp \in Object
    /\ cache \in Object
    /\ queued \in BOOLEAN
    /\ pc \in {"idle", "modules", "cleanup", "delete"}
    /\ cur \in Pass
    /\ todo \in SUBSET Instances
    /\ rel \in [Instances -> Release]
    /\ health \in [Instances -> Conditions]
-----------------------------------------------------------------------------
EmptyStatus ==
    [observedGeneration |-> 0, ready |-> FALSE, error |-> FALSE,
     releases |-> [i \in Instances |-> 0],
     modulesState |-> [i \in Instances |-> "absent"]]

NewObject ==
    [exists |-> TRUE, deleting |-> FALSE, finalizer |-> FALSE,
     generation |-> 1, status |-> EmptyStatus]

NoPass == [generation |-> 0, observed |-> EmptyStatus, status |-> EmptyStatus,
           updateRequired |-> FALSE, readyNow |-> {}]

NoRelease == [state |-> "none", gen |-> 0]

\* A blueprint is generated for a cluster only when the plotter has a module
\* for it, so no generation lists no module
Init ==
    /\ specs \in [Generations -> (SUBSET Instances) \ {{}}]
    /\ bp = NewObject
    /\ cache = NewObject
    /\ queued = TRUE
    /\ pc = "idle"
    /\ cur = NoPass
    /\ todo = {}
    /\ rel = [i \in Instances |-> NoRelease]
    /\ health = [i \in Instances |-> "Unknown"]
-----------------------------------------------------------------------------
(* The reconciler *)

\* The worker takes the key and r.Get reads the cache
Get ==
    /\ pc = "idle"
    /\ queued
    /\ "stale" \in Faults \/ cache = bp

\* NotFound, or being deleted without our finalizer: nothing to do
ReconcileNothing ==
    /\ Get
    /\ ~cache.exists \/ (cache.deleting /\ ~cache.finalizer)
    /\ queued' = FALSE
    /\ UNCHANGED <<specs, bp, cache, pc, cur, todo, rel, health>>

\* Mutant: the modules of the spec are uninstalled, not the recorded releases
BeginDeleteBySpec ==
    /\ Get
    /\ cache.exists
    /\ cache.deleting
    /\ cache.finalizer
    /\ queued' = FALSE
    /\ pc' = "delete"
    /\ todo' = specs[cache.generation]
    /\ UNCHANGED <<specs, bp, cache, cur, rel, health>>

\* reconcileFinalizers of an object being deleted: the releases that the
\* status names are going to be uninstalled
BeginDelete ==
    /\ Get
    /\ cache.exists
    /\ cache.deleting
    /\ cache.finalizer
    /\ queued' = FALSE
    /\ pc' = "delete"
    /\ todo' = {i \in Instances : cache.status.releases[i] # 0}
    /\ UNCHANGED <<specs, bp, cache, cur, rel, health>>

\* helm uninstall; it fails for a release that does not exist
Uninstalled(i) ==
    /\ rel[i].state # "none"
    /\ rel' = [rel EXCEPT ![i] = NoRelease]
    /\ health' = [health EXCEPT ![i] = "Unknown"]

UninstallFails(i) ==
    /\ rel[i].state = "none" \/ "uninstall" \in Faults
    /\ UNCHANGED <<rel, health>>

\* deleteExternalResources, one release: the error is collected, then logged
DeleteExternalResource(i) ==
    /\ pc = "delete"
    /\ i \in todo
    /\ Uninstalled(i) \/ UninstallFails(i)
    /\ todo' = todo \ {i}
    /\ UNCHANGED <<specs, bp, cache, queued, pc, cur>>

\* Mutant: the finalizer is kept, and the key retried, while a release is left
RemoveFinalizerIfClean ==
    /\ pc = "delete"
    /\ todo = {}
    /\ IF \A i \in Instances : rel[i].state = "none"
       THEN bp' = [bp EXCEPT !.finalizer = FALSE, !.exists = FALSE] /\ UNCHANGED queued
       ELSE queued' = TRUE /\ UNCHANGED bp
    /\ pc' = "idle"
    /\ UNCHANGED <<specs, cache, cur, todo, rel, health>>

\* The finalizer goes whatever deleteExternalResources returned.  A conflict
\* is retried on the newest object (UpdateFinalizers), so the finalizer goes
\* even when the pass read an older one.
RemoveFinalizer ==
    /\ pc = "delete"
    /\ todo = {}
    /\ bp' = [bp EXCEPT !.finalizer = FALSE, !.exists = FALSE]
    /\ pc' = "idle"
    /\ UNCHANGED <<specs, cache, queued, cur, todo, rel, health>>

\* Mutant: the error of the previous pass is not cleared
ResetStateKeepsError(status, generation) ==
    [status EXCEPT !.observedGeneration = generation, !.ready = FALSE]

\* The observed generation is set and the state reset before any module is
\* looked at
ResetState(status, generation) ==
    [status EXCEPT !.observedGeneration = generation,
                   !.ready = FALSE,
                   !.error = FALSE]

\* Mutant: updateRequired is computed after the observed generation was set
BeginReconcileReordered ==
    /\ Get
    /\ cache.exists
    /\ ~cache.deleting
    /\ cache.finalizer \/ cache = bp
    /\ bp' = IF cache.finalizer THEN bp ELSE [bp EXCEPT !.finalizer = TRUE]
    /\ cur' = [generation |-> cache.generation,
               observed |-> cache.status,
               status |-> ResetState(cache.status, cache.generation),
               updateRequired |-> FALSE,
               readyNow |-> {}]
    /\ pc' = "modules"
    /\ todo' = specs[cache.generation]
    /\ queued' = FALSE
    /\ UNCHANGED <<specs, cache, rel, health>>

\* Start of reconcile: the finalizer is added first when it is missing (a
\* conflicting update is retried on the newest object, or ends the pass, so it
\* amounts to a pass that started on the newest object)
BeginReconcile ==
    /\ Get
    /\ cache.exists
    /\ ~cache.deleting
    /\ cache.finalizer \/ cache = bp
    /\ bp' = IF cache.finalizer THEN bp ELSE [bp EXCEPT !.finalizer = TRUE]
    /\ cur' = [generation |-> cache.generation,
               observed |-> cache.status,
               status |-> ResetState(cache.status, cache.generation),
               updateRequired |-> cache.status.observedGeneration # cache.generation,
               readyNow |-> {}]
    /\ pc' = "modules"
    /\ todo' = specs[cache.generation]
    /\ queued' = FALSE
    /\ UNCHANGED <<specs, cache, rel, health>>

\* The chart is applied when the spec changed, when helm status fails or
\* finds no release, and when the last revision failed
ApplyChart(i) ==
    \/ cur.updateRequired
    \/ rel[i].state \in {"none", "failed"}
    \/ "chart" \in Faults

\* Mutant: the release is recorded with the version after the current one
HandledAhead(c, i, state) ==
    [c EXCEPT !.status.releases[i] = c.generation + 1,
              !.status.modulesState[i] = state]

\* updateModuleState and Releases[releaseName]; an error is also added to the
\* Error of the blueprint
Handled(c, i, state) ==
    [c EXCEPT !.status.releases[i] = c.generation,
              !.status.modulesState[i] = state]

\* Mutant: a module with an error is not recorded
HandledWithErrorUnrecorded(c, i) ==
    [c EXCEPT !.status.modulesState[i] = "error", !.status.error = TRUE]

HandledWithError(c, i) ==
    [Handled(c, i, "error") EXCEPT !.status.error = TRUE]

\* Install, or Upgrade when the release exists; Helm refuses to upgrade a
\* release with a pending operation
ApplyChartOK(i) ==
    /\ ApplyChart(i)
    /\ rel[i].state # "pending"
    /\ rel' = [rel EXCEPT ![i] = [state |-> "deployed", gen |-> cur.generation]]
    /\ \E h \in {"Unknown", health[i]} : health' = [health EXCEPT ![i] = h]
    /\ cur' = Handled(cur, i, "waiting")

ApplyChartFails(i) ==
    /\ ApplyChart(i)
    /\ \/ /\ "helm" \in Faults
          /\ rel[i].state # "pending"
          /\ rel' = [rel EXCEPT ![i] = [state |-> "failed", gen |-> cur.generation]]
       \/ /\ "chart" \in Faults \/ rel[i].state = "pending"
          /\ UNCHANGED rel
    /\ cur' = HandledWithError(cur, i)
    /\ UNCHANGED health

\* RegistryLogout failed: errors.WithMessage wraps the nil error of Pull, so
\* applyChartResource returns no error and has applied nothing
ApplyChartSkipped(i) ==
    /\ ApplyChart(i)
    /\ "logout" \in Faults
    /\ cur' = Handled(cur, i, "waiting")
    /\ UNCHANGED <<rel, health>>

\* checkReleaseStatus of a deployed release; an unknown condition, and a
\* pending release, leave the module's state as it was
CheckRelease(i) ==
    /\ ~cur.updateRequired
    /\ rel[i].state \in {"deployed", "pending"}
    /\ LET condition == IF rel[i].state = "pending" THEN "Unknown" ELSE health[i]
       IN  cur' = CASE condition = "False" -> HandledWithError(cur, i)
                    [] condition = "True" ->
                           [Handled(cur, i, "ready") EXCEPT !.readyNow = @ \cup {i}]
                    [] condition = "Unknown" ->
                           Handled(cur, i, cur.status.modulesState[i])
    /\ UNCHANGED <<rel, health>>

\* Mutants: the comparison of versions is off by one, and left out
StaleReleasesOffByOne(status) ==
    {j \in Instances : /\ status.releases[j] # 0
                       /\ status.releases[j] + 1 < status.observedGeneration}

StaleReleasesAll(status) ==
    {j \in Instances : status.releases[j] # 0}

\* Entries of Releases that were not set by this pass
StaleReleases(status) ==
    {j \in Instances : status.releases[j] \notin {0, status.observedGeneration}}

\* One iteration of the loop over Spec.Modules (a Go map: any order)
ReconcileModule(i) ==
    /\ pc = "modules"
    /\ i \in todo
    /\ \/ ApplyChartOK(i)
       \/ ApplyChartFails(i)
       \/ ApplyChartSkipped(i)
       \/ CheckRelease(i)
    /\ IF todo = {i}
       THEN pc' = "cleanup" /\ todo' = StaleReleases(cur'.status)
       ELSE pc' = pc /\ todo' = todo \ {i}
    /\ UNCHANGED <<specs, bp, cache, queued>>

\* Mutant: the entry is dropped even when Uninstall fails
CleanUpForgets(i) ==
    /\ pc = "cleanup"
    /\ i \in todo
    /\ Uninstalled(i) \/ UninstallFails(i)
    /\ cur' = [cur EXCEPT !.status.releases[i] = 0]
    /\ todo' = todo \ {i}
    /\ UNCHANGED <<specs, bp, cache, queued, pc>>

\* One iteration of the clean-up loop: the entry stays when Uninstall fails
CleanUp(i) ==
    /\ pc = "cleanup"
    /\ i \in todo
    /\ \/ Uninstalled(i) /\ cur' = [cur EXCEPT !.status.releases[i] = 0]
       \/ UninstallFails(i) /\ UNCHANGED cur
    /\ todo' = todo \ {i}
    /\ UNCHANGED <<specs, bp, cache, queued, pc>>

\* Mutant: a pass with an error keeps the observed generation that it read
FinishReconcileKeepsGeneration ==
    /\ pc = "cleanup"
    /\ todo = {}
    /\ LET allReady == cur.readyNow = specs[cur.generation]
           status == [cur.status EXCEPT
                         !.ready = allReady,
                         !.observedGeneration =
                             IF cur.status.error THEN cur.observed.observedGeneration ELSE @]
       IN  /\ bp' = IF bp.exists /\ status # cur.observed
                    THEN [bp EXCEPT !.status = status] ELSE bp
           /\ queued' = (queued \/ (~allReady /\ ~status.error))
    /\ pc' = "idle"
    /\ cur' = NoPass
    /\ UNCHANGED <<specs, cache, todo, rel, health>>

\* End of the pass.  UpdateStatus is called only when the status changed; on
\* a conflict it writes the computed status over whatever is stored.  The
\* key is requeued while nothing is wrong and something is not ready.
FinishReconcile ==
    /\ pc = "cleanup"
    /\ todo = {}
    /\ LET allReady == cur.readyNow = specs[cur.generation]
           status == [cur.status EXCEPT !.ready = allReady]
       IN  /\ bp' = IF bp.exists /\ status # cur.observed
                    THEN [bp EXCEPT !.status = status] ELSE bp
           /\ queued' = (queued \/ (~allReady /\ ~status.error))
    /\ pc' = "idle"
    /\ cur' = NoPass
    /\ UNCHANGED <<specs, cache, todo, rel, health>>

\* The process stops or an API call fails: the pass is lost, and the key is
\* queued again (by the error return, or by the list at restart)
Abort ==
    /\ "abort" \in Faults
    /\ pc # "idle"
    /\ pc' = "idle"
    /\ cur' = NoPass
    /\ todo' = {}
    /\ queued' = TRUE
    /\ UNCHANGED <<specs, bp, cache, rel, health>>

\* The process stops inside a Helm install or upgrade: Helm has recorded the
\* revision as pending, and nothing will complete it
AbortInHelm(i) ==
    /\ pc = "modules"
    /\ i \in todo
    /\ ApplyChart(i)
    /\ rel[i].state # "pending"
    /\ "abort" \in Faults
    /\ rel' = [rel EXCEPT ![i] = [state |-> "pending", gen |-> cur.generation]]
    /\ pc' = "idle"
    /\ cur' = NoPass
    /\ todo' = {}
    /\ queued' = TRUE
    /\ UNCHANGED <<specs, bp, cache, health>>
-----------------------------------------------------------------------------
(* The environment *)

\* The plotter controller writes a new spec
UpdateSpec ==
    /\ bp.exists
    /\ ~bp.deleting
    /\ bp.generation < MaxGeneration
    /\ bp' = [bp EXCEPT !.generation = @ + 1]
    /\ UNCHANGED <<specs, cache, queued, pc, cur, todo, rel, health>>

\* The object is deleted; it stays until its finalizer is removed
DeleteBlueprint ==
    /\ bp.exists
    /\ ~bp.deleting
    /\ bp' = [bp EXCEPT !.deleting = TRUE, !.exists = bp.finalizer]
    /\ UNCHANGED <<specs, cache, queued, pc, cur, todo, rel, health>>

\* The informer sees the newest object and its event queues the key
Watch ==
    /\ cache # bp
    /\ cache' = bp
    /\ queued' = TRUE
    /\ UNCHANGED <<specs, bp, pc, cur, todo, rel, health>>

\* The informer's periodic resync
Resync ==
    /\ ~queued
    /\ cache.exists
    /\ queued' = TRUE
    /\ UNCHANGED <<specs, bp, cache, pc, cur, todo, rel, health>>

\* The resources of a deployed release change their condition
SetHealth(i, h) ==
    /\ rel[i].state = "deployed"
    /\ health[i] # h
    /\ health' = [health EXCEPT ![i] = h]
    /\ UNCHANGED <<specs, bp, cache, queued, pc, cur, todo, rel>>
-----------------------------------------------------------------------------
Reconciler ==
    \/ ReconcileNothing
    \/ BeginDelete
    \/ \E i \in Instances : DeleteExternalResource(i)
    \/ RemoveFinalizer
    \/ BeginReconcile
    \/ \E i \in Instances : ReconcileModule(i)
    \/ \E i \in Instances : CleanUp(i)
    \/ FinishReconcile

Next ==
    \/ Reconciler
    \/ Abort
    \/ \E i \in Instances : AbortInHelm(i)
    \/ UpdateSpec
    \/ DeleteBlueprint
    \/ Watch
    \/ Resync
    \/ \E i \in Instances, h \in Conditions : SetHealth(i, h)

Spec == Init /\ [][Next]_vars

(***************************************************************************)
(* Fairness.  The work queue hands out a queued key and runs the pass, the *)
(* informer delivers events and resyncs; faults are transient, so a chart  *)
(* that is applied, and a release that is uninstalled, again and again     *)
(* eventually succeeds; and deployed resources eventually become ready.    *)
(***************************************************************************)
Fairness ==
    /\ WF_vars(Reconciler)
    /\ WF_vars(Watch)
    /\ WF_vars(Resync)
    /\ \A i \in Instances :
          /\ SF_vars(ReconcileModule(i) /\ ApplyChartOK(i))
          /\ SF_vars(CleanUp(i) /\ Uninstalled(i))
          /\ WF_vars(SetHealth(i, "True"))

LiveSpec == Spec /\ Fairness
-----------------------------------------------------------------------------
(* Properties *)

\* Releases is a complete inventory: while the object exists, every release
\* in Helm has an entry in the status that is stored, or in the one the
\* running pass is going to store.  The clean-up and the finalizer know of a
\* release only through these entries.
ReleasesTracked ==
    bp.exists =>
        \A i \in Instances : rel[i].state # "none" =>
            IF pc \in {"modules", "cleanup"}
            THEN cur.status.releases[i] # 0
            ELSE bp.status.releases[i] # 0

\* "If the object has a scheduled deletion time, delete it and its associated
\* resources": once the object is gone, no release it installed is left.
NothingLeftBehind ==
    ~bp.exists => \A i \in Instances : rel[i].state = "none"

\* "At the end of reconcile, each release should be mapped to the latest
\* blueprint version or be uninstalled": when a pass ends, every release left
\* in Helm has an entry at the generation that the pass observed.
ReleasesCurrentAtEnd ==
    [][(pc = "cleanup" /\ pc' = "idle") =>
          \A i \in Instances : rel[i].state # "none" =>
              bp'.status.releases[i] = bp'.status.observedGeneration]_vars

\* A stored Ready covers every module of the generation it was computed for,
\* each recorded as ready and with its release entry at that generation, and
\* it comes without an error.
ReadyIsComplete ==
    bp.status.ready =>
        /\ bp.status.observedGeneration # 0
        /\ ~bp.status.error
        /\ \A i \in specs[bp.status.observedGeneration] :
              /\ bp.status.modulesState[i] = "ready"
              /\ bp.status.releases[i] = bp.status.observedGeneration

\* "all modules have been orchestrated successfully - the data is ready for
\* use": when a pass stores Ready for a generation, Helm has every module of
\* that generation deployed with that generation's chart and values.
ReadyOnlyIfApplied ==
    [][(bp'.status # bp.status /\ bp'.status.ready) =>
          LET g == bp'.status.observedGeneration
          IN  \A i \in specs[g] : rel[i] = [state |-> "deployed", gen |-> g]]_vars

\* However old the object a pass read, and whatever UpdateStatus overwrites
\* on a conflict, the stored status never goes back to an earlier generation.
ObservedGenerationGrows ==
    [][bp'.status.observedGeneration >= bp.status.observedGeneration]_vars

\* The clean-up of a pass never takes down a module of the generation that
\* the pass deploys.
CleanUpSparesModules ==
    [][pc = "cleanup" =>
          \A i \in specs[cur.generation] : rel'[i] = rel[i]]_vars

\* Every module of the newest spec, and no other, is deployed from that spec,
\* and the status says so
Settled ==
    /\ bp.status.ready
    /\ bp.status.observedGeneration = bp.generation
    /\ \A i \in Instances :
          IF i \in specs[bp.generation]
          THEN rel[i] = [state |-> "deployed", gen |-> bp.generation]
          ELSE rel[i].state = "none"

\* Once resources stop deteriorating, the controller brings a blueprint that
\* is not deleted to its newest spec and keeps it there, although neither an
\* error nor a failed uninstall requeues the key.
Converges ==
    <>[][\A i \in Instances : ~SetHealth(i, "False") /\ ~SetHealth(i, "Unknown")]_vars
        => <>[](bp.deleting \/ Settled)

\* A deleted blueprint goes away: a failing uninstall cannot hold it back.
DeletionCompletes == bp.deleting ~> ~bp.exists
=============================================================================
