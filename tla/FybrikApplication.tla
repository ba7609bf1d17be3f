-------------------------- MODULE FybrikApplication --------------------------
(***************************************************************************)
(* The FybrikApplication controller (manager/controllers/app/              *)
(* fybrikapplication_controller.go): one application, the work queue and   *)
(* the informer cache that drive its reconciler, the plotter it generates  *)
(* (resource_gen.go) and the Datasets it allocates for copies              *)
(* (plotter_generator.go, pkg/storage).                                    *)
(*                                                                         *)
(* What the catalog, the policy manager and the configuration policies     *)
(* decide for an asset is a verdict that may differ from pass to pass; the *)
(* path that is selected for an allowed asset is "read" (from its source)  *)
(* or "copy" (through a bucket that is allocated for it).                  *)
(***************************************************************************)
EXTENDS Naturals

CONSTANTS
    Assets,         \* the assets an application may ask for
    Cataloged,      \* those whose copy must be registered in a catalog
    MaxGeneration,  \* bound: number of versions of the spec
    Faults          \* the faults of the environment that may occur

(***************************************************************************)
(* "abort"      the process stops, or an API call ends the pass early      *)
(* "stale"      a pass may start before the informer cache caught up       *)
(* "connector"  a connector or a configuration policy fails for an asset   *)
(* "path"       no path, or no bucket, is found for an allowed asset, or   *)
(*              its Dataset cannot be created                              *)
(* "list"       clusters, modules or storage accounts cannot be listed     *)
(* "lag"        the informer cache of plotters may be behind the plotter   *)
(* "dataset"    the replacement or deletion of a Dataset fails             *)
(* "linger"     a deleted Dataset stays until its finalizer is removed     *)
(* "provision"  a bucket cannot be provisioned for the time being          *)
(* "plotter"    the plotter cannot be written or deleted                   *)
(* "removal"    somebody else deletes the plotter                          *)
(***************************************************************************)
FaultKinds == {"abort", "stale", "lag", "connector", "path", "list", "dataset",
               "linger", "provision", "plotter", "removal"}

ASSUME GenerationAssumption == MaxGeneration \in Nat \ {0}
ASSUME FaultsAssumption == Faults \subseteq FaultKinds
ASSUME CatalogedAssumption == Cataloged \subseteq Assets

VARIABLES
    specs,     \* specs[g]: the assets in Spec.Data of generation g, its validity
    app,       \* the FybrikApplication object in the API server
    cache,     \* the informer's copy of it, which r.Get reads
    queued,    \* the key waits in the work queue
    pc,        \* the phase of the reconcile pass
    cur,       \* what the pass holds in memory
    todo,      \* the assets that the current loop has still to visit
    dataset,   \* the Dataset resource of each asset
    plotter,   \* the Plotter object in the API server
    plotterCache  \* the informer's copy of it, which this controller reads

plotters == <<plotter, plotterCache>>

vars == <<specs, app, cache, queued, pc, cur, todo, dataset, plotter, plotterCache>>
-----------------------------------------------------------------------------
Generations == 1 .. MaxGeneration

\* The conditions of an asset that are True
Conditions == SUBSET {"ready", "deny", "error"}

\* FybrikApplicationStatus: generated is Generated.AppVersion, 0 for no
\* reference, and storage the keys of ProvisionedStorage.  CatalogedAsset is
\* never set, because RegisterAsset always fails.
Status == [valid : {"", "True", "False"}, validatedGeneration : 0 .. MaxGeneration,
           observedGeneration : 0 .. MaxGeneration, generated : 0 .. MaxGeneration,
           ready : BOOLEAN, storage : SUBSET Assets, assets : [Assets -> Conditions]]

Object == [exists : BOOLEAN, deleting : BOOLEAN, finalizer : BOOLEAN,
           generation : Generations, status : Status]

\* The flows of a plotter spec
Flows == [Assets -> {"none", "read", "copy"}]

\* One pass: generation and status of the object, the flows of plotterSpec,
\* PlotterGenerator.ProvisionedStorage, and whether a deletion failed
Pass == [generation : 0 .. MaxGeneration, status : Status, flows : Flows,
         storage : SUBSET Assets, failed : BOOLEAN]

\* What a plotter's status says: not ready, ready, or not ready with an error
PlotterStates == {"waiting", "ready", "error"}

PlotterObject == [exists : BOOLEAN, deleting : BOOLEAN, flows : Flows,
                  state : PlotterStates]

\* deleting: the Dataset waits for its finalizer to be removed
Datasets == [state : {"none", "pending", "ok", "failed"}, deleting : BOOLEAN]

TypeOK ==
    /\ specs \in [Generations -> [data : SUBSET Assets, valid : BOOLEAN]]
    /\ app \in Object
    /\ cache \in Object
    /\ queued \in BOOLEAN
    /\ pc \in {"idle", "delete", "finalize", "policies", "flows", "storage",
               "generate", "readiness", "save"}
    /\ cur \in Pass
    /\ todo \in SUBSET Assets
    /\ dataset \in [Assets -> Datasets]
    /\ plotter \in PlotterObject
    /\ plotterCache \in PlotterObject
-----------------------------------------------------------------------------
NoFlows == [a \in Assets |-> "none"]

EmptyStatus == [valid |-> "", validatedGeneration |-> 0, observedGeneration |-> 0,
                generated |-> 0, ready |-> FALSE, storage |-> {},
                assets |-> [a \in Assets |-> {}]]

NewObject == [exists |-> TRUE, deleting |-> FALSE, finalizer |-> FALSE,
              generation |-> 1, status |-> EmptyStatus]

PassOn(generation, status) ==
    [generation |-> generation, status |-> status, flows |-> NoFlows,
     storage |-> {}, failed |-> FALSE]

NoPass == PassOn(0, EmptyStatus)

NoDataset == [state |-> "none", deleting |-> FALSE]

NewDataset == [state |-> "pending", deleting |-> FALSE]

NewPlotter(flows) == [exists |-> TRUE, deleting |-> FALSE, flows |-> flows,
                      state |-> "waiting"]

NoPlotter == [NewPlotter(NoFlows) EXCEPT !.exists = FALSE]

Init ==
    /\ specs \in [Generations -> [data : SUBSET Assets, valid : BOOLEAN]]
    /\ app = NewObject
    /\ cache = NewObject
    /\ queued = TRUE
    /\ pc = "idle"
    /\ cur = NoPass
    /\ todo = {}
    /\ dataset = [a \in Assets |-> NoDataset]
    /\ plotter = NoPlotter
    /\ plotterCache = NoPlotter
-----------------------------------------------------------------------------
(* How a pass begins and ends *)

\* The worker takes the key and r.Get reads the cache
Get ==
    /\ pc = "idle"
    /\ queued
    /\ "stale" \in Faults \/ cache = app

\* The plotter is stored; the informer sees it at once, unless it lags behind
Stored(object) ==
    /\ plotter' = object
    /\ plotterCache' = IF "lag" \in Faults THEN plotterCache ELSE object

\* UpdateStatus overwrites what is stored, also on a conflict
Save(status) ==
    app' = IF app.exists THEN [app EXCEPT !.status = status] ELSE app

EndPass ==
    /\ pc' = "idle"
    /\ cur' = NoPass
    /\ todo' = {}

\* reconcile returned an error: what the pass has found is saved, without the
\* generation and with the readiness that initStatus left, and the key is retried
SaveAndRetry(status) ==
    /\ Save(status)
    /\ EndPass
    /\ queued' = TRUE
    /\ UNCHANGED <<specs, cache>>

\* initStatus of an application with these assets
InitStatus(status, data) ==
    [status EXCEPT !.ready = (data = {}), !.assets = [a \in Assets |-> {}]]

\* The spec is validated, unless this generation has been
Validated(status, generation) ==
    IF status.valid = "" \/ status.validatedGeneration # generation
    THEN [status EXCEPT !.validatedGeneration = generation,
                        !.valid = IF specs[generation].valid THEN "True" ELSE "False"]
    ELSE status

\* ResourceExists reads the informer's copy
ResourceExists(generated) == generated # 0 /\ plotterCache.exists

\* Mutants: a plotter of any version counts; only ObservedGeneration counts
GenerationCompleteAnyVersion(status, generation) == ResourceExists(status.generated)

GenerationCompleteIgnored(status, generation) == TRUE

\* The plotter is there, and it was generated for this version
GenerationComplete(status, generation) ==
    ResourceExists(status.generated) /\ status.generated = generation

\* Reconcile after the finalizers, on object o, with stored as the object in
\* the API server: an invalid spec ends the pass; otherwise a plotter is
\* generated, unless it has been for this generation
Proceed(o, stored) ==
    LET status == Validated(o.status, o.generation)
        data == specs[o.generation].data
        complete == /\ GenerationComplete(status, o.generation)
                    /\ status.observedGeneration = o.generation
    IN  IF status.valid = "False"
        THEN /\ app' = IF status # o.status /\ stored.exists
                       THEN [stored EXCEPT !.status = status] ELSE stored
             /\ EndPass
        ELSE /\ app' = stored
             /\ cur' = PassOn(o.generation, IF complete THEN status ELSE InitStatus(status, data))
             /\ pc' = CASE complete -> "readiness"
                        [] ~complete /\ data # {} -> "policies"
                        [] ~complete /\ data = {} -> "save"
             /\ todo' = {}
-----------------------------------------------------------------------------
(* Finalizers *)

\* NotFound, or being deleted without our finalizer: nothing to do
ReconcileNothing ==
    /\ Get
    /\ ~cache.exists \/ (cache.deleting /\ ~cache.finalizer)
    /\ queued' = FALSE
    /\ UNCHANGED <<specs, app, cache, pc, cur, todo, dataset, plotters>>

\* Mutant: the Datasets of the assets that the spec names are removed
BeginDeleteBySpec ==
    /\ Get
    /\ cache.exists
    /\ cache.finalizer
    /\ cache.deleting \/ specs[cache.generation].data = {}
    /\ cur' = PassOn(cache.generation, cache.status)
    /\ pc' = "delete"
    /\ todo' = cache.status.storage \cap specs[cache.generation].data
    /\ queued' = FALSE
    /\ UNCHANGED <<specs, app, cache, dataset, plotters>>

\* The application is being deleted, or asks for nothing any more: the
\* allocated resources are removed
BeginDelete ==
    /\ Get
    /\ cache.exists
    /\ cache.finalizer
    /\ cache.deleting \/ specs[cache.generation].data = {}
    /\ cur' = PassOn(cache.generation, cache.status)
    /\ pc' = "delete"
    /\ todo' = cache.status.storage
    /\ queued' = FALSE
    /\ UNCHANGED <<specs, app, cache, dataset, plotters>>

\* DeleteDataset requests the deletion; it fails for a Dataset that does not
\* exist, but not for one that is being deleted
DatasetDeleted(a) ==
    /\ dataset[a].state # "none"
    /\ \/ dataset' = [dataset EXCEPT ![a] = NoDataset]
       \/ "linger" \in Faults /\ dataset' = [dataset EXCEPT ![a].deleting = TRUE]

DeleteDatasetFails(a) ==
    /\ dataset[a].state = "none" \/ "dataset" \in Faults
    /\ UNCHANGED dataset

\* deleteExternalResources, one Dataset: errors are collected
DeleteDataset(a) ==
    /\ pc = "delete"
    /\ a \in todo
    /\ \/ DatasetDeleted(a) /\ UNCHANGED cur
       \/ DeleteDatasetFails(a) /\ cur' = [cur EXCEPT !.failed = TRUE]
    /\ todo' = todo \ {a}
    /\ UNCHANGED <<specs, app, cache, queued, pc, plotters>>

\* An error ends the pass; what was deleted is not recorded
DeleteFails ==
    /\ pc = "delete"
    /\ todo = {}
    /\ \/ cur.failed
       \/ cur.status.generated # 0 /\ (~plotter.exists \/ "plotter" \in Faults)
    /\ EndPass
    /\ queued' = TRUE
    /\ UNCHANGED <<specs, app, cache, dataset, plotters>>

\* DeleteResource; the plotter is there until VanishPlotter
DeletePlotter ==
    /\ pc = "delete"
    /\ todo = {}
    /\ ~cur.failed
    /\ IF cur.status.generated = 0 THEN UNCHANGED plotters
       ELSE plotter.exists /\ Stored([plotter EXCEPT !.deleting = TRUE])
    /\ pc' = "finalize"
    /\ UNCHANGED <<specs, app, cache, queued, cur, todo, dataset>>

\* UpdateFinalizers leaves the newest object in memory, its stored status
\* included.  A deleted application is gone; one without data goes on.  The
\* update of one that is gone already fails.
RemoveFinalizer ==
    /\ pc = "finalize"
    /\ IF app.deleting \/ ~app.exists
       THEN /\ app' = [app EXCEPT !.finalizer = FALSE, !.exists = FALSE]
            /\ EndPass
       ELSE Proceed([app EXCEPT !.finalizer = FALSE], [app EXCEPT !.finalizer = FALSE])
    /\ queued' = (queued \/ ~app.exists)
    /\ UNCHANGED <<specs, cache, dataset, plotters>>

\* The finalizer is added first when it is missing and there is data (a
\* conflicting update goes on with the newest object)
BeginReconcile ==
    /\ Get
    /\ cache.exists
    /\ ~cache.deleting
    /\ \/ /\ specs[cache.generation].data # {}
          /\ cache.finalizer \/ cache = app
          /\ Proceed(cache, IF cache.finalizer THEN app ELSE [app EXCEPT !.finalizer = TRUE])
       \/ /\ specs[cache.generation].data = {}
          /\ ~cache.finalizer
          /\ Proceed(cache, app)
    /\ queued' = FALSE
    /\ UNCHANGED <<specs, cache, dataset, plotters>>
-----------------------------------------------------------------------------
(* reconcile: the generation of a plotter *)

\* setDenyCondition, setErrorCondition
WithCondition(status, assets, condition) ==
    [status EXCEPT !.assets = [a \in Assets |-> IF a \in assets THEN @[a] \cup {condition}
                                                ELSE @[a]]]

Errors(status) == {a \in Assets : "error" \in status.assets[a]}

\* GetWorkloadCluster, or one of the lists of buildSolution, fails
ListFails ==
    /\ pc = "policies"
    /\ "list" \in Faults
    /\ SaveAndRetry(cur.status)
    /\ UNCHANGED <<dataset, plotters>>

\* constructDataInfo of every asset, with AnalyzeError: the assets that are
\* denied, those that a connector fails for, and the rest
ConstructDataInfo(denied, failing) ==
    LET data == specs[cur.generation].data
        status == WithCondition(WithCondition(cur.status, denied, "deny"), failing, "error")
        requirements == data \ (denied \cup failing)
    IN  /\ pc = "policies"
        /\ denied \cup failing \subseteq data
        /\ denied \cap failing = {}
        /\ failing = {} \/ "connector" \in Faults
        /\ \/ /\ cur' = [cur EXCEPT !.status = status]
              /\ pc' = IF requirements = {} THEN "save" ELSE "flows"
              /\ todo' = requirements
              /\ UNCHANGED <<specs, app, cache, queued, dataset, plotters>>
           \/ /\ requirements # {}
              /\ "list" \in Faults
              /\ SaveAndRetry(status)
              /\ UNCHANGED <<dataset, plotters>>

\* After the last flow: an error of any asset ends reconcile, before the
\* storage is recorded
AfterFlow(a) ==
    IF todo # {a} THEN pc' = pc /\ todo' = todo \ {a}
    ELSE IF Errors(cur'.status) # {} THEN pc' = "save" /\ todo' = {}
    ELSE pc' = "storage" /\ todo' = cur'.status.storage \ cur'.storage

\* CreateDataset: a Dataset of the same bucket is kept, another one re-created
CreateDataset(a) ==
    \/ dataset[a].state # "none" /\ UNCHANGED dataset
    \/ dataset' = [dataset EXCEPT ![a] = NewDataset]

\* No path or no Dataset for an asset, or a failure after its Dataset was
\* created, or after the Dataset of another bucket was deleted: the new one
\* cannot be created, or not while the old one is there
CreateDatasetFails(a) ==
    \/ "path" \in Faults /\ (UNCHANGED dataset \/ CreateDataset(a))
    \/ "dataset" \in Faults /\ dataset' = [dataset EXCEPT ![a] = NoDataset]
    \/ /\ "linger" \in Faults
       /\ dataset[a].state # "none"
       /\ dataset' = [dataset EXCEPT ![a].deleting = TRUE]

\* AddFlowInfoForAsset of one asset, with AnalyzeError
AddFlow(a) ==
    /\ pc = "flows"
    /\ a \in todo
    /\ \/ /\ cur' = [cur EXCEPT !.flows[a] = "read"]
          /\ UNCHANGED dataset
       \/ /\ cur' = [cur EXCEPT !.flows[a] = "copy", !.storage = @ \cup {a}]
          /\ CreateDataset(a)
       \/ /\ cur' = [cur EXCEPT !.status = WithCondition(@, {a}, "error")]
          /\ CreateDatasetFails(a)
    /\ AfterFlow(a)
    /\ UNCHANGED <<specs, app, cache, queued, plotters>>

\* Mutant: the entry of a bucket that was removed is kept
CleanStorageKeepsEntry(a) ==
    /\ pc = "storage"
    /\ a \in todo
    /\ DatasetDeleted(a) \/ DeleteDatasetFails(a)
    /\ todo' = todo \ {a}
    /\ UNCHANGED <<specs, app, cache, queued, pc, cur, plotters>>

\* updateProvisionedStorageStatus: a bucket that is not needed any more is
\* forgotten, whether or not its Dataset could be deleted
CleanStorage(a) ==
    /\ pc = "storage"
    /\ a \in todo
    /\ DatasetDeleted(a) \/ DeleteDatasetFails(a)
    /\ cur' = [cur EXCEPT !.status.storage = @ \ {a}]
    /\ todo' = todo \ {a}
    /\ UNCHANGED <<specs, app, cache, queued, pc, plotters>>

\* Mutant: the new buckets are recorded only once they are all provisioned
CheckStorageUnrecorded ==
    /\ pc = "storage"
    /\ todo = {}
    /\ LET status == [cur.status EXCEPT !.storage = @ \cup cur.storage]
       IN  IF \A a \in status.storage : dataset[a].state = "ok"
           THEN pc' = "generate" /\ cur' = [cur EXCEPT !.status = status]
           ELSE pc' = "save" /\ cur' = [cur EXCEPT !.storage = {}]
    /\ UNCHANGED <<specs, app, cache, queued, todo, dataset, plotters>>

\* Mutant: the plotter is generated without waiting for the buckets
CheckStorageWithoutWaiting ==
    /\ pc = "storage"
    /\ todo = {}
    /\ pc' = "generate"
    /\ cur' = [cur EXCEPT !.status.storage = @ \cup cur.storage]
    /\ UNCHANGED <<specs, app, cache, queued, todo, dataset, plotters>>

\* The new buckets are recorded.  A bucket that is not there yet ends reconcile
\* without an error, one that could not be provisioned ends it with one.
CheckStorage ==
    /\ pc = "storage"
    /\ todo = {}
    /\ LET status == [cur.status EXCEPT !.storage = @ \cup cur.storage]
       IN  \/ /\ \A a \in status.storage : dataset[a].state = "ok"
              /\ pc' = "generate"
              /\ cur' = [cur EXCEPT !.status = status]
              /\ UNCHANGED <<specs, app, cache, queued, todo>>
           \/ /\ \E a \in status.storage : dataset[a].state \in {"none", "pending"}
              /\ pc' = "save"
              /\ cur' = [cur EXCEPT !.status = status]
              /\ UNCHANGED <<specs, app, cache, queued, todo>>
           \/ /\ \E a \in status.storage : dataset[a].state = "failed"
              /\ SaveAndRetry(status)
    /\ UNCHANGED <<dataset, plotters>>

\* Mutant: a plotter that is there is not updated
CreatePlotterOnly ==
    /\ pc = "generate"
    /\ IF plotter.exists THEN UNCHANGED plotters ELSE Stored(NewPlotter(cur.flows))
    /\ cur' = [cur EXCEPT !.status.generated = cur.generation]
    /\ queued' = (queued \/ plotterCache' # plotterCache)
    /\ pc' = "save"
    /\ UNCHANGED <<specs, app, cache, todo, dataset>>

\* CreateOrUpdateResource compares with the informer's copy
SpecsEqual == plotterCache.exists /\ plotterCache.flows = cur.flows

\* An equal spec is left alone, whatever is stored; otherwise the plotter is
\* created or updated, which needs an up-to-date copy
WritePlotter ==
    IF SpecsEqual THEN UNCHANGED plotters
    ELSE /\ plotterCache = plotter
         /\ Stored(IF plotter.exists THEN [plotter EXCEPT !.flows = cur.flows]
                   ELSE NewPlotter(cur.flows))

\* A change is an event that queues the application, unless the plotter is
\* being deleted
CreateOrUpdatePlotter ==
    /\ pc = "generate"
    /\ WritePlotter
    /\ cur' = [cur EXCEPT !.status.generated = cur.generation]
    /\ queued' = (queued \/ (plotterCache' # plotterCache /\ ~plotter'.deleting))
    /\ pc' = "save"
    /\ UNCHANGED <<specs, app, cache, todo, dataset>>

\* The write fails, or conflicts with what the informer has not seen
PlotterFails ==
    /\ pc = "generate"
    /\ "plotter" \in Faults \/ (~SpecsEqual /\ plotterCache # plotter)
    /\ SaveAndRetry(cur.status)
    /\ UNCHANGED <<dataset, plotters>>
-----------------------------------------------------------------------------
(* checkReadiness *)

\* A plotter that is gone, as far as the informer knows, ends the pass
GetResourceStatusFails ==
    /\ pc = "readiness"
    /\ ~plotterCache.exists
    /\ EndPass
    /\ queued' = TRUE
    /\ UNCHANGED <<specs, app, cache, dataset, plotters>>

\* Every asset that is not denied takes over the state of the plotter.  An
\* asset to be registered gets an error: there is no bucket, it cannot be
\* marked as persistent, or the registration fails, as it always does.
CheckReadiness ==
    /\ pc = "readiness"
    /\ plotterCache.exists
    /\ LET assets == {a \in specs[cur.generation].data : "deny" \notin cur.status.assets[a]}
       IN  \/ /\ plotterCache.state = "error"
              /\ cur' = [cur EXCEPT !.status = WithCondition(@, assets, "error")]
           \/ plotterCache.state = "waiting" /\ UNCHANGED cur
           \/ /\ plotterCache.state = "ready"
              /\ cur' = [cur EXCEPT !.status =
                            WithCondition(WithCondition(@, assets \cap Cataloged, "error"),
                                          assets \ Cataloged, "ready")]
    /\ pc' = "save"
    /\ UNCHANGED <<specs, app, cache, queued, todo, dataset, plotters>>

IsReady(status, data) ==
    \A a \in data : status.assets[a] \cap {"deny", "ready"} # {}

\* Mutant: the next generation counts as observed
SaveStatusAhead ==
    /\ pc = "save"
    /\ LET ready == IsReady(cur.status, specs[cur.generation].data)
       IN  /\ Save([cur.status EXCEPT !.observedGeneration = cur.generation + 1,
                                      !.ready = ready])
           /\ queued' = (queued \/ ~ready)
    /\ EndPass
    /\ UNCHANGED <<specs, cache, dataset, plotters>>

\* End of Reconcile.  The key is requeued while the application is not ready.
SaveStatus ==
    /\ pc = "save"
    /\ LET ready == IsReady(cur.status, specs[cur.generation].data)
       IN  /\ Save([cur.status EXCEPT !.observedGeneration = cur.generation,
                                      !.ready = ready])
           /\ queued' = (queued \/ ~ready)
    /\ EndPass
    /\ UNCHANGED <<specs, cache, dataset, plotters>>

\* The process stops or an API call fails: the pass is lost, and the key is
\* queued again (by the error return, or by the list at restart)
Abort ==
    /\ "abort" \in Faults
    /\ pc # "idle"
    /\ EndPass
    /\ queued' = TRUE
    /\ UNCHANGED <<specs, app, cache, dataset, plotters>>
-----------------------------------------------------------------------------
(* The environment *)

\* The user changes the spec
UpdateSpec ==
    /\ app.exists
    /\ ~app.deleting
    /\ app.generation < MaxGeneration
    /\ app' = [app EXCEPT !.generation = @ + 1]
    /\ UNCHANGED <<specs, cache, queued, pc, cur, todo, dataset, plotters>>

\* The object is deleted; it stays until its finalizer is removed
DeleteApplication ==
    /\ app.exists
    /\ ~app.deleting
    /\ app' = [app EXCEPT !.deleting = TRUE, !.exists = app.finalizer]
    /\ UNCHANGED <<specs, cache, queued, pc, cur, todo, dataset, plotters>>

\* The informer sees the newest object and its event queues the key
Watch ==
    /\ cache # app
    /\ cache' = app
    /\ queued' = TRUE
    /\ UNCHANGED <<specs, app, pc, cur, todo, dataset, plotters>>

\* The informer's periodic resync
Resync ==
    /\ ~queued
    /\ cache.exists
    /\ queued' = TRUE
    /\ UNCHANGED <<specs, app, cache, pc, cur, todo, dataset, plotters>>

\* The informer sees the newest plotter.  Its event queues the application,
\* unless the plotter is being deleted.
WatchPlotter ==
    /\ plotterCache # plotter
    /\ plotterCache' = plotter
    /\ queued' = (queued \/ (plotter.exists /\ ~plotter.deleting))
    /\ UNCHANGED <<specs, app, cache, pc, cur, todo, dataset, plotter>>

\* The plotter's controller saves its status, which may still be about flows
\* that the plotter had before
ReportStatus(state) ==
    /\ plotter.exists
    /\ ~plotter.deleting
    /\ Stored([plotter EXCEPT !.state = state])
    /\ queued' = (queued \/ "lag" \notin Faults)
    /\ UNCHANGED <<specs, app, cache, pc, cur, todo, dataset>>

\* Somebody else deletes the plotter
RemovePlotter ==
    /\ "removal" \in Faults
    /\ plotter.exists
    /\ ~plotter.deleting
    /\ Stored([plotter EXCEPT !.deleting = TRUE])
    /\ UNCHANGED <<specs, app, cache, queued, pc, cur, todo, dataset>>

\* A deleted plotter goes, once it has no finalizer, which does not queue the
\* key
VanishPlotter ==
    /\ plotter.deleting
    /\ Stored(NoPlotter)
    /\ UNCHANGED <<specs, app, cache, queued, pc, cur, todo, dataset>>

\* The finalizer of a deleted Dataset is removed
VanishDataset(a) ==
    /\ dataset[a].deleting
    /\ dataset' = [dataset EXCEPT ![a] = NoDataset]
    /\ UNCHANGED <<specs, app, cache, queued, pc, cur, todo, plotters>>

\* The bucket of a Dataset is provisioned, or the attempt fails for now;
\* Datasets are not watched
Provision(a, state) ==
    /\ dataset[a].state \in {"pending", "failed"} \ {state}
    /\ ~dataset[a].deleting
    /\ state = "ok" \/ (state = "failed" /\ "provision" \in Faults)
    /\ dataset' = [dataset EXCEPT ![a].state = state]
    /\ UNCHANGED <<specs, app, cache, queued, pc, cur, todo, plotters>>
-----------------------------------------------------------------------------
Reconciler ==
    \/ ReconcileNothing
    \/ BeginDelete
    \/ \E a \in Assets : DeleteDataset(a)
    \/ DeleteFails
    \/ DeletePlotter
    \/ RemoveFinalizer
    \/ BeginReconcile
    \/ ListFails
    \/ \E denied, failing \in SUBSET Assets : ConstructDataInfo(denied, failing)
    \/ \E a \in Assets : AddFlow(a)
    \/ \E a \in Assets : CleanStorage(a)
    \/ CheckStorage
    \/ CreateOrUpdatePlotter
    \/ PlotterFails
    \/ GetResourceStatusFails
    \/ CheckReadiness
    \/ SaveStatus

PlotterController ==
    \/ \E state \in PlotterStates : ReportStatus(state)
    \/ VanishPlotter

Next ==
    \/ Reconciler
    \/ Abort
    \/ UpdateSpec
    \/ DeleteApplication
    \/ Watch
    \/ WatchPlotter
    \/ Resync
    \/ PlotterController
    \/ RemovePlotter
    \/ \E a \in Assets, state \in {"ok", "failed"} : Provision(a, state)
    \/ \E a \in Assets : VanishDataset(a)

Spec == Init /\ [][Next]_vars

(***************************************************************************)
(* Fairness.  The work queue hands out a queued key and runs the pass, the *)
(* informers deliver and resync; buckets get provisioned in the end, and   *)
(* the plotter becomes ready or, once deleted, goes away.                  *)
(***************************************************************************)
Fairness ==
    /\ WF_vars(Reconciler)
    /\ WF_vars(Watch)
    /\ WF_vars(WatchPlotter)
    /\ WF_vars(Resync)
    /\ WF_vars(ReportStatus("ready"))
    /\ WF_vars(VanishPlotter)
    /\ \A a \in Assets : WF_vars(Provision(a, "ok")) /\ WF_vars(VanishDataset(a))

LiveSpec == Spec /\ Fairness
-----------------------------------------------------------------------------
(* Properties *)

InPass == pc \notin {"idle", "delete", "finalize"}

\* ProvisionedStorage "allows FybrikApplication controller to manage buckets":
\* while the application exists, every Dataset that is not being deleted is
\* named by the status that is stored, or by what the running pass is going to
\* store.
StorageTracked ==
    app.exists =>
        \A a \in Assets : (dataset[a].state # "none" /\ ~dataset[a].deleting) =>
            a \in IF InPass THEN cur.status.storage \cup cur.storage ELSE app.status.storage

\* "delete it and all resources it has created": once the application is gone,
\* every Dataset and the plotter are gone or being deleted.
NothingLeftBehind ==
    ~app.exists =>
        /\ \A a \in Assets : dataset[a].state # "none" => dataset[a].deleting
        /\ plotter.exists => plotter.deleting

\* A pass makes the application Ready, or observes a generation as Ready
BecomesReadyFor(a) ==
    /\ app'.status.ready
    /\ \/ ~app.status.ready
       \/ app'.status.observedGeneration # app.status.observedGeneration
    /\ a \in specs[app'.status.observedGeneration].data

\* "Ready is true if all specified assets are either ready to be used or are
\* denied access": when the application becomes Ready, every asset of the
\* generation that is not denied has a flow in the plotter.
ReadyOnlyIfServed ==
    [][\A a \in Assets : BecomesReadyFor(a) =>
          \/ "deny" \in app'.status.assets[a]
          \/ plotter.exists /\ plotter.flows[a] # "none"]_vars

\* When the application becomes Ready, every asset that the plotter serves
\* through a copy has its bucket: no pass that removes or replaces Datasets
\* leaves the flow of an earlier pass without one.
ReadyOnlyIfProvisioned ==
    [][\A a \in Assets : BecomesReadyFor(a) =>
          \/ "deny" \in app'.status.assets[a]
          \/ plotter.flows[a] = "copy" => dataset[a].state = "ok"]_vars

\* Between passes, the plotter that was generated for the current generation
\* has a flow for the assets that the status does not deny, and for no other.
ServesAllowed ==
    (/\ pc = "idle"
     /\ app.exists
     /\ ~app.deleting
     /\ app.status.generated = app.generation
     /\ app.status.observedGeneration = app.generation
     /\ plotter.exists) =>
        \A a \in Assets :
            plotter.flows[a] # "none" <=>
                /\ a \in specs[app.generation].data
                /\ "deny" \notin app.status.assets[a]

\* "DenyCondition means that access to a dataset is denied": an asset that is
\* denied in the status that a pass stores for the newest generation has no
\* flow in the plotter.
DeniedNotServed ==
    [][(/\ pc = "save" /\ pc' = "idle"
        /\ app'.status.observedGeneration = app.generation) =>
          \A a \in Assets :
              "deny" \in app'.status.assets[a] =>
                  ~plotter.exists \/ plotter.deleting \/ plotter.flows[a] = "none"]_vars

\* The newest generation is served, as far as it is allowed, and Ready
Settled ==
    /\ app.status.ready
    /\ app.status.observedGeneration = app.generation
    /\ \A a \in specs[app.generation].data :
          "deny" \in app.status.assets[a] \/ plotter.flows[a] # "none"

\* The plotter's status says anything but Ready
Deteriorates == \E state \in PlotterStates \ {"ready"} : ReportStatus(state)

\* No bucket is removed or replaced
StorageStable ==
    \A a \in Assets : dataset[a].state # "none" =>
        /\ dataset'[a].state # "none"
        /\ dataset'[a].state = "pending" => dataset[a].state = "pending"

\* Connectors, lists and the plotter's writes work, and paths are found
NoErrors ==
    pc \in {"policies", "flows", "generate"} => pc' # "idle" /\ Errors(cur'.status) = {}

\* Once the errors of assets and lists are over, the plotter stops deteriorating and the
\* decisions on buckets are stable, a valid application that is not deleted
\* becomes Ready, and stays so, although Datasets are not watched and a pass
\* that finds a bucket missing has already observed the generation.
Converges ==
    <>[][~Deteriorates /\ StorageStable /\ NoErrors]_vars
        => <>[](app.deleting \/ ~specs[app.generation].valid \/ Settled)

\* A deleted application goes away.
DeletionCompletes == app.deleting ~> ~app.exists
=============================================================================
