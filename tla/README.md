# Verification of the Fybrik control plane

This directory holds TLA+ models of the controllers of the Fybrik manager, the
TLC configurations that check them on small instances, and TLAPS proofs of the
safety properties of one of them for every instance. Paths below are relative
to the repository; `app/` stands for `manager/controllers/app/`.

## 1. The system

A user creates a *FybrikApplication*: a list of data assets and what the
workload needs of them. Three controllers, all in the manager process, turn it
into running modules:

| Controller | reads | writes | through |
| --- | --- | --- | --- |
| FybrikApplication (`app/fybrikapplication_controller.go`) | catalog, policy manager, configuration policies | one *Plotter*; one *Dataset* per copied asset | API server, `pkg/storage` |
| Plotter (`app/plotter_controller.go`) | a Plotter | one *Blueprint* per cluster | a cluster manager (`pkg/multicluster`, local or Razee) |
| Blueprint (`app/blueprint_controller.go`) | a Blueprint | one Helm release per module instance | `pkg/helm` |

Statuses flow back: the Blueprint controller polls Helm and saves a status, the
Plotter controller polls blueprints, and the FybrikApplication controller copies
the state of the plotter to its assets.

All three work in the same way. An informer keeps a cached copy of each object
and puts its key in a work queue; a worker takes the key and runs one
*reconcile pass*; no two workers hold the same key. A pass reads the object from
the cache, makes a number of calls that may fail or may be cut short by a crash,
and saves a status (`utils.UpdateStatus`, which overwrites what is stored even on
a conflict). A finalizer makes deletion a pass of its own. What a controller knows
about the resources it has created is only what its status says; that is why most of the
properties relate a status to the outside world.

### Inventory

| Part | Source | Module | Status |
| --- | --- | --- | --- |
| Blueprint controller | `app/blueprint_controller.go` | `Blueprint` | modelled, proved |
| Helm client | `pkg/helm/helm.go` | `Blueprint` | as the controller sees it |
| Plotter controller | `app/plotter_controller.go` | `Plotter` | modelled |
| Blueprint generation | `app/blueprint_mgr.go` | `Plotter` | a choice of contents |
| Cluster managers | `pkg/multicluster/local`, `pkg/multicluster/razee` | `Plotter` | operations succeed or fail as a whole |
| FybrikApplication controller | `app/fybrikapplication_controller.go`, `app/fybrikapplication_conditions.go`, `app/resource_gen.go` | `FybrikApplication` | modelled |
| Plotter generation, storage | `app/plotter_generator.go`, `app/storage.go`, `pkg/storage/storage_provisioning.go` | `FybrikApplication` | Datasets and flows, not the contents of steps |
| Policy and catalog interfaces | `app/policy_compiler_interface.go`, `app/data_catalog_interface.go` | `FybrikApplication` | a verdict per asset |
| Status and finalizer updates | `manager/controllers/utils/utils.go` | all three | `UpdateStatus`, `UpdateFinalizers` |
| Module and path selection | `app/select_modules.go` | - | planned |
| Configuration policies | `pkg/adminconfig`, `pkg/model/adminrules` | - | planned |
| FybrikModule controller | `app/fybrikmodule_controller.go` | - | one validation, one write |
| Connectors | `connectors/`, `pkg/connectors` | - | stateless translation |
| Taxonomy tools | `pkg/taxonomy`, `cmd` | - | an offline compiler |
| Vault client | `pkg/vault` | - | thin calls of a service |
| Manager process | `manager/main.go` | - | wiring |
| Test doubles | `manager/controllers/mockup`, `pkg/multicluster/dummy` | - | tests only |

## 2. The modules

The three controller modules have the same skeleton:

* `specs` is the history of the spec, one entry per generation; it is chosen in `Init`
  and `UpdateSpec` moves the object to the next entry. `MaxGeneration` bounds it.
* The object (`bp`, `plotter`, `app`) is what the API server stores; `cache` is the
  informer's copy; `queued` says that the key is in the work queue.
* `pc`, `cur` and `todo` are the running pass: its phase, what it holds in memory,
  and what its current loop has still to visit. Go iterates maps in any
  order, so `todo` is a set and the loops take any element.
* `Get` is the guard of a new pass. Each call that changes something
  outside the process, or reads something that others change, is a step of its own;
  purely local code is merged with the step before or after it.
* `Faults` is the set of faults that the environment may show. Every fault is a branch
  that the code handles (or does not); a run, or a theorem, names the faults it allows.
* `Abort` drops the pass at any point and queues the key: a crash and restart, or an API
  error that ends the pass.
* `Watch` delivers the newest object, `Resync` is the informer's periodic resync.

### Blueprint.tla

State besides the skeleton: `rel`, the last revision of each Helm release and the generation
of its values, and `health`, the condition that its resources show.

| Action | Code |
| --- | --- |
| `ReconcileNothing` | `Reconcile`: not found, or deleted without finalizer |
| `BeginDelete`, `DeleteExternalResource(i)`, `RemoveFinalizer` | `reconcileFinalizers`, `deleteExternalResources`: errors of single uninstalls are collected and logged, then the finalizer goes |
| `BeginReconcile` | finalizer, `updateRequired`, reset of the state, `ObservedGeneration` |
| `ReconcileModule(i)` | one iteration of the module loop: `ApplyChartOK`, `ApplyChartFails`, `ApplyChartSkipped` (a failed logout makes `applyChartResource` return nil), or `CheckRelease` |
| `CleanUp(i)` | uninstall of a release that the spec does not list any more |
| `FinishReconcile` | readiness, status update, requeue |
| `AbortInHelm(i)` | a crash inside Helm: the release stays pending |
| `SetHealth(i, h)` | the resources of a release change |

### Plotter.tla

`store` is the blueprint that the cluster manager holds for each cluster and `view` the one it
reports (they differ only with fault `lag`: the local manager reads a cache, Razee a resource
list). A blueprint has a content, and a status that may still be about a content it had before.
`Manager` selects how the two cluster managers differ: the local one knows one cluster, refuses a write
when the copy it read is not the newest, and keeps a deleted blueprint until its finalizer is removed;
Razee refuses an update when there is no channel, and removes a blueprint at once.

| Action | Code |
| --- | --- |
| `BeginDelete`, `DeleteExternalResource(c)`, `RemoveFinalizer` | `reconcileFinalizers`: the loop stops at the first error |
| `BeginReconcile` | finalizer, `getBlueprintsMap` (a failing `GetClusters` is ignored) |
| `ReconcileCluster(c)` | one iteration of the loop over blueprints: `RemoteMissing`, `UpdateBlueprint`, `DoNotUpdate` with `CollectStatus`, or `CreateBlueprint` |
| `GetBlueprintFails(c)` | the early return of that loop |
| `TidyUp(c)` | a blueprint that is not needed any more |
| `FinishReconcile` | observed generation, readiness, status update, requeue |
| `ReportStatus`, `Vanish`, `CatchUp` | the Blueprint controller and the cluster manager |

### FybrikApplication.tla

`dataset` is the Dataset of each asset, `plotter` the generated Plotter: its flows
(`read` from the source, or through a `copy`) and the state that its status reports.
`plotterCache` is the informer's copy of the plotter, which `ResourceExists`, `CreateOrUpdateResource` and
`GetResourceStatus` read; it differs from `plotter` only with fault `lag`. Datasets are unstructured objects, which
the manager's client reads from the API server. With fault `linger` a deleted Dataset stays until its finalizer is removed. What
connectors and policies decide is a choice per pass: allowed, denied or failed.

| Action | Code |
| --- | --- |
| `BeginDelete`, `DeleteDataset(a)`, `DeleteFails`, `DeletePlotter`, `RemoveFinalizer` | `reconcileFinalizers`, `deleteExternalResources`; also taken when the spec asks for no data |
| `BeginReconcile` | finalizer, validation, `generationComplete` (operator `Proceed`) |
| `ListFails`, `ConstructDataInfo` | the loop over assets in `reconcile`, with `AnalyzeError` |
| `AddFlow(a)` | `AddFlowInfoForAsset` with `GetCopyDestination` and `CreateDataset` |
| `CleanStorage(a)`, `CheckStorage` | `updateProvisionedStorageStatus` |
| `CreateOrUpdatePlotter`, `PlotterFails` | the end of `reconcile`, `CreateOrUpdateResource` (operator `WritePlotter`): an equal cached spec is left alone, an outdated copy is a conflict |
| `CheckReadiness`, `GetResourceStatusFails` | the pass that copies the plotter's state |
| `SaveStatus` | `isReady`, status update, requeue |
| `WatchPlotter` | the informer of plotters, with the map function of `SetupWithManager` |
| `ReportStatus`, `VanishPlotter`, `RemovePlotter`, `Provision`, `VanishDataset` | the Plotter controller, other clients, the Dataset controller |

`RegisterAsset` always fails in the code ("Unsupported feature"), so an asset that must be registered
in a catalog (`Cataloged`) never becomes ready; the model does the same, and leaves out the label by which its bucket is kept. The branch on
`InvalidClusterConfiguration` after `CreateOrUpdateResource` is left out: no code that
it calls returns that error.

The definitions named after a bug (`...Unrecorded`, `...Ahead`, `...BySpec` and
so on, each introduced by a comment "Mutant") are variants of the definition that follows them. They are not
part of the specification; replacing the definition by its variant makes TLC report a
violation, which shows that the property can fail.

## 3. What TLC checks

`expect` is the outcome of the run; a violation is a disagreement between the code and what a
comment or a document says of it (section 6).

| Run | Properties | Instance, faults | Shows |
| --- | --- | --- | --- |
| `blueprint_inventory` | `TypeOK`, `ReleasesTracked`, `NothingLeftBehind`, `ReleasesCurrentAtEnd` | 2 modules, 2 generations; chart, logout, helm | every release is in the inventory, every pass ends with current releases only, deletion leaves none |
| `blueprint_ready` | `ReadyIsComplete`, `ReadyOnlyIfApplied`, `ObservedGenerationGrows`, `CleanUpSparesModules` | 2 modules, 2 generations; abort, stale, helm | Ready is reported only for a complete and current set of releases |
| `blueprint_live` | `Converges`, `DeletionCompletes` | 2 modules, then 1; helm, uninstall | the newest version is deployed and Ready in the end; a deleted blueprint goes |
| `blueprint_staleready` | `ReadyOnlyIfApplied` | 1 module; chart; violation | a chart that failed before Helm recorded it is reported as Ready |
| `plotter_deployed` | `TypeOK`, `BlueprintsTracked`, `NoBlueprintLeftBehind`, `ReadyOnlyIfDeployed` | 2 clusters, 2 contents, 2 generations, Razee; get, update, delete | every blueprint is in the inventory, none outlives the plotter, Ready needs the blueprints of the generation |
| `plotter_observed` | `ObservedGenerationGrows` | 1 cluster, Razee; abort, lag, get, update, delete | a pass cut short never moves the status back |
| `plotter_live` | `Converges`, `DeletionCompletes` | 1 cluster, local; get, create | the newest generation is deployed and Ready in the end; a deleted plotter goes |
| `plotter_lostupdate` | `Converges` | 1 cluster, local; lag; violation | an update that conflicts once is never tried again |
| `application_tracked` | `TypeOK`, `StorageTracked`, `NothingLeftBehind`, `ServesAllowed`, `ReadyOnlyIfProvisioned` | 2 assets, one of them cataloged, 2 generations; plotter, provision, removal | every Dataset is recorded, deletion leaves nothing, the plotter serves what the status does not deny, copies have their buckets |
| `application_served` | `ReadyOnlyIfServed` | 2 assets, the second version replaces one by the other; abort, stale, dataset, linger | across crashes and outdated reads of the application, Ready needs a flow for every asset that is not denied |
| `application_live` | `Converges`, `DeletionCompletes` | 1 asset, 2 generations; connector, path, list, lag | a valid application becomes Ready once errors are over; a deleted one goes; both with outdated reads of the plotter |
| `application_denied` | `DeniedNotServed` | 1 asset, 2 generations, no fault; violation | the pass that denies the only asset of the second version is saved as Ready while the plotter of the first still serves it |

**Bounds.** Two generations are the smallest history with an update, and passes overlap at
most one update with the state of the version before. Two modules, clusters or assets
are the smallest number for which one can fail, be denied or be dropped while
another goes on. There is no bound on the number of passes, faults, crashes, status reports or resyncs.

**Restricted instances.** `MCBlueprint!ShrinkingInit` (liveness) uses one history in which every operation
occurs. `MCPlotter!CanonicalInit` names the first content of each cluster, without loss because
contents of different clusters are never compared. `MCFybrikApplication!NeverRefilledInit` excludes applications that
drop all their data and then ask for data again (section 6). `MCFybrikApplication!MovingInit` fixes
one history, and the run that uses it does not look beyond the deletion of the application or an error of the plotter (constraint `NotDeleted`; its property is
about applications that are not deleted; beyond errors of the plotter it was checked once, on 4.0 million states, and holds). `MCFybrikApplication!UpdatedInit` (liveness) starts from a
valid version that asks for data; the second version is any. `application_live` leaves out buckets that cannot be provisioned (fault `provision`) to stay short; with them both its
properties were checked once, on 666,048 states, and hold. The safety runs of `Blueprint` and `Plotter` and `application_served` use the symmetry of modules, clusters
and assets; no liveness run does.

**Deadlock** is not checked: once an object has been deleted and the queue is empty the controller has
nothing to do, and that is the intended end.

**Fairness.** `WF(Reconciler)`: the work queue hands out every key and a pass runs to its end. `WF(Watch)` and
`WF(Resync)`: informers deliver, and resync every few hours. An error return and `RequeueAfter` put the key back in the queue. The rest is about the
environment: resources, blueprints and plotters eventually become ready, deleted ones go away, buckets get
provisioned (weak fairness), and an operation of Helm or of the cluster manager that is tried again and again
eventually succeeds (strong fairness, which is what "transient" means). `Converges` says what else has to stop: its
antecedent requires that, from some point on, health does not deteriorate and, for applications, no connector or
list fails and no bucket is replaced. None of these is fairness of a fault.

## 4. What is proved

`BlueprintProofs.tla` proves, for every set of instances, every `MaxGeneration` and every
set of faults unless a hypothesis says otherwise:

| Theorem | Property | Hypotheses on faults |
| --- | --- | --- |
| `TypeCorrect` | `TypeOK` | none |
| `ReadyComplete` | `ReadyIsComplete` | none |
| `ObservedGenerationMonotone` | `ObservedGenerationGrows` | none |
| `CleanUpSafe` | `CleanUpSparesModules` | none |
| `ReadyApplied` | `ReadyOnlyIfApplied` | no chart, no logout |
| `Tracked` | `ReleasesTracked` | no abort, no stale |
| `DeletedClean` | `NothingLeftBehind` | no abort, no stale, no uninstall |
| `CurrentAtEnd` | `ReleasesCurrentAtEnd` | no abort, no stale, no uninstall |

The only assumptions on constants are `GenerationAssumption` (there is a generation) and
`FaultsAssumption`.

*The argument.* None of the properties is inductive, because each is about a stored status that a pass computes over
many steps, from an object that may be old by the time it is saved. `SafetyInv` adds

* `GenerationOrder`: generations only decrease along object, cache, pass, stored status. It is what makes
  an old pass harmless: the status it saves is never newer than its object, and never older than the one stored;
* `PassProgress`: what the loops have established so far about the modules they have handled
  (entries at the current generation, modules counted as ready are recorded as ready, an error implies a module that is not ready).

`AppliedInv` adds that a generation that counts as observed has no deployed release of another generation; this is
where `chart` and `logout` have to be excluded, and `blueprint_staleready` shows why. `InventoryInv` adds that the running pass
read the status that it is going to replace, `GuardedInv` that the finalizer is there as long as a release is, and `OutdatedInv`
that the clean-up loop has still to visit every outdated release. Each step lemma has one case per action.

*Only model-checked*: all liveness (TLAPS does not reason about fairness and `ENABLED` here), and everything about
`Plotter` and `FybrikApplication`.

## 5. Abstractions

* One object per module: applications, plotters and blueprints share no state with others of their kind
  in the code, apart from the names of their resources, which are hashes of the owner.
* Specs, charts, values, policies, paths and error messages are members of small sets; an error message matters only as
  present or absent, except where the code compares it (denial).
* The assets of a plotter are one asset that every module processes; an asset of an application has at most one flow.
* `UpdateStatus` and `UpdateFinalizers` are one step. Their failure is an `Abort`.
* In `FybrikApplication` validation by a webhook (`ENABLE_WEBHOOKS`) is the case in which all specs are valid, and
  the plotter may report any state at any time. A copy of the plotter that equals what is stored counts as up to date.
* The health of a release is one value; the code combines the conditions of its resources (`checkReleaseStatus`).
* In `Plotter` an operation of the Razee manager is one step.

## 6. Disagreements and known limits

Three runs show that the code does not do what a comment or a document says:

* `blueprint_staleready`: `ObservedGeneration` is set before charts are applied (`app/blueprint_controller.go:298`), so a version
  whose chart failed before Helm recorded it is not applied again, and the healthy release of the previous version is reported as Ready.
* `plotter_lostupdate`: an update that fails is not tried again, because its generation is marked as observed all the same
  (`app/plotter_controller.go:478`).
* `application_denied`: when all assets of a new version are denied, `reconcile` returns before the plotter of the previous version is touched
  (`app/fybrikapplication_controller.go:363`); the new version counts as observed and the application as Ready, and the old flow stays.

The hypotheses of theorems and the faults of runs are needed. Outside them:

* *Blueprint.* `ReleasesTracked` fails with abort or stale: a release is installed and the status that names it is lost, or overwritten by an older one.
  `NothingLeftBehind` and `ReleasesCurrentAtEnd` also fail when an uninstall does; the finalizer is removed all the same.
* *Plotter.* `ReadyOnlyIfDeployed` fails when a creation fails (`isReady` stays true), with lag, with a failing `GetClusters`, and with outdated reads.
  `Converges` fails with failing updates, `GetClusters`, lag and crashes. `BlueprintsTracked` fails with
  crashes. `ObservedGenerationGrows` fails when an outdated read is followed by the early return. Ready of a remote blueprint is read without comparing its
  `ObservedGeneration` (`app/plotter_controller.go:414`), so it may be about the previous content.
* *FybrikApplication.* `StorageTracked` fails when a pass creates Datasets and another asset has an error
  (`app/fybrikapplication_controller.go:372`), and with crashes and outdated reads. `ReadyOnlyIfProvisioned` fails when a pass with an outdated
  list of buckets replaces one and crashes, and with lingering Datasets: one that is being deleted is taken for the same bucket (`pkg/storage/storage_provisioning.go:120`).
  `ReadyOnlyIfServed` fails when somebody else deletes the plotter between the check and the save, and with outdated reads of the plotter when a pass returns to flows
  that the plotter had before: the cached spec is equal and nothing is written (`app/resource_gen.go:79`). `ServesAllowed` fails
  with outdated reads of the plotter: `ResourceExists` misses a plotter that was just created (`app/resource_gen.go:59`), `reconcile` runs again for the same version, all
  assets are denied this time, and it returns with the plotter and its flows in place. It also fails when
  somebody deletes the plotter, an asset is then denied and allowed again, and the pass that creates the plotter anew crashes, or read an outdated application,
  before the status that still says denied is replaced. `DeletionCompletes` fails when a deletion fails
  after a Dataset has been deleted: what was deleted is not recorded, and deleting it again is an error for ever. The same happens when somebody else has deleted the plotter, or
  when a pass that asks for another bucket deletes a Dataset that lingers: the pass fails, the entry stays, and the Dataset goes away later. `Converges` fails for the last reason too, when the
  application asks for nothing any more, and with outdated reads of the application, which can make passes overwrite each other's reference to the plotter for ever. An application that
  is emptied and refilled while it is being cleaned up breaks `NothingLeftBehind`, `ReadyOnlyIfServed` and `DeletionCompletes`. The plotter's status may be about older flows.

## 7. Plan

Done: the three controllers, their runs, and the proofs about `Blueprint`. Next, in this order:

1. `BlueprintContract`: what a blueprint promises to a plotter (stored, seen, reported, gone) as an abstract specification, implemented by `Blueprint`
   through a refinement mapping and matched by the environment actions of `Plotter`; the same between `Plotter` and `FybrikApplication`.
2. `RazeeManager`: channels, versions and subscriptions call by call
   (`pkg/multicluster/razee/razee_cluster_manager.go`), with the partial states that a failure leaves.
3. `SelectModules`: `findPathsWithinLimit` and `validate` (`app/select_modules.go`) as operators, checked against a declarative definition of a valid
   path; among them the comment "the paths are sorted by the length".
4. `AdminConfig`: the merge of decisions (`pkg/adminconfig/rego_file_evaluator.go`), which should not depend on the order of decisions.
5. Proofs: `PlotterProofs` (`TypeOK`, `BlueprintsTracked`, `NoBlueprintLeftBehind`, `ReadyOnlyIfDeployed`), `FybrikApplicationProofs`
   (`TypeOK`, `StorageTracked`, `ServesAllowed`), and the step simulation for `BlueprintContract`.

## 8. Running

    tlc -workers 2 -config MCBlueprint_ready.cfg MCBlueprint
    tlapm BlueprintProofs.tla

Each configuration is named after its module and run; the longest take about two minutes with two workers.
