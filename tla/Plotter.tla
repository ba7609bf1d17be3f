------------------------------- MODULE Plotter -------------------------------
(***************************************************************************)
(* The Plotter controller (manager/controllers/app/plotter_controller.go): *)
(* one Plotter object, the work queue and the informer cache that drive    *)
(* its reconciler, and the blueprints that it creates, updates, polls and  *)
(* deletes through the cluster manager (pkg/multicluster).                 *)
(*                                                                         *)
(* A blueprint is what the cluster manager stores for a cluster: its       *)
(* content (the BlueprintSpec) and the status its own controller reports,  *)
(* which may still be about an earlier content.  The assets of the plotter *)
(* are represented by one asset that every module processes.               *)
(***************************************************************************)
EXTENDS Naturals

CONSTANTS
    Clusters,       \* the clusters that may run a blueprint
    Contents,       \* the blueprint specs that a plotter may ask for
    None,           \* no blueprint
    NoAuth,         \* a spec generated without the clusters' metadata
    Manager,        \* the cluster manager: "local" or "razee"
    MaxGeneration,  \* bound: number of versions of the plotter's spec
    Faults          \* the faults of the environment that may occur

(***************************************************************************)
(* "abort"     the process stops, or an API call ends the pass early       *)
(* "stale"     a pass may start before the informer cache caught up        *)
(* "lag"       the cluster manager reports an older state of a blueprint   *)
(* "clusters"  GetClusters fails                                           *)
(* "get", "create", "update", "delete"                                     *)
(*             the operation of the cluster manager fails                  *)
(***************************************************************************)
FaultKinds ==
    {"abort", "stale", "lag", "clusters", "get", "create", "update", "delete"}

ASSUME GenerationAssumption == MaxGeneration \in Nat \ {0}
ASSUME FaultsAssumption == Faults \subseteq FaultKinds
ASSUME ContentsAssumption ==
    None # NoAuth /\ None \notin Contents /\ NoAuth \notin Contents

\* The local manager knows exactly one cluster (GetLocalClusterName)
ASSUME ManagerAssumption ==
    /\ Manager \in {"local", "razee"}
    /\ Manager = "local" => \A c, d \in Clusters : c = d

VARIABLES
    specs,    \* specs[g][c]: what generation g of the plotter asks of cluster c
    plotter,  \* the Plotter object in the API server
    cache,    \* the informer's copy of it, which r.Get reads
    queued,   \* the key waits in the work queue
    pc,       \* the phase of the reconcile pass
    cur,      \* what the pass holds in memory
    todo,     \* the clusters that the current loop has still to visit
    store,    \* the blueprint that the cluster manager stores for each cluster
    view      \* the blueprint that it reports for each cluster

vars == <<specs, plotter, cache, queued, pc, cur, todo, store, view>>
-----------------------------------------------------------------------------
Generations == 1 .. MaxGeneration

BlueprintSpecs == Contents \cup {None, NoAuth}

AssetStates == {"absent", "ready", "notready"}

\* A blueprint: what it asks for, whether it is being deleted, and its status:
\* the content it is about, ObservedState, and the asset's ModulesState
Blueprint == [content : BlueprintSpecs, deleting : BOOLEAN, seen : BlueprintSpecs,
              state : {"waiting", "ready", "error"}, asset : AssetStates]

\* PlotterStatus; of Blueprints only the keys matter
Status == [observedGeneration : 0 .. MaxGeneration,
           ready : BOOLEAN,
           error : BOOLEAN,
           blueprints : SUBSET Clusters,
           asset : AssetStates]

Object == [exists : BOOLEAN, deleting : BOOLEAN, finalizer : BOOLEAN,
           generation : Generations, status : Status]

\* One pass: the object's generation, the status that was read, blueprintsMap,
\* Status.Blueprints, isReady, errorCollection, ObservedState.Error and
\* assetToStatusMap
Pass == [generation : 0 .. MaxGeneration, read : Status,
         want : [Clusters -> BlueprintSpecs], blueprints : SUBSET Clusters,
         isReady : BOOLEAN, failed : BOOLEAN, error : BOOLEAN, asset : AssetStates]

TypeOK ==
    /\ specs \in [Generations -> [Clusters -> Contents \cup {None}]]
    /\ plotter \in Object
    /\ cache \in Object
    /\ queued \in BOOLEAN
    /\ pc \in {"idle", "clusters", "tidyup", "delete"}
    /\ cur \in Pass
    /\ todo \in SUBSET Clusters
    /\ store \in [Clusters -> Blueprint]
    /\ view \in [Clusters -> Blueprint]
-----------------------------------------------------------------------------
EmptyStatus == [observedGeneration |-> 0, ready |-> FALSE, error |-> FALSE,
                blueprints |-> {}, asset |-> "absent"]

NewObject == [exists |-> TRUE, deleting |-> FALSE, finalizer |-> FALSE,
              generation |-> 1, status |-> EmptyStatus]

NoPass == [generation |-> 0, read |-> EmptyStatus, want |-> [c \in Clusters |-> None],
           blueprints |-> {}, isReady |-> FALSE, failed |-> FALSE, error |-> FALSE,
           asset |-> "absent"]

NewBlueprint(content) == [content |-> content, deleting |-> FALSE, seen |-> None,
                          state |-> "waiting", asset |-> "absent"]

NoBlueprint == NewBlueprint(None)

\* A plotter is generated only when there is a step to execute
Init ==
    /\ specs \in [Generations -> [Clusters -> Contents \cup {None}]]
    /\ \A g \in Generations : \E c \in Clusters : specs[g][c] # None
    /\ plotter = NewObject
    /\ cache = NewObject
    /\ queued = TRUE
    /\ pc = "idle"
    /\ cur = NoPass
    /\ todo = {}
    /\ store = [c \in Clusters |-> NoBlueprint]
    /\ view = [c \in Clusters |-> NoBlueprint]
-----------------------------------------------------------------------------
(* The cluster manager *)

\* What is stored is also what is reported, unless the manager lags behind
Stored(blueprints) ==
    /\ store' = blueprints
    /\ view' = IF "lag" \in Faults THEN view ELSE blueprints

\* CreateOrUpdate of the local manager reads the object first, and fails when
\* the copy it got is not the newest; UpdateBlueprint of the Razee manager
\* fails when there is no channel
Writable(c, operation) ==
    IF Manager = "local" THEN view[c] = store[c]
    ELSE operation = "create" \/ store[c].content # None

\* CreateBlueprint and UpdateBlueprint: a blueprint that is there keeps its
\* status, in which the asset's modules may or may not have kept their names
Write(c, operation, content) ==
    /\ Writable(c, operation)
    /\ IF store[c].content = None
       THEN Stored([store EXCEPT ![c] = NewBlueprint(content)])
       ELSE \E a \in {store[c].asset, "absent"} :
               Stored([store EXCEPT ![c].content = content, ![c].asset = a])

WriteFails(c, operation) ==
    /\ operation \in Faults \/ ~Writable(c, operation)
    /\ UNCHANGED <<store, view>>

\* DeleteBlueprint: there is nothing to delete
Missing(c) ==
    \/ store[c].content = None
    \/ Manager = "local" /\ view[c].content = None

\* A local blueprint stays until its finalizer is removed; the Razee channel is
\* removed, with its versions and its subscription
Deleted(c) ==
    /\ ~Missing(c)
    /\ Stored(IF Manager = "local"
              THEN [store EXCEPT ![c].deleting = TRUE]
              ELSE [store EXCEPT ![c] = NoBlueprint])

DeleteFails(c) ==
    /\ Missing(c) \/ "delete" \in Faults
    /\ UNCHANGED <<store, view>>
-----------------------------------------------------------------------------
(* The reconciler *)

\* The worker takes the key and r.Get reads the cache
Get ==
    /\ pc = "idle"
    /\ queued
    /\ "stale" \in Faults \/ cache = plotter

\* NotFound, or being deleted without our finalizer: nothing to do
ReconcileNothing ==
    /\ Get
    /\ ~cache.exists \/ (cache.deleting /\ ~cache.finalizer)
    /\ queued' = FALSE
    /\ UNCHANGED <<specs, plotter, cache, pc, cur, todo, store, view>>

\* reconcileFinalizers of an object being deleted
BeginDelete ==
    /\ Get
    /\ cache.exists
    /\ cache.deleting
    /\ cache.finalizer
    /\ queued' = FALSE
    /\ pc' = "delete"
    /\ todo' = cache.status.blueprints
    /\ UNCHANGED <<specs, plotter, cache, cur, store, view>>

\* Mutants: an error is ignored; the pass is repeated until the blueprint that
\* it deleted is gone
DeleteExternalResourceIgnoringErrors(c) ==
    /\ pc = "delete"
    /\ c \in todo
    /\ Deleted(c) \/ DeleteFails(c)
    /\ todo' = todo \ {c}
    /\ UNCHANGED <<specs, plotter, cache, queued, pc, cur>>

DeleteExternalResourceWaiting(c) ==
    /\ pc = "delete"
    /\ c \in todo
    /\ Deleted(c) \/ DeleteFails(c)
    /\ todo' = {}
    /\ pc' = "idle"
    /\ queued' = TRUE
    /\ UNCHANGED <<specs, plotter, cache, cur>>

\* One blueprint of the finalizer's loop: the first error ends the pass
DeleteExternalResource(c) ==
    /\ pc = "delete"
    /\ c \in todo
    /\ \/ Deleted(c) /\ todo' = todo \ {c} /\ UNCHANGED <<pc, queued>>
       \/ DeleteFails(c) /\ todo' = {} /\ pc' = "idle" /\ queued' = TRUE
    /\ UNCHANGED <<specs, plotter, cache, cur>>

\* UpdateFinalizers retries a conflict on the newest object
RemoveFinalizer ==
    /\ pc = "delete"
    /\ todo = {}
    /\ plotter' = [plotter EXCEPT !.finalizer = FALSE, !.exists = FALSE]
    /\ pc' = "idle"
    /\ UNCHANGED <<specs, cache, queued, cur, todo, store, view>>

\* getBlueprintsMap ignores the error of GetClusters: the blueprints are then
\* generated without the clusters' Vault authentication path
BlueprintsMaps(generation) ==
    {specs[generation]} \cup
    IF "clusters" \in Faults
    THEN {[c \in Clusters |-> IF specs[generation][c] = None THEN None ELSE NoAuth]}
    ELSE {}

\* The finalizer is added first when it is missing (a conflicting update is
\* retried on the newest object, or ends the pass)
BeginReconcile ==
    /\ Get
    /\ cache.exists
    /\ ~cache.deleting
    /\ cache.finalizer \/ cache = plotter
    /\ plotter' = IF cache.finalizer THEN plotter ELSE [plotter EXCEPT !.finalizer = TRUE]
    /\ \E want \in BlueprintsMaps(cache.generation) :
          /\ cur' = [generation |-> cache.generation, read |-> cache.status,
                     want |-> want, blueprints |-> cache.status.blueprints,
                     isReady |-> TRUE, failed |-> FALSE, error |-> FALSE,
                     asset |-> "absent"]
          /\ todo' = {c \in Clusters : want[c] # None}
    /\ pc' = "clusters"
    /\ queued' = FALSE
    /\ UNCHANGED <<specs, cache, store, view>>
-----------------------------------------------------------------------------
(* One iteration of the loop over blueprintsMap (a Go map: any order) *)

\* setPlotterAssetsReadyStateToFalse
NotReady(p) == [p EXCEPT !.isReady = FALSE, !.asset = "notready"]

Failed(p) == [p EXCEPT !.failed = TRUE]

\* updatePlotterAssetsState: a module that is not ready makes the asset so
Combined(asset, moduleState) ==
    CASE moduleState = "absent" -> asset
      [] asset = "absent" -> moduleState
      [] OTHER -> IF moduleState = "ready" THEN asset ELSE "notready"

\* GetBlueprint succeeds; the Razee manager returns nil for no blueprint
Fetched(c) == c \in cur.blueprints /\ (Manager = "razee" \/ view[c].content # None)

RemoteMissing(c) ==
    /\ Fetched(c)
    /\ view[c].content = None
    /\ cur' = NotReady(cur)
    /\ UNCHANGED <<store, view>>

\* Mutant: an update that fails leaves isReady alone
UpdateBlueprintKeepsReady(c) ==
    /\ Fetched(c)
    /\ view[c].content \notin {None, cur.want[c]}
    /\ cur.generation # cur.read.observedGeneration
    /\ \/ Write(c, "update", cur.want[c]) /\ cur' = NotReady(cur)
       \/ WriteFails(c, "update") /\ cur' = Failed(cur)

\* The specs differ: the blueprint is updated only by the first pass that sees
\* the generation
UpdateBlueprint(c) ==
    /\ Fetched(c)
    /\ view[c].content \notin {None, cur.want[c]}
    /\ cur.generation # cur.read.observedGeneration
    /\ \/ Write(c, "update", cur.want[c]) /\ cur' = NotReady(cur)
       \/ WriteFails(c, "update") /\ cur' = Failed(NotReady(cur))

DoNotUpdate(c) ==
    /\ Fetched(c)
    /\ view[c].content \notin {None, cur.want[c]}
    /\ cur.generation = cur.read.observedGeneration
    /\ cur' = [cur EXCEPT !.isReady = FALSE, !.asset = Combined(@, view[c].asset)]
    /\ UNCHANGED <<store, view>>

\* The specs are equal: the status of the blueprint counts, whichever content
\* it is about
CollectStatus(c) ==
    /\ Fetched(c)
    /\ view[c].content = cur.want[c]
    /\ cur' = [cur EXCEPT !.isReady = cur.isReady /\ view[c].state = "ready",
                          !.error = cur.error \/ view[c].state = "error",
                          !.asset = Combined(@, view[c].asset)]
    /\ UNCHANGED <<store, view>>

\* Mutant: the entry is not recorded
CreateBlueprintUnrecorded(c) ==
    /\ c \notin cur.blueprints
    /\ \/ Write(c, "create", cur.want[c]) /\ cur' = NotReady(cur)
       \/ WriteFails(c, "create") /\ cur' = [Failed(cur) EXCEPT !.asset = "notready"]

\* No entry for the cluster.  A failure leaves isReady alone.
CreateBlueprint(c) ==
    /\ c \notin cur.blueprints
    /\ \/ Write(c, "create", cur.want[c])
          /\ cur' = [NotReady(cur) EXCEPT !.blueprints = @ \cup {c}]
       \/ WriteFails(c, "create") /\ cur' = [Failed(cur) EXCEPT !.asset = "notready"]

ReconcileCluster(c) ==
    /\ pc = "clusters"
    /\ c \in todo
    /\ \/ RemoteMissing(c)
       \/ UpdateBlueprint(c)
       \/ DoNotUpdate(c)
       \/ CollectStatus(c)
       \/ CreateBlueprint(c)
    /\ IF todo = {c}
       THEN /\ pc' = "tidyup"
            /\ todo' = {d \in cur'.blueprints : cur.want[d] = None}
       ELSE pc' = pc /\ todo' = todo \ {c}
    /\ UNCHANGED <<specs, plotter, cache, queued>>
-----------------------------------------------------------------------------
\* UpdateStatus overwrites what is stored, also on a conflict
Save(status) ==
    plotter' = IF plotter.exists THEN [plotter EXCEPT !.status = status] ELSE plotter

EndPass ==
    /\ pc' = "idle"
    /\ cur' = NoPass
    /\ todo' = {}

\* Mutants: the status is saved as if nothing, or everything, had been observed
GetBlueprintFailsResets(c) ==
    /\ pc = "clusters"
    /\ c \in todo
    /\ c \in cur.blueprints
    /\ "get" \in Faults \/ (Manager = "local" /\ view[c].content = None)
    /\ Save([EmptyStatus EXCEPT !.blueprints = cur.blueprints])
    /\ EndPass
    /\ queued' = TRUE
    /\ UNCHANGED <<specs, cache, store, view>>

GetBlueprintFailsObserves(c) ==
    /\ pc = "clusters"
    /\ c \in todo
    /\ c \in cur.blueprints
    /\ "get" \in Faults \/ (Manager = "local" /\ view[c].content = None)
    /\ Save([cur.read EXCEPT !.error = cur.error, !.blueprints = cur.blueprints,
                             !.observedGeneration = cur.generation])
    /\ EndPass
    /\ queued' = TRUE
    /\ UNCHANGED <<specs, cache, store, view>>

\* GetBlueprint failed: reconcile returns at once, and what it has changed so
\* far is saved with the readiness and the generation of the status it read
GetBlueprintFails(c) ==
    /\ pc = "clusters"
    /\ c \in todo
    /\ c \in cur.blueprints
    /\ "get" \in Faults \/ (Manager = "local" /\ view[c].content = None)
    /\ Save([cur.read EXCEPT !.error = cur.error, !.blueprints = cur.blueprints])
    /\ EndPass
    /\ queued' = TRUE
    /\ UNCHANGED <<specs, cache, store, view>>

\* One iteration of the tidy-up loop: a missing Razee channel is no error, any
\* other failure keeps the entry
TidyUp(c) ==
    /\ pc = "tidyup"
    /\ c \in todo
    /\ \/ /\ Deleted(c) \/ (Manager = "razee" /\ Missing(c) /\ DeleteFails(c))
          /\ cur' = [cur EXCEPT !.blueprints = @ \ {c}]
       \/ /\ DeleteFails(c)
          /\ Manager = "local" \/ "delete" \in Faults
          /\ cur' = Failed(cur)
    /\ todo' = todo \ {c}
    /\ UNCHANGED <<specs, plotter, cache, queued, pc>>

\* Mutant: the next generation counts as observed
FinishReconcileAhead ==
    /\ pc = "tidyup"
    /\ todo = {}
    /\ Save([observedGeneration |-> cur.generation + 1,
             ready |-> cur.isReady,
             error |-> cur.error \/ (cur.failed /\ ~cur.isReady),
             blueprints |-> cur.blueprints,
             asset |-> cur.asset])
    /\ EndPass
    /\ queued' = (queued \/ cur.failed \/ ~cur.isReady)
    /\ UNCHANGED <<specs, cache, store, view>>

\* End of the pass: the generation counts as observed whatever has failed.
\* The key is requeued by an error, and while the plotter is not ready.
FinishReconcile ==
    /\ pc = "tidyup"
    /\ todo = {}
    /\ Save([observedGeneration |-> cur.generation,
             ready |-> cur.isReady,
             error |-> cur.error \/ (cur.failed /\ ~cur.isReady),
             blueprints |-> cur.blueprints,
             asset |-> cur.asset])
    /\ EndPass
    /\ queued' = (queued \/ cur.failed \/ ~cur.isReady)
    /\ UNCHANGED <<specs, cache, store, view>>

\* The process stops or an API call fails: the pass is lost, and the key is
\* queued again (by the error return, or by the list at restart)
Abort ==
    /\ "abort" \in Faults
    /\ pc # "idle"
    /\ EndPass
    /\ queued' = TRUE
    /\ UNCHANGED <<specs, plotter, cache, store, view>>
-----------------------------------------------------------------------------
(* The environment *)

\* The FybrikApplication controller writes a new spec
UpdateSpec ==
    /\ plotter.exists
    /\ ~plotter.deleting
    /\ plotter.generation < MaxGeneration
    /\ plotter' = [plotter EXCEPT !.generation = @ + 1]
    /\ UNCHANGED <<specs, cache, queued, pc, cur, todo, store, view>>

\* The object is deleted; it stays until its finalizer is removed
DeletePlotter ==
    /\ plotter.exists
    /\ ~plotter.deleting
    /\ plotter' = [plotter EXCEPT !.deleting = TRUE, !.exists = plotter.finalizer]
    /\ UNCHANGED <<specs, cache, queued, pc, cur, todo, store, view>>

\* The informer sees the newest object and its event queues the key
Watch ==
    /\ cache # plotter
    /\ cache' = plotter
    /\ queued' = TRUE
    /\ UNCHANGED <<specs, plotter, pc, cur, todo, store, view>>

\* The informer's periodic resync; blueprints are not watched
Resync ==
    /\ ~queued
    /\ cache.exists
    /\ queued' = TRUE
    /\ UNCHANGED <<specs, plotter, cache, pc, cur, todo, store, view>>

\* The blueprint's controller saves its status, about the current content or
\* still about the one it observed before; Ready covers all the modules, and
\* an error comes from one of them
ReportStatus(c, content, state, asset) ==
    /\ store[c].content # None
    /\ ~store[c].deleting
    /\ content \in {store[c].content, store[c].seen} \ {None}
    /\ state = "ready" => asset = "ready"
    /\ state = "error" => asset = "notready"
    /\ Stored([store EXCEPT ![c].seen = content, ![c].state = state, ![c].asset = asset])
    /\ UNCHANGED <<specs, plotter, cache, queued, pc, cur, todo>>

\* The finalizer of a deleted blueprint is removed
Vanish(c) ==
    /\ store[c].deleting
    /\ Stored([store EXCEPT ![c] = NoBlueprint])
    /\ UNCHANGED <<specs, plotter, cache, queued, pc, cur, todo>>

\* The cluster manager catches up
CatchUp(c) ==
    /\ view[c] # store[c]
    /\ view' = [view EXCEPT ![c] = store[c]]
    /\ UNCHANGED <<specs, plotter, cache, queued, pc, cur, todo, store>>
-----------------------------------------------------------------------------
Reconciler ==
    \/ ReconcileNothing
    \/ BeginDelete
    \/ \E c \in Clusters : DeleteExternalResource(c)
    \/ RemoveFinalizer
    \/ BeginReconcile
    \/ \E c \in Clusters : ReconcileCluster(c)
    \/ \E c \in Clusters : GetBlueprintFails(c)
    \/ \E c \in Clusters : TidyUp(c)
    \/ FinishReconcile

BlueprintController(c) ==
    \/ \E content \in Contents \cup {NoAuth}, state \in {"waiting", "ready", "error"},
          asset \in {"ready", "notready"} : ReportStatus(c, content, state, asset)
    \/ Vanish(c)

Next ==
    \/ Reconciler
    \/ Abort
    \/ UpdateSpec
    \/ DeletePlotter
    \/ Watch
    \/ Resync
    \/ \E c \in Clusters : BlueprintController(c)
    \/ \E c \in Clusters : CatchUp(c)

Spec == Init /\ [][Next]_vars

\* The status of the blueprint on c becomes Ready for its current content
BecomesReady(c) == ReportStatus(c, store[c].content, "ready", "ready")

\* The blueprint on c reports anything else
Deteriorates(c) ==
    \E content \in Contents \cup {NoAuth}, state \in {"waiting", "ready", "error"},
       asset \in {"ready", "notready"} :
        /\ <<content, state>> # <<store[c].content, "ready">>
        /\ ReportStatus(c, content, state, asset)

(***************************************************************************)
(* Fairness.  The work queue hands out a queued key and runs the pass, the *)
(* informers deliver and resync, the cluster manager catches up; faults of *)
(* the cluster manager are transient, so an operation that is tried again  *)
(* and again eventually succeeds; and a blueprint eventually reports Ready *)
(* or, once deleted, goes away.                                            *)
(***************************************************************************)
Fairness ==
    /\ WF_vars(Reconciler)
    /\ WF_vars(Watch)
    /\ WF_vars(Resync)
    /\ \A c \in Clusters :
          /\ WF_vars(CatchUp(c))
          /\ WF_vars(Vanish(c))
          /\ WF_vars(BecomesReady(c))
          /\ SF_vars(ReconcileCluster(c) /\ ~cur'.failed)
          /\ SF_vars(TidyUp(c) /\ Deleted(c))
          /\ SF_vars(DeleteExternalResource(c) /\ Deleted(c))

LiveSpec == Spec /\ Fairness
-----------------------------------------------------------------------------
(* Properties *)

InPass == pc \in {"clusters", "tidyup"}

\* Status.Blueprints is a complete inventory: while the plotter exists, every
\* blueprint that is not being deleted has an entry in the status that is
\* stored, or in the one the running pass is going to store.
BlueprintsTracked ==
    plotter.exists =>
        \A c \in Clusters :
            store[c].content # None /\ ~store[c].deleting =>
                c \in IF InPass THEN cur.blueprints ELSE plotter.status.blueprints

\* "delete it and its associated resources": once the plotter is gone, every
\* blueprint it created is gone or being deleted.
NoBlueprintLeftBehind ==
    ~plotter.exists =>
        \A c \in Clusters : store[c].content = None \/ store[c].deleting

\* The blueprints of generation g, and no others, are stored
Deployed(g) ==
    \A c \in Clusters :
        (IF store[c].deleting THEN None ELSE store[c].content) = specs[g][c]

\* When a pass makes the plotter Ready, or observes a generation as Ready, the
\* cluster of every step of that generation has that generation's blueprint.
ReadyOnlyIfDeployed ==
    [][(/\ plotter'.status.ready
        /\ \/ ~plotter.status.ready
           \/ plotter'.status.observedGeneration # plotter.status.observedGeneration) =>
          \A c \in Clusters :
              specs[plotter'.status.observedGeneration][c] \in {None, store[c].content}]_vars

\* A pass that was interrupted, or that returned early, never makes the stored
\* status go back to an earlier generation.
ObservedGenerationGrows ==
    [][plotter'.status.observedGeneration >= plotter.status.observedGeneration]_vars

Settled ==
    /\ plotter.status.ready
    /\ plotter.status.observedGeneration = plotter.generation
    /\ Deployed(plotter.generation)

\* "collects statuses and distributes updates of said blueprints": once the
\* blueprints stop deteriorating, the blueprints of the newest generation of a
\* plotter that is not deleted get deployed, and the plotter reports Ready.
Converges ==
    <>[][\A c \in Clusters : ~Deteriorates(c)]_vars
        => <>[](plotter.deleting \/ Settled)

\* A deleted plotter goes away.
DeletionCompletes == plotter.deleting ~> ~plotter.exists
=============================================================================
