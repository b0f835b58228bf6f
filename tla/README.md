# Verification of the AWS Cloud Map MCS controller

The controller implements the Kubernetes multi-cluster services API on top of
AWS Cloud Map. In every cluster of a clusterset it does two things: it
*exports* Services (a `ServiceExport` makes the endpoints of a Service instances
of a Cloud Map service), and it *imports* what any cluster has exported (as
`ServiceImport`s, derived Services and EndpointSlices). This directory holds
TLA+ models of that code, the TLC configurations that check them, and proofs
that TLAPS checks. Line numbers are those of the files under `src/`.

## 1. Inventory

| component | state it keeps | operations | hard behaviour | what makes it correct |
|---|---|---|---|---|
| **OperationPoller** (`pkg/cloudmap/operation_poller.go`, `common/errors.go`) | a channel, a WaitGroup, one goroutine per operation | `Submit`, `Poll`, `Await` | unbuffered channel, a closer goroutine, a poll timeout | no send on a closed channel, no lost result, `nil` only if every operation was applied, no goroutine left behind |
| **ServiceDiscoveryClient** with cache and API (`client.go`, `cache.go`, `api.go`) | three TTL caches: namespaces, service ids, endpoints | `ListServices`, `GetService`, `CreateService`, `RegisterEndpoints`, `DeleteEndpoints` | two goroutines share the caches; answers are cached after other calls have evicted them; operations go on after the poll gave up | acknowledged writes are in Cloud Map and stay there; what a stale cached list hides is made up for |
| **Plan** (`model/plan.go`) | none | `CalculateChanges`, `HasUpdates`, `HasDeletes`, `IsNone` | repeated ids | the changes turn *current* into *desired*, and nothing else |
| **ServiceExportReconciler** (`serviceexport_controller.go`) | none of its own: the export's finalizer and owner reference in Kubernetes, the instances in Cloud Map | `Reconcile` (`handleUpdate`, `handleDelete`), watches and predicates | informer lag, update conflicts, garbage collection, partial failures, restarts | no instance without a finalizer that will clean it up; exports converge; deletions complete; other clusters' instances are left alone |
| **CloudMapReconciler** (`cloudmap_controller.go`, `utils.go`) | none: ServiceImports, derived Services and EndpointSlices in Kubernetes | a `Reconcile` every 2 s | partial failures, objects read back from lagging copies, restarts; slices listed into aliased pointers | imports, derived Services and slices end up as Cloud Map has them; nothing that is exported is removed |
| **EndpointSlicePlan** (`endpointslice_plan.go`) | none | `CalculateChanges`, `trimSlices`, `getOrCreateUnfilledSlice` | slice capacity, port mismatch | slices hold exactly the desired endpoints |
| **ClusterUtils** (`model/cluster.go`) | a copy of cluster id and clusterset id in each of three owners | `GetClusterProperties`, `LoadClusterProperties` | copies by value, never cleared; the exporter's used without a lock by its worker and by one goroutine for each of the four kinds of objects it watches; events dropped while ids are missing | no endpoint without ids; the ids in use become those of the cluster |
| **Endpoint** (`model/types.go`) | none | conversion to and from Cloud Map attributes | parsing, optional and extra attributes, instances that are no endpoints | what is written is read back as it was |
| **Manager** (`main.go`) | the process | start, leader election | restart at any point | – |

How they interact. `ServiceExportReconciler` (a work queue with one worker per
key) and `CloudMapReconciler` (a ticker) run concurrently in one process and
call **one** `ServiceDiscoveryClient`; they interact only through its caches.
The client talks to Cloud Map, where changes are asynchronous: a request is
answered with an operation id and applied later. `OperationPoller` polls those
operations. Other clusters' controllers change the same Cloud Map service.
Kubernetes tells the reconciler of changes through informers, whose copies lag
behind the API server.

The hazards that follow from this are listed, each with its line, under
`hazards` in `PROJECT.json`.

## 2. Modules

```
BatchAwait <-- refines -- OperationPoller        (MCOperationPoller)
                             |  promise used by
                             v
                        CloudMapClient
                             |  EXTENDS
EndpointPlan  ----------> ServiceExport           (MCServiceExport)
     ^                       |  EXTENDS
     |                       v
     |                  ExportHistory             (MCExportHistory)
     | reference of
PlanRounds                                        (MCPlanRounds)
     |  EXTENDS
     v
EndpointAttributes

ClusterUtils              (the ids the exporter and the client work with)

CloudMapReconciler        (the import side)       (MCCloudMapReconciler)
     |  updateEndpointSlices in detail
     v
EndpointSlices                                    (MCEndpointSlices)
```

The theorems about a module are in the module with `Proofs` after its name
(`OperationPollerProofs`, `CloudMapClientProofs`, `ServiceExportProofs`,
`EndpointSlicesProofs`, `PlanRoundsProofs`, `ClusterUtilsProofs`,
`CloudMapReconcilerProofs`); `ExportCleanupProofs` has those about
`ExportHistory`, and goes on where `ServiceExportProofs` ends.

### OperationPoller and BatchAwait

`OperationPoller` has one program counter per goroutine started by `Submit`,
one for the closer goroutine of `Await` and one for `Await` itself, the
WaitGroup counter, the channel's closed flag and the collected errors. A send
and its receive are one step (the channel has no buffer). A request that fails
and one that is accepted, an operation that succeeds or fails at any later
moment, a failed `GetOperation`, and a poll that times out after `MaxPolls`
pending answers are all covered; so is a request whose answer is lost although
Cloud Map accepted it. That nothing panics (a send on the closed channel, a
negative WaitGroup) is the invariant `NoPanic`: the channel is closed only when
every goroutine has sent its result, and `wg` is never negative.

`BatchAwait` is the promise the client relies on: operations get an outcome each,
and when all have one, `Await` returns `nil` exactly if all are good.

### CloudMapClient

One namespace, one service and any set of endpoints (`OwnIds` of this cluster,
`ForeignIds` of others). `cpc[t]` is where goroutine `t` (exporter or importer)
is inside a call; **every cache access and every request is a step of its own**,
so that the two goroutines interleave between reading Cloud Map and caching the
answer, between eviction and the end of the operations, and so on.

- `nsCache`, `svcCache`, `epCache` are the caches: missing, a cached miss, or a
  hit. A TTL may pass at any time (`Expire...`).
- `inst` and `pend` are Cloud Map's instances and the operations under way.
  `pend[i]` may end at any time, in success or, within `MaxErrors`, in failure.
- `batch[i]` is the goroutine of endpoint `i` in the current batch. That `Await`
  returns when all are finished, with `nil` if all are good, is what
  `BatchAwait` promises and `OperationPoller` is proved to keep.
- `Refused` (any request answered with an error, `MaxErrors`) and `lost` (an
  accepted request whose answer is lost, or a poll that gives up, `MaxLost`) are
  the faults.
- `acked` is history: what the last write that returned nil put there.

Assumptions on Cloud Map, which is external: `DiscoverInstances` answers with all
instances as they are at that moment; an operation on an instance that has one
under way is refused (`DuplicateRequest` / `ResourceInUse`); a namespace or
service that exists cannot be created again.

### EndpointPlan, PlanRounds and EndpointAttributes

`EndpointPlan` is `CalculateChanges` over maps from ids to contents: what is
created, updated, deleted. `PlanRounds` is the whole way of an endpoint through
`handleUpdate`: `ExtractEndpoints` makes the list of EndpointSlices and Service
(every port of a slice with every address, the Service port of the same name or
the zero value), `GetCloudMapAttributes` of `EndpointAttributes` writes it,
`NewEndpointFromInstance` reads it back, or fails and the instance is skipped,
and `CalculateChanges` compares. A list is a function from places (slice, port,
endpoint, address) to endpoints, so that an endpoint may stand in it twice; the
loop over it is a step per place (`Match`, `NoMatch`), in any order, with the
code's `currentMap` and `changes` as variables; what is left in the map is
`DeleteUnmatched`. `StartPlan` begins a round and `Apply` ends it; the cluster may
change anywhere in between; the history variable `settled` says whether it did.

Numbers are formatted and parsed (`Itoa`, any injective conversion); keys are
strings; an id is the tuple it is made of (the code replaces `.` and `:` by `_`,
which keeps the addresses of one type apart). Requests succeed here;
`ServiceExport` has their failures.

### ClusterUtils

The `ClusterProperty` objects (`props`), the informer's copy, and the copies of
the exporter (`copy`) and the client (`client`): `main.go:91` passes
`ClusterUtils` by value. The exporter's copy is used without a lock by the worker,
which reads it, and by a goroutine for each kind of object that is watched, which
loads it when it is not valid: `WithEventFilter` (`serviceexport_controller.go:286`)
puts `clusterPropertyFilter` before all four watches, those of Services and
EndpointSlices included, and controller-runtime asks it before the predicates of the
watch. `Watches` is the set of those two ("services", "slices"). They take the steps
of the handler of ServiceExports; only, they pass an event on if the object has an
export (`IsExported`), and such an event may come at any time. (The worker's own
error path is never taken: nothing is enqueued before the copy is valid, and no
value is ever cleared; theorem `WorkerHasProperties`.) `Load` takes the list,
`Assign` stores one value of it, so that loads of several goroutines mix and an
older list can overwrite a newer value. `DropEvent` is `clusterPropertyFilter`,
`MapProperty` and `EnqueueAllExports` are `clusterPropertyMappingFunction`. The worker
reads the cluster id when it starts and both ids again in `extractEndpoints`. The
instance in Cloud Map is the pair of ids it was registered with.

The importer's copy only decides whether a round is made; it is left out, as are
Go's torn reads of a string that another goroutine assigns.

### ServiceExport

The reconciler over `CloudMapClient`. `export`, `service`, `pods` are the objects
in the API server (with deletion mark, finalizer, owner), `seen...` the
informers' copies, `exp` the copy `Reconcile` works on, `epc` where it is.
Users create and delete exports and Services, and change pods, at any moment
between two steps; the garbage collector deletes an export whose owner is gone;
an `Update` from an outdated copy is a conflict. `ReconcileReadError` is the
code's `return ctrl.Result{}, nil` after a failed read (the key is not put
back) and the error return for the cluster properties. `Restart` kills the
process at any point: caches, queue, calls and polls are gone, accepted
operations go on. The importer's `ListServices` runs beside it (`StartList`).

`Update` is accepted if the object is, in all fields of the model, what the copy
shows; the API server compares resource versions. Here the one implies the other:
incarnations are numbered, a deletion mark is never taken back, and finalizer and
owner reference are only changed by this worker, every time from the latest version
and to another value, so that the copy it starts from next is the version before its
last write or a later one, and never an older one that happens to look like the
present one.

Abstracted: the contents of an endpoint are one value; whatever
`extractEndpoints` makes of slices, Service and export is in it (`pods`;
`PlanRounds` has the contents). The cluster properties are set (`ClusterUtils` has
them).

### ExportHistory

`CleanedUpBeforeRelease`, `FinalizerHeld` and "at rest, Cloud Map has what is
exported" are what one would like to say of the exporter, and findings 2 and 3 show
that the code does not keep them as they stand. `ExportHistory` says what it does
keep, under all faults at once, by recording where Reconcile was misled:

- `overlooked`: at its decision (`handleUpdate` with the plan, `handleDelete` with the
  list or with NotFound) Reconcile sees the endpoints the client shows it.
  `Misjudged` are those it sees as they should be, so that it does nothing about
  them, and that are otherwise in Cloud Map, or will be when the operation under way
  ends. The next decision takes their place. A decision for an export that is gone or
  has lost its finalizer passes over all.
- `dropped`: the last reconciliation ended in a failed read, which returns nil.
- `outdated`: the reconciliation under way started from a copy of the export that
  was not up to date.

The variables record only; `SpecH` has the steps of `Spec`.

### CloudMapReconciler

The importer's rounds in one namespace. `imports`, `derived`, `slices` are the
objects in the API server, `seenImports` and `seenDerived` the informer's copies,
which follow at their own pace; `desired` is what `ListServices` returned, `todo`
and `existing` are the loops of `reconcileNamespace`, and the variables from `svc`
to `absent` those of `reconcileService`. Every Get, List, Create, Update and Delete is a
step; any of them may fail (`RequestFails`), the controller may be killed
anywhere (`Restart`), and Cloud Map changes at any time.

- `GetCreatedImport`, `GetCreatedDerived`: after a Create the code reads the
  object from the copy, which may not show it; `...AlreadyExists`: the copy does
  not show an object that is there. All end `reconcileService` with an error.
- Updates are made from the copy: a conflict if the object has changed.
- Objects have uids; the garbage collector deletes derived Services and slices
  whose owner is gone, in steps of its own. A derived Service that is deleted
  and created again has another IP. `Uids` is a bound: an object is created with
  a uid no other object and no copy has (`FreshUids # {}`).
- Ports are compared by protocol and number only (`PortsEqualIgnoreOrder`): name
  and target port are in the model, and the code may leave them as they were.
- The type of a ServiceImport is that of the first endpoint, in an arbitrary
  order; status and type are set once.

`updateEndpointSlices` is one request here, as for endpoints that fit one slice;
`EndpointSlices` has the rest.

### EndpointSlices

`updateEndpointSlices` with `EndpointSlicePlan`, for the derived Service of one
cluster, in rounds: list, trim one slice per step, fill one slice per step, then
one request per step (updates, deletions, creations), any of which may fail and
end the round. What Cloud Map has may change at any step. The plan works on
pointers, and so does the model: lists of names, and `heap`, the objects they
point to. `Pointers` is the loop of `cloudmap_controller.go:246`, which stores
the address of its variable: `go.mod` says Go 1.19, where that is one variable
for all iterations, so every pointer is to the last slice of the list. The order
of the list and the order in which the map of wanted endpoints is traversed are
arbitrary. An endpoint is its IP address, the key the plan compares by; a list of
ports is a set of ids (protocol and number) with names, and `PortsEqualIgnoreOrder`
(`utils.go:126`) compares the ids alone: when just a name changes, a slice that
stays keeps its old ports (`endpointslice_plan.go:108`). A cluster without endpoints
loses its slices with its derived Service. `listed` is the length of the plan's
`Current`.

The list is taken to show the slices as they are: rounds are two seconds apart.

## 3. Runs

| run | bounds | shows |
|---|---|---|
| `poller` | 3 operations, 1 pending answer before the timeout | `NoPanic`, `AwaitCollectsAll`, `NilMeansApplied`; `AwaitTerminates` (all goroutines end); `BatchSpec` (refinement). Three operations are the least with one result collected, one being sent and one still polling |
| `plan` | 105 states of the cluster (no, one or two slices, IPv4 and IPv6, one or two ports and addresses, named and numeric target ports, headless or not, and one with a repeated id), Cloud Map empty or with instances of another cluster, another clusterset and an older version; one change | the loops meet the reference (`MeetsReference`); `DoneMeansExported`: no changes means all fields agree; `OneRoundSuffices`; `DoneMeansDistinct`: with a repeated id no round finds nothing to do; `OthersKept` |
| `export_lifecycle` | 2 endpoints (interchangeable), 1 export, 2 incarnations of the Service, 1 pod change, 1 error, 1 change by another cluster | `FinalizerHeldOrNoticed` (without its exception: copies are up to date when a reconciliation starts), `CleanedUpUnlessOverlooked`, `ForeignUntouched`, `RestMeansExportedUnlessOverlooked` through deletion, re-creation, garbage collection and partial failure |
| `export_converges` | 1 endpoint, importer, 1 pod change, 1 read error, from a settled state | `Converges` although the importer re-fills the cache with stale lists and a failed read drops the key; `CleanedUpUnlessOverlooked`, `RestMeansExportedUnlessOverlooked`: such a list costs no more than the endpoints it hid |
| `export_recovers` | 1 endpoint, 1 lost operation, 1 restart, lagging informers | `Converges`, `DeletionCompletes`; `FinalizerHeldOrNoticed` with outdated copies; `AckedIsApplied`, `CleanedUpUnlessOverlooked` and `RestMeansExportedUnlessOverlooked` although an earlier operation ends late, after a restart or the release of the finalizer |
| `cluster` | 2 values, 3 changes of properties, 1 export, 1 restart; the handlers of the exports and of the properties | `NeverUnidentified`, `CleanedUp` (unless a property got another value), `PropertiesReach`. Three changes: both ids are set and one is changed or removed. `Watches` is empty: two handlers are the least whose loads mix, and those of Services and EndpointSlices load the copy by the same steps; the theorems are for any `Watches` |
| `import` | 1 service, 2 clusters, 2 ports, 3 sets of endpoints per cluster, 3 changes, 1 failed request or restart | `OnlyAbsentRemoved` (imports, derived Services and slices), `ImportsConverge`. Three changes let a cluster come, go and come again, or two clusters come and one go; two clusters are the least with which one is removed while the service stays |
| `slices` | 3 addresses, 3 lists of ports (of which two differ in a name only), capacity 2, 2 changes, 1 failed request | `WithinCapacity` (also with two slices and aliased pointers); `RoundCompletes`: a round that finds at most one slice, whatever half-made round left it, and makes all its requests (two slices take more than one) leaves just what it was to import; `SlicesConverge`: endpoints that always fit one slice end up in it exactly |
| `slices_pointers` | 3 addresses, capacity 2, one change | **violation** of `OnlyUndesiredRemoved`: finding 1 |
| `export_leak_stale_cache` | 1 endpoint, importer | **violation** of `CleanedUpBeforeRelease`: finding 2 |
| `export_stale_informer` | 1 endpoint, 2 Services, informer lag | **violation** of `FinalizerHeld`: finding 3 |
| `import_status` | as `import`, 2 changes, no failure | **violation** of `StatusFollows`: finding 4 |

Why the bounds are enough to be of interest: one endpoint suffices for every
question about order between eviction, operation and list; two are needed for a
batch that fails half way. Two
incarnations are the least with which an object is mistaken for its predecessor.
One fault of a kind is enough to break a step; the safety results that are
proved hold for any number.

### Findings

1. With more than one slice (more than 100 endpoints of a cluster in one
   service) every pointer in `Current` is to the same slice. It is trimmed, then,
   visited again, marked for deletion, reused, and refilled with the endpoints
   of the slices the plan does not see; endpoints that were in it disappear. The
   next round does the same the other way round: the slices never settle, even
   when the endpoints fit one slice again later.
2. `RegisterEndpoints` and `DeleteEndpoints` evict the cached endpoints *before*
   `Await`; the importer's list in between caches the old instances, and "next
   list call reflects changes" (`client.go:162`) is not so for up to the TTL of
   five seconds (`export_converges` has such lists). Consequently `handleDelete`
   may see an empty list, delete nothing and remove the finalizer of an export
   whose instance is registered; nobody deregisters it any more. The same
   happens without the importer and its cache when a registration outlives its poll,
   or the controller restarts during one: `handleDelete` sees no instance, releases
   the finalizer, and the operation ends afterwards. (`CleanedUpBeforeRelease` is
   violated in that way under the constants of `ExportRecovers.cfg`, too;
   `CleanedUpUnlessOverlooked`, which that run checks, says that only such endpoints
   are left behind.)
3. The finalizer is looked for in the informer's copy. If `handleDelete` has
   just removed it because the Service was gone, and the Service comes back
   before the copy is updated, endpoints are registered for an export without
   finalizer.
4. `status.clusters` of a ServiceImport, "the list of exporting clusters from
   which this service was derived", is written when the import is created and
   never again: a cluster that joins later is missing in it, one that leaves
   stays. The annotation with the names of the derived Services has the same
   fate, and so has the type.
One more thing that the models show and no document of the repository speaks of:
`extractEndpoints` makes two endpoints with one id when two ports of a Service
have one target port (or when an endpoint stands in two slices).
`CalculateChanges` takes the first match out of its map, and the second of the two
is to be created although Cloud Map has it (`plan.go:35`). No reconciliation ends
with nothing to do (`DoneMeansDistinct`), and which of the two Service ports the
instance has depends on which was registered last.

What is left of the promises that findings 2 and 3 break is not little, and it is
checked with faults and proved for any number of them and with all of them together (`ExportHistory`): the
finalizer is missing only in a reconciliation that another one will follow, only
what a decision could not see outlives it, and a controller at rest has exported
everything else. `export_converges` and
`export_recovers` show that a stale list, a failed read, an outdated copy, a lost
operation or a restart does not keep an export from converging, and the latter
three not a deletion from completing.

## 4. Fairness

`Fairness` in `ServiceExport` is weak fairness of: the worker (a goroutine that
can run does), the importer's goroutine and its ticker, each goroutine of a
batch, the informers, the periodic resync (controller-runtime's default of ten
hours; `main.go` does not change it), the garbage collector, the passing of
each TTL, and the end of the operations Cloud Map has accepted. Users, errors,
lost answers, other clusters and restarts are never forced. `Converges` and
`DeletionCompletes` really need the resync: a failed read drops the key
(`serviceexport_controller.go:68`), and a stale cached list ends a
reconciliation with nothing to do.

In `ClusterUtils` the worker and the handlers of events (those of Services and
EndpointSlices once they have an event), the informer of the properties and the
resync are weakly fair: the informers hand out all objects every ten hours,
which repairs a value that an older list has overwritten. Users are never
forced: `PropertiesReach` only speaks of properties that are set.

In `CloudMapReconciler` the rounds (`RoundStep`), the informers and the garbage
collector are weakly fair; nothing forces Cloud Map to change, a request to fail
or the controller to restart. `ImportsConverge` needs no more: a round that ends
in an error is followed by another two seconds later.

In `EndpointSlices` only the importer's own steps are fair: its ticker never
stops.

In `OperationPoller` each goroutine is weakly fair, and the poll's timeout is
what ends a poll: nothing is assumed of Cloud Map there.

## 5. Proofs

All theorems are proved for every value of the constants: any set of endpoints
and contents, any bounds on faults, restarts and changes.

**OperationPollerProofs.** `PollerInv` adds to the type invariant that the
WaitGroup is the number of running goroutines, that caller, closer and
goroutines are at matching places (`ControlInv`: closed means all have exited),
and that the collected errors are those of the goroutines that have delivered,
each with the status it claims (`ResultInv`). From it follow `TypeCorrect`,
`PollerNoPanic`, `PollerCollectsAll`, `PollerNilMeansApplied`, and
`PollerRefinesBatch` (`Spec => BatchSpec`). None of these is inductive alone:
`NoPanic`, for one, needs to know who is still counted when the channel closes.
The set of operations is assumed finite (`Submit` is called finitely often).

**CloudMapClientProofs.** `WriteInv` = `BatchInv` (during a write, and only
then, there is a goroutine for exactly the requested endpoints) + `AckInv` (a
goroutine that polls, polls the operation under way; one that is done well has
its value in Cloud Map; an acknowledged endpoint has its value and no operation
under way that could change it) + `ForeignInv` (nothing is requested, under way
or acknowledged for endpoints of others).
The heart is the last clause of `AckInv`: an operation of an *earlier*, given-up
call could overwrite what a later call acknowledged. It cannot, because Cloud
Map refuses an operation on an instance that has one under way: the assumption
on which `AckedIsApplied` rests. The lemmas are about the client's steps,
whoever calls it, with one frame lemma for everything that leaves the relevant
variables alone.

**ServiceExportProofs.** `ExportInv` = `TypeOK` + `WriteInv` + `WorkerInv`
(the client's call has returned wherever the reconciler is outside one, and
`dels` are endpoints of this cluster). It gives `ExportTypeCorrect`,
`ExportAckedIsApplied` and `ExportForeignUntouched` for any interleaving with the
importer, faults and restarts.

**ExportCleanupProofs.** `ExportFinalizerHeldOrNoticed`,
`ExportCleanedUpUnlessOverlooked` and `ExportRestMeansExportedUnlessOverlooked` hold
for `SpecH` and every value of the constants: with and without importer and informer
lag, for any number of lost operations, refusals, failed reads and restarts. `SpecH`
implies `Spec` (`ImplementsSpec`), so that `ExportInv` can be used. The conjuncts of
the inductive invariants, and what each is for:

- `CallInv`: which call of the client is made at which step of `Reconcile`, that it
  has an outcome when it has returned, and that "not found" comes with no endpoints.
- `HeldInv`: the export that `handleUpdate` works for had the finalizer in the copy it
  started from; if it has it no more, that copy was outdated, and then the informer
  has not shown the change yet or has put the key back. That only this worker removes
  finalizers is what keeps it.
- `CoverInv`: from `delget` on, requests only delete; what `handleDelete` does not
  overlook is deleted, with no operation under way that could bring it back, when
  `release` is reached (Cloud Map refuses a second operation on an instance, and a
  deletion that succeeded was the last); and `handleUpdate` registers under the
  finalizer, or everything is overlooked.
- `SeenInv`, `PathInv`: the informer does not run ahead of the API server, and unless
  the key is in the queue, the reconciliation under way started from the informers'
  present copies.
- `WorkInv`: then each endpoint that is not overlooked is as the copies ask for, is
  being written so, or is in the plan's deletions still to come.

A restart needs no exception: caches and queue are gone, the informers hand out
everything, and an operation under way is either seen or, by the next decision,
overlooked.

**ClusterUtilsProofs.** `ClusterInv` adds to the types that every copy, list and
instance holds values a property has had (`KnownInv`), that a key is in the queue
or a worker at work only with a valid copy, which stays valid (`CopyInv`), that the
instance has both ids (`InstInv`), that the export is held while its endpoint may
be registered (`HeldInv`), and that, if no property got a second value,
`handleDelete` has found the instance when it releases the export (`ReleaseInv`).
It gives `ClusterNeverUnidentified`, `WorkerHasProperties` and `ClusterCleanedUp`
for any number of values, watches, changes, exports and restarts. The last says "unless a
property got a second value" with a cardinality, so that sets of values need to
be finite: `KnownInv` has that too.

**CloudMapReconcilerProofs.** `ImportInv` is `TypeOK`, with the variables of
`reconcileService` set exactly during it (`PlaceInv`); that existing imports of
services with endpoints are still in the loop's `todo` (`ExistingInv`), since
`reconcileNamespace` takes each out of the map when its turn is over, whether it
failed or not (`cloudmap_controller.go:111`); and that the
clusters in `absent` have no endpoints in what the round listed (`AbsentInv`).
`ImportOnlyAbsentRemoved` is an action property: each step that removes an import, a
derived Service or a slice has one of these clauses, or the garbage collector's
guard, to justify it; failed requests, restarts and lagging copies included.

**EndpointSlicesProofs.** `CapacityInv` adds to `WithinCapacity` that the plan's
objects are within capacity as well, and that the pointers in its lists are to
slices; a round writes those objects. `SlicesWithinCapacity` then holds for any
number of endpoints and slices, any order and any aliasing.

**PlanRoundsProofs.** `RoundTrip`: for any endpoint with an IPv4 or IPv6
address, of any texts, numbers and extra attributes other than the known keys,
the attributes written are those of an endpoint, and of that endpoint, in every
field. It rests on `CodecAssumption` (different numbers have different texts) and
on the extra attributes being disjoint from the known ones, since they are
written last. `ExtractedIsExported` shows that what `extractEndpoints` makes is of
this kind, from `KubeAssumption`: slices of addresses, not of names, with numbered
ports, and what the API server validates (numbers in range, unique port names).

The loop of `CalculateChanges` has `LoopInv`: the map lacks exactly the ids that
were visited, and each visited endpoint is to be written unless Cloud Map has it
as it is. That holds with repeated ids as well, and gives `PlanDoneMeansExported`
and `PlanOthersKept`; `RepeatInv` (of two visited endpoints with one id, the second
is in `Create`) gives `PlanDoneMeansDistinct`. For distinct ids `ExactInv` says which
endpoints are in `Create` and `Update` so far: `PlanMeetsReference`. `ApplyReaches`
then shows that a round of changes makes Cloud Map have just the desired endpoints
(here `RoundTrip` is needed), which `SettledInv` keeps until the cluster changes:
`PlanOneRoundSuffices`. No induction over lists is needed since the loop is in the
steps.

**Model-checked only.** Liveness (`AwaitTerminates`, `Converges`,
`DeletionCompletes`, `SlicesConverge`, `PropertiesReach`, `ImportsConverge`), which
needs fairness, and `RoundCompletes`. Every other safety property of a passing run
is proved.

## 6. What is not modelled

- Contents of imported endpoints beside the address in `EndpointSlices`:
  `trimSlices` keeps an existing endpoint as it is (`endpointslice_plan.go:93`), so
  that readiness and host name of an endpoint that stays are never updated.
- An outdated list of slices, with which a slice is created twice: that leads
  to the two slices of finding 1.
- Several namespaces and exports at once, and more than one imported service:
  the code keys queue, caches and objects by them, and they share nothing else.
  `DerivedName` is taken to be injective (`utils.go:158` hashes a concatenation
  without separators).
- Paging, and the limit of 1000 instances in `DiscoverInstances` (`api.go:129`):
  instances that are cut off are registered again and never cleaned up.
- Namespaces of an unsupported type, which `GetNamespaceMap` skips
  (`api.go:76`).
- FQDN slices, whose addresses are not written as an attribute and are lost on the
  way, and EndpointPorts without a number (`KubeAssumption` excludes both).
- A second cluster with the same pod addresses as an actor: ids have no part
  for the cluster, and the two would overwrite each other's instances.
- Rate limiting (only delays), logging, flags, metrics, generated code, the
  integration tests' tooling.

## 7. Plan

Modelled, in this order: `OperationPoller` (its promise `BatchAwait` is what the
client needs), `CloudMapClient`, `EndpointPlan` and `PlanRounds`, `ServiceExport`,
`EndpointSlices`, `CloudMapReconciler`, `ClusterUtils`, `EndpointAttributes`.
What is left:

1. `EndpointSlices`: contents of endpoints beside the address, and a list of
   slices that lags behind.
2. `ServiceExport`: "instances equal pods at rest" as an abstract specification, and
   the refinement (its safety part is `ExportRestMeansExportedUnlessOverlooked`).
