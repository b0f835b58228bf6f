---------------------------- MODULE ServiceExport ----------------------------
(***************************************************************************)
(* pkg/controllers/multicluster/serviceexport_controller.go for one        *)
(* ServiceExport name: the reconciler of the ServiceExport, the Service and*)
(* its EndpointSlices, over CloudMapClient and beside the importer.        *)
(*                                                                         *)
(* Kubernetes is external: the API server holds the objects, informers show*)
(* the reconciler a copy that lags behind (seen...), an Update of an outdated*)
(* copy is a conflict, an object with a finalizer is only marked when it is*)
(* deleted, and the garbage collector deletes the export of a Service that *)
(* is gone.  The work queue holds one key: events, resyncs and failed      *)
(* reconciliations put it back, also while it is being processed.          *)
(*                                                                         *)
(* Abstracted: the EndpointSlices are the endpoints extractEndpoints makes *)
(* of them (pods); the cluster properties are set and valid.               *)
(***************************************************************************)
EXTENDS CloudMapClient, EndpointPlan

CONSTANTS MaxExports,   \* bound: creations of the ServiceExport
          MaxServices,  \* bound: creations of the Service
          MaxPodChanges,\* bound: changes of the EndpointSlices
          MaxReadErrors,\* bound: reads of Kubernetes objects that fail
          MaxRestarts,  \* bound: restarts of the controller
          Importer,     \* does CloudMapReconciler run beside the exporter?
          InformerLag   \* may a reconciliation start from an outdated copy?

ASSUME ExportAssumption ==
  /\ MaxExports \in Nat /\ MaxServices \in Nat
  /\ MaxPodChanges \in Nat /\ MaxReadErrors \in Nat /\ MaxRestarts \in Nat
  /\ Importer \in BOOLEAN /\ InformerLag \in BOOLEAN

(* A ServiceExport: its incarnation (0: there is none), deletionTimestamp, *)
(* the finalizer, and the incarnation of the Service that owns it (0: none)*)
Exports == [gen : 0..MaxExports, deleting : BOOLEAN, fin : BOOLEAN,
            owner : 0..MaxServices]
NoExport == [gen |-> 0, deleting |-> FALSE, fin |-> FALSE, owner |-> 0]
Pods == [OwnIds -> Vals \cup {NoInst}]
NoPods == [i \in OwnIds |-> NoInst]

VARIABLES
  export, service, pods,             \* the objects in the API server
  seenExport, seenService, seenPods, \* the informers' copies
  exports, services,                 \* incarnations so far
  podChanges, readErrors, restarts,
  queued,                            \* is the key in the work queue?
  epc,                               \* where Reconcile is
  exp, svc,                          \* its copy of the export; the Service's incarnation
  dels                               \* changes.Delete

objectVars == <<export, service, pods>>
seenVars == <<seenExport, seenService, seenPods>>
countVars == <<exports, services, podChanges, readErrors, restarts>>
localVars == <<epc, exp, svc, dels>>
kubeVars == <<objectVars, seenVars, countVars, queued>>
vars == <<clientVars, kubeVars, localVars>>

UpdateSteps == {"owner", "get", "create", "reget", "register", "delete"}
DeleteSteps == {"delget", "deleps", "release"}

ExportTypeOK == export \in Exports /\ seenExport \in Exports /\ exp \in Exports
ServiceTypeOK == /\ service \in 0..MaxServices /\ seenService \in 0..MaxServices
                 /\ svc \in 0..MaxServices
                 /\ pods \in Pods /\ seenPods \in Pods
CountTypeOK == /\ exports \in 0..MaxExports /\ services \in 0..MaxServices
               /\ podChanges \in 0..MaxPodChanges /\ readErrors \in 0..MaxReadErrors
               /\ restarts \in 0..MaxRestarts
WorkTypeOK == /\ queued \in BOOLEAN
              /\ epc \in {"idle", "finalizer"} \cup UpdateSteps \cup DeleteSteps
              /\ dels \in SUBSET Ids

TypeOK == ClientTypeOK /\ ExportTypeOK /\ ServiceTypeOK /\ CountTypeOK /\ WorkTypeOK

Init == /\ ClientInit
        /\ export = NoExport /\ seenExport = NoExport /\ exp = NoExport
        /\ service = 0 /\ seenService = 0 /\ svc = 0
        /\ pods = NoPods /\ seenPods = NoPods
        /\ exports = 0 /\ services = 0 /\ podChanges = 0 /\ readErrors = 0
        /\ restarts = 0 /\ queued = FALSE
        /\ epc = "idle"
        /\ dels = {}

-----------------------------------------------------------------------------
(* The user and the cluster (external).                                    *)
CreateExport == /\ export.gen = 0 /\ exports < MaxExports
                /\ exports' = exports + 1
                /\ export' = [NoExport EXCEPT !.gen = exports + 1]
                /\ UNCHANGED <<service, pods, services, podChanges>>

(* What the API server does on a delete request.                           *)
DeleteObject == export' = IF export.fin THEN [export EXCEPT !.deleting = TRUE]
                                        ELSE NoExport

DeleteExport == /\ export.gen # 0 /\ ~export.deleting
                /\ DeleteObject
                /\ UNCHANGED <<service, pods, exports, services, podChanges>>

AddService == /\ service = 0 /\ services < MaxServices
              /\ services' = services + 1 /\ service' = services + 1
              /\ UNCHANGED <<export, pods, exports, podChanges>>

RemoveService == /\ service # 0
                 /\ service' = 0 /\ pods' = NoPods
                 /\ UNCHANGED <<export, exports, services, podChanges>>

ChangePods == /\ service # 0 /\ podChanges < MaxPodChanges
              /\ podChanges' = podChanges + 1
              /\ pods' \in Pods /\ pods' # pods
              /\ UNCHANGED <<export, service, exports, services>>

(* The garbage collector: the owner of the export is gone.                 *)
CollectGarbage == /\ export.gen # 0 /\ ~export.deleting
                  /\ export.owner \notin {0, service}
                  /\ DeleteObject
                  /\ UNCHANGED <<service, pods, exports, services, podChanges>>

Outside == /\ \/ CreateExport \/ DeleteExport \/ AddService \/ RemoveService
              \/ ChangePods \/ CollectGarbage
           /\ UNCHANGED <<clientVars, seenVars, readErrors, restarts, queued, localVars>>

(* Mutated form: no event of a Service or an EndpointSlice passes.         *)
HasServiceExportNever == FALSE

(* doesObjectHaveServiceExport, from the informer's copies.                *)
HasServiceExport == seenExport.gen # 0

(* An informer catches up and its event is handled: an event of the export *)
(* enqueues it, one of the Service or of an EndpointSlice does if there is *)
(* a ServiceExport of that name.                                           *)
ObserveExport == /\ seenExport # export
                 /\ seenExport' = export
                 /\ queued' = TRUE
                 /\ UNCHANGED <<seenService, seenPods>>

ObserveService == /\ seenService # service
                  /\ seenService' = service
                  /\ queued' = (queued \/ HasServiceExport)
                  /\ UNCHANGED <<seenExport, seenPods>>

ObserveEndpointSlices == /\ seenPods # pods
                         /\ seenPods' = pods
                         /\ queued' = (queued \/ HasServiceExport)
                         /\ UNCHANGED <<seenExport, seenService>>

Observe == /\ ObserveExport \/ ObserveService \/ ObserveEndpointSlices
           /\ UNCHANGED <<clientVars, objectVars, countVars, localVars>>

(* The informers' periodic resync (every 10 hours) enqueues every export.  *)
Resync == /\ seenExport.gen # 0 /\ ~queued
          /\ queued' = TRUE
          /\ UNCHANGED <<clientVars, objectVars, seenVars, countVars, localVars>>

CaughtUp == seenExport = export /\ seenService = service /\ seenPods = pods

-----------------------------------------------------------------------------
(* Control of Reconcile.                                                   *)
ClientRest == UNCHANGED <<cloudVars, cacheVars, batch, acked, faultVars>>
KubeRest == UNCHANGED <<seenVars, exports, services, podChanges, restarts, service, pods>>

(* A read through the Kubernetes client fails otherwise than with NotFound.*)
ReadFails == readErrors < MaxReadErrors /\ readErrors' = readErrors + 1

Returned == cpc["exporter"] = "idle"
Outcome == ret["exporter"]

(* Mutated form: NotFound is an error like any other.                      *)
IsUnknownAnyError(outcome) == outcome # "ok"

(* common.IsUnknown.                                                       *)
IsUnknown(outcome) == outcome = "unknown"

(* Mutated form: a failed reconciliation is not put back.                  *)
RequeueNever(err) == FALSE

(* A reconciliation that returns an error is put back (rate limited).      *)
Requeue(err) == err

EndReconcile(err) ==
  /\ epc' = "idle" /\ exp' = NoExport /\ svc' = 0 /\ dels' = {}
  /\ queued' = (queued \/ Requeue(err))
  /\ ret' = [ret EXCEPT !["exporter"] = "none"]
  /\ view' = [view EXCEPT !["exporter"] = Empty]
  /\ UNCHANGED <<cpc, fn, found, req>>

(* r.Client.Update(serviceExport) with the new object o, which the API     *)
(* server accepts if nobody changed the object since it was read.          *)
Update(o) == export = exp /\ export' = o
UpdateFails == /\ \/ export # exp /\ UNCHANGED faultVars
                  \/ export = exp /\ Refused
               /\ UNCHANGED export
               /\ EndReconcile(TRUE)

(* Mutated form: the finalizer is not added.                               *)
FinalizerNeverMissing(e) == FALSE

(* ~controllerutil.ContainsFinalizer.                                      *)
FinalizerMissing(e) == ~e.fin

(* handleUpdate up to its first Cloud Map call, from the copy e.           *)
Prepare(e) ==
  IF FinalizerMissing(e) THEN epc' = "finalizer" /\ NoCall
  ELSE IF e.owner = 0    THEN epc' = "owner" /\ NoCall
  ELSE epc' = "get" /\ CallGetService

-----------------------------------------------------------------------------
(* Reconcile: read the export and the Service, and take one of the two     *)
(* paths.  A missing Service marks the export as deleted.                  *)
Reconcile ==
  /\ epc = "idle" /\ queued
  /\ InformerLag \/ CaughtUp
  /\ queued' = FALSE
  /\ LET marked == seenExport.deleting \/ seenService = 0
     IN IF seenExport.gen = 0 \/ (marked /\ ~seenExport.fin)
        THEN UNCHANGED <<localVars, callVars, req>>
        ELSE /\ exp' = seenExport /\ svc' = seenService /\ dels' = {}
             /\ IF marked THEN epc' = "delget" /\ CallGetService
                          ELSE Prepare(seenExport)
  /\ UNCHANGED <<export, readErrors>> /\ KubeRest /\ ClientRest

(* A failed read of the export or the Service ends the reconciliation      *)
(* without an error, and nothing puts the key back; one of the cluster     *)
(* properties ends it with an error.                                       *)
ReconcileReadError ==
  /\ epc = "idle" /\ queued
  /\ ReadFails
  /\ \E err \in BOOLEAN : queued' = Requeue(err)
  /\ KubeRest /\ UNCHANGED <<clientVars, export, localVars>>

(* addFinalizerAndOwnerRef.                                                *)
AddFinalizer ==
  /\ epc = "finalizer"
  /\ \/ /\ Update([exp EXCEPT !.fin = TRUE])
        /\ exp' = [exp EXCEPT !.fin = TRUE]
        /\ Prepare([exp EXCEPT !.fin = TRUE])
        /\ UNCHANGED <<svc, dels, queued, faultVars>>
     \/ UpdateFails
  /\ KubeRest /\ UNCHANGED <<readErrors, cloudVars, cacheVars, batch, acked>>

SetOwnerRef ==
  /\ epc = "owner"
  /\ \/ /\ Update([exp EXCEPT !.owner = svc])
        /\ exp' = [exp EXCEPT !.owner = svc]
        /\ epc' = "get" /\ CallGetService
        /\ UNCHANGED <<svc, dels, queued, faultVars>>
     \/ UpdateFails
  /\ KubeRest /\ UNCHANGED <<readErrors, cloudVars, cacheVars, batch, acked>>

(* Mutated form: the endpoints of every cluster.                           *)
EndpointsOfAll(v) == v


(* cmService.GetEndpoints(clusterId): the endpoints of this cluster.       *)
EndpointsOfCluster(v) == [i \in Ids |-> IF i \in OwnIds THEN v[i] ELSE NoInst]

(* The rest of handleUpdate, with the service that Cloud Map returned:     *)
(* extract the endpoints, plan, register what is new or changed, then      *)
(* delete what is no longer there.                                         *)
ApplyPlan ==
  LET current == EndpointsOfCluster(view["exporter"])
      desired == [i \in Ids |-> IF i \in OwnIds THEN seenPods[i] ELSE NoInst]
      upserts == Creates(current, desired, NoInst) \cup Updates(current, desired, NoInst)
      deletes == Deletes(current, desired, NoInst)
  IN IF upserts # {}
     THEN /\ RegisterEndpoints([i \in Ids |-> IF i \in upserts THEN desired[i] ELSE NoOp])
          /\ epc' = "register" /\ dels' = deletes
          /\ UNCHANGED <<exp, svc, queued>>
     ELSE IF deletes # {}
     THEN /\ DeleteEndpoints(deletes)
          /\ epc' = "delete"
          /\ UNCHANGED <<exp, svc, dels, queued>>
     ELSE EndReconcile(FALSE)

(* With a service in hand, extractEndpoints may fail to list the slices.   *)
PlanOrFail == \/ ApplyPlan /\ UNCHANGED readErrors
              \/ ReadFails /\ EndReconcile(TRUE)

(* createOrGetCloudMapService.                                             *)
GotService ==
  /\ epc = "get" /\ Returned
  /\ \/ IsUnknown(Outcome) /\ EndReconcile(TRUE) /\ UNCHANGED readErrors
     \/ /\ ~IsUnknown(Outcome) /\ Outcome # "ok"
        /\ CallCreateService
        /\ epc' = "create" /\ UNCHANGED <<exp, svc, dels, queued, readErrors>>
     \/ Outcome = "ok" /\ PlanOrFail
  /\ UNCHANGED export /\ KubeRest /\ ClientRest

CreatedService ==
  /\ epc = "create" /\ Returned
  /\ \/ Outcome # "ok" /\ EndReconcile(TRUE)
     \/ /\ Outcome = "ok"
        /\ CallGetService
        /\ epc' = "reget" /\ UNCHANGED <<exp, svc, dels, queued>>
  /\ UNCHANGED <<export, readErrors>> /\ KubeRest /\ ClientRest

GotCreatedService ==
  /\ epc = "reget" /\ Returned
  /\ \/ Outcome # "ok" /\ EndReconcile(TRUE) /\ UNCHANGED readErrors
     \/ Outcome = "ok" /\ PlanOrFail
  /\ UNCHANGED export /\ KubeRest /\ ClientRest

RegisteredEndpoints ==
  /\ epc = "register" /\ Returned
  /\ \/ Outcome # "ok" /\ EndReconcile(TRUE)
     \/ Outcome = "ok" /\ dels = {} /\ EndReconcile(FALSE)
     \/ /\ Outcome = "ok" /\ dels # {}
        /\ DeleteEndpoints(dels)
        /\ epc' = "delete" /\ UNCHANGED <<exp, svc, dels, queued>>
  /\ UNCHANGED <<export, readErrors>> /\ KubeRest /\ ClientRest

DeletedEndpoints ==
  /\ epc = "delete" /\ Returned
  /\ EndReconcile(Outcome # "ok")
  /\ UNCHANGED <<export, readErrors>> /\ KubeRest /\ ClientRest

-----------------------------------------------------------------------------
(* handleDelete: the service as the client sees it, no service at all, or  *)
(* an error.                                                               *)
GotServiceToDelete ==
  /\ epc = "delget" /\ Returned
  /\ \/ IsUnknown(Outcome) /\ EndReconcile(TRUE)
     \/ /\ ~IsUnknown(Outcome) /\ Outcome # "ok"
        /\ epc' = "release" /\ NoCall /\ UNCHANGED <<exp, svc, dels, queued>>
     \/ /\ Outcome = "ok"
        /\ LET current == EndpointsOfCluster(view["exporter"])
           IN DeleteEndpoints({i \in Ids : current[i] # NoInst})
        /\ epc' = "deleps" /\ UNCHANGED <<exp, svc, dels, queued>>
  /\ UNCHANGED <<export, readErrors>> /\ KubeRest /\ ClientRest

(* Mutated form: the error of DeleteEndpoints is logged and ignored.       *)
CleanedUpAnyway(outcome) == TRUE
CleanedUp(outcome) == outcome = "ok"

DeletedAllEndpoints ==
  /\ epc = "deleps" /\ Returned
  /\ \/ ~CleanedUp(Outcome) /\ EndReconcile(TRUE)
     \/ /\ CleanedUp(Outcome)
        /\ epc' = "release" /\ NoCall /\ UNCHANGED <<exp, svc, dels, queued>>
  /\ UNCHANGED <<export, readErrors>> /\ KubeRest /\ ClientRest

(* The finalizer is removed; the API server then drops an export that is   *)
(* marked for deletion.                                                    *)
RemoveFinalizer ==
  /\ epc = "release"
  /\ \/ /\ Update(IF exp.deleting THEN NoExport ELSE [exp EXCEPT !.fin = FALSE])
        /\ EndReconcile(FALSE)
        /\ UNCHANGED faultVars
     \/ UpdateFails
  /\ KubeRest /\ UNCHANGED <<readErrors, cloudVars, cacheVars, batch, acked>>

-----------------------------------------------------------------------------
(* The importer lists the services every two seconds; what it does with the*)
(* answer does not touch the exporter.                                     *)
StartList == /\ Importer /\ cpc["importer"] = "idle"
             /\ CallListServices
             /\ ClientRest /\ UNCHANGED <<kubeVars, localVars>>

ReconcileStep ==
  \/ Reconcile \/ AddFinalizer \/ SetOwnerRef
  \/ GotService \/ CreatedService \/ GotCreatedService
  \/ RegisteredEndpoints \/ DeletedEndpoints
  \/ GotServiceToDelete \/ DeletedAllEndpoints \/ RemoveFinalizer

(* The controller is killed and started again, or another replica takes the*)
(* lead: the caches, the queue, the calls and the goroutines are gone, what*)
(* Cloud Map has accepted goes on.  The informers list every object before *)
(* the worker starts, and every export is enqueued.                        *)
Restart ==
  /\ restarts < MaxRestarts /\ restarts' = restarts + 1
  /\ nsCache' = "miss" /\ svcCache' = "miss"
  /\ epCache' = [hit |-> FALSE, view |-> Empty]
  /\ cpc' = [t \in Threads |-> "idle"] /\ fn' = [t \in Threads |-> "none"]
  /\ found' = [t \in Threads |-> FALSE] /\ view' = [t \in Threads |-> Empty]
  /\ ret' = [t \in Threads |-> "none"]
  /\ req' = [i \in Ids |-> NoOp] /\ batch' = [i \in Ids |-> "none"]
  /\ seenExport' = export /\ seenService' = service /\ seenPods' = pods
  /\ queued' = (export.gen # 0)
  /\ epc' = "idle" /\ exp' = NoExport /\ svc' = 0 /\ dels' = {}
  /\ UNCHANGED <<cloudVars, acked, faultVars, objectVars, exports, services,
                 podChanges, readErrors>>

Client == ClientStep /\ UNCHANGED <<kubeVars, localVars>>

(* The worker has nothing to do, the informers have caught up and no       *)
(* operation is under way: the controller waits for the next event.        *)
AtRest == /\ epc = "idle" /\ ~queued /\ CaughtUp
          /\ \A i \in OwnIds : pend[i] = NoOp
WaitForEvent == AtRest /\ UNCHANGED vars

Next == Outside \/ Observe \/ Resync \/ ReconcileStep \/ ReconcileReadError
        \/ StartList \/ Client \/ Restart \/ WaitForEvent

Spec == Init /\ [][Next]_vars

(* Every goroutine that can run runs, informers catch up, resyncs come, the*)
(* garbage collector works, TTLs pass, and Cloud Map ends the operations it*)
(* has accepted.  Nobody has to create, change or delete anything, and no  *)
(* error is bound to happen.                                               *)
Rest == UNCHANGED <<kubeVars, localVars>>
ExporterRuns == \/ ReconcileStep
                \/ (CallStep("exporter") \/ WriterStep("exporter")) /\ Rest
ImporterRuns == StartList \/ (CallStep("importer") /\ Rest)

Fairness ==
  /\ WF_vars(ExporterRuns) /\ WF_vars(ImporterRuns)
  /\ \A i \in OwnIds : WF_vars(RequestWrite(i) /\ Rest) /\ WF_vars(OperationEnds(i) /\ Rest)
  /\ WF_vars(NamespaceOperationEnds /\ Rest)
  /\ WF_vars(ExpireNamespaceMap /\ Rest) /\ WF_vars(ExpireServiceIdMap /\ Rest)
  /\ WF_vars(ExpireEndpoints /\ Rest)
  /\ WF_vars(Observe) /\ WF_vars(Resync) /\ WF_vars(Outside /\ CollectGarbage)

FairSpec == Spec /\ Fairness

-----------------------------------------------------------------------------
(* The instances this cluster should have in Cloud Map.                    *)
Exported == export.gen # 0 /\ ~export.deleting /\ service # 0
Target == IF Exported THEN pods ELSE NoPods
OwnInstances == [i \in OwnIds |-> inst[i]]

(* "Add the finalizer to the service export if not present, ensures the    *)
(* ServiceExport won't be deleted" (serviceexport_controller.go:153): while*)
(* handleUpdate works on Cloud Map, the export it works for is there and   *)
(* has the finalizer, whatever users and the garbage collector do.         *)
FinalizerHeld ==
  epc \in UpdateSteps => export.gen # 0 /\ export.gen = exp.gen /\ export.fin

(* "finalizer to perform cloudmap resource cleanup on delete" (utils.go:24)*)
(* : as long as Cloud Map has an instance of this cluster, or is about to  *)
(* register one, the export is there and has the finalizer.                *)
CleanedUpBeforeRelease ==
  (\E i \in OwnIds : inst[i] # NoInst \/ pend[i] \in Vals) => export.gen # 0 /\ export.fin

(* The controller never writes an instance of another cluster: GetEndpoints*)
(* selects the endpoints of this cluster.                                  *)
ForeignUntouched == \A i \in ForeignIds : batch[i] = "none" /\ pend[i] = NoOp

(* A Service that stays exported is in the end what Cloud Map has, whatever*)
(* stale answers, errors and lost operations came before: the resync and   *)
(* the TTLs see to it.                                                     *)
Converges == <>[]Exported => <>[](OwnInstances = pods)

(* A marked export goes away: its finalizer does not hold it forever.      *)
DeletionCompletes == export.deleting ~> ~export.deleting
=============================================================================
