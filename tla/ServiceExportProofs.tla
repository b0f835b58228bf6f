------------------------- MODULE ServiceExportProofs -------------------------
(***************************************************************************)
(* What holds of ServiceExport for every set of endpoints and every bound: *)
(* its types, that a write which returned nil is applied, and that no      *)
(* instance of another cluster is written.                                 *)
(***************************************************************************)
EXTENDS ServiceExport, CloudMapClientProofs

(* Beside the types and the bookkeeping of the writes: no call is under way*)
(* at the steps of Reconcile that are not waiting for one, and what is to  *)
(* be deleted belongs to this cluster.                                     *)
WorkerInv == /\ epc \in {"idle", "finalizer", "owner", "release"} => Returned
             /\ dels \subseteq OwnIds

ExportInv == TypeOK /\ WriteInv /\ WorkerInv

(* What the part of a reconciler's action that deals with the client and   *)
(* with its own variables has to show.                                     *)
CallOK == /\ CallTypeOK' /\ found' = found /\ req' \in Targets
          /\ \A i \in ForeignIds : req'[i] = NoOp
          /\ ~Writing'
WorkOK == WorkTypeOK' /\ WorkerInv' /\ exp' \in Exports /\ svc' \in 0..MaxServices

LEMMA ReconcilerFrame ==
  ASSUME ExportInv, Returned, CallOK, WorkOK, FaultTypeOK', CountTypeOK',
         export' \in Exports,
         UNCHANGED <<cloudVars, cacheVars, batch, acked, seenVars, service, pods>>
  PROVE  ExportInv'
<1>1. ClientTypeOK'
  BY DEF ExportInv, TypeOK, ClientTypeOK, CloudTypeOK, CacheTypeOK, WriteTypeOK,
         CallOK, cloudVars, cacheVars
<1>2. ExportTypeOK' /\ ServiceTypeOK'
  BY DEF ExportInv, TypeOK, ExportTypeOK, ServiceTypeOK, WorkOK, seenVars
<1>3. WriteInv'
  <2>1. ~Writing BY DEF Returned, Writing
  <2> QED BY <2>1 DEF ExportInv, WriteInv, BatchInv, AckInv, ForeignInv, CallOK, cloudVars
<1> QED BY <1>1, <1>2, <1>3 DEF ExportInv, TypeOK, WorkOK

LEMMA EndReconcileOK ==
  ASSUME ExportInv, Returned, NEW err \in BOOLEAN, EndReconcile(err)
  PROVE  CallOK /\ WorkOK
<1> USE DEF ExportInv, TypeOK, ClientTypeOK
<1>1. CallTypeOK' BY EmptyType DEF EndReconcile, CallTypeOK
<1>2. exp' \in Exports
  <2>1. NoExport \in Exports BY ExportAssumption DEF NoExport, Exports
  <2> QED BY <2>1 DEF EndReconcile
<1>3. queued' \in BOOLEAN BY DEF EndReconcile, Requeue, WorkTypeOK
<1>4. WorkTypeOK' /\ WorkerInv' BY <1>3 DEF EndReconcile, WorkTypeOK, WorkerInv, Returned
<1>5. svc' \in 0..MaxServices BY ExportAssumption DEF EndReconcile
<1>6. req' = req /\ ~Writing' BY DEF EndReconcile, Writing, Returned
<1> QED BY <1>1, <1>2, <1>4, <1>5, <1>6
        DEF EndReconcile, CallOK, WorkOK, WriteTypeOK, WriteInv, ForeignInv

LEMMA NoCallOK == ASSUME ExportInv, Returned, NoCall PROVE CallOK /\ Returned'
BY DEF ExportInv, TypeOK, ClientTypeOK, CallTypeOK, WriteTypeOK, WriteInv, ForeignInv,
       Writing, Returned, NoCall, CallOK

LEMMA GetServiceOK == ASSUME ExportInv, CallGetService PROVE CallOK
<1>1. CallTypeOK' /\ found' = found /\ req' = req
  BY CallsType DEF ExportInv, TypeOK
<1>2. ~Writing'
  BY DEF CallGetService, Return, Call, Writing, ExportInv, TypeOK, ClientTypeOK,
         CallTypeOK, Threads
<1> QED BY <1>1, <1>2
        DEF ExportInv, TypeOK, ClientTypeOK, WriteTypeOK, WriteInv, ForeignInv, CallOK

LEMMA CreateServiceOK == ASSUME ExportInv, CallCreateService PROVE CallOK
<1>1. CallTypeOK' /\ found' = found /\ req' = req
  BY CallsType DEF ExportInv, TypeOK
<1>2. ~Writing'
  BY DEF CallCreateService, Call, Writing, ExportInv, TypeOK, ClientTypeOK,
         CallTypeOK, Threads
<1> QED BY <1>1, <1>2
        DEF ExportInv, TypeOK, ClientTypeOK, WriteTypeOK, WriteInv, ForeignInv, CallOK

(* A write of endpoints of this cluster only.                              *)
LEMMA WriteOK ==
  ASSUME ExportInv, NEW f \in Calls, NEW r \in Targets,
         \A i \in ForeignIds : r[i] = NoOp,
         CallWrite(f, r)
  PROVE  CallOK
<1>1. CallTypeOK' /\ found' = found /\ req' \in Targets
  BY CallsType DEF ExportInv, TypeOK
<1>2. ~Writing' /\ (req' = req \/ req' = r)
  BY DEF CallWrite, Return, Call, Writing, ExportInv, TypeOK, ClientTypeOK,
         CallTypeOK, Threads
<1> QED BY <1>1, <1>2 DEF ExportInv, WriteInv, ForeignInv, CallOK

LEMMA DeleteEndpointsOK ==
  ASSUME ExportInv, NEW S \in SUBSET OwnIds, DeleteEndpoints(S)
  PROVE  CallOK
<1> DEFINE r == [i \in Ids |-> IF i \in S THEN NoInst ELSE NoOp]
<1>1. r \in Targets BY DEF Targets
<1>2. \A i \in ForeignIds : r[i] = NoOp BY ClientAssumption DEF Ids
<1>3. "delete" \in Calls BY DEF Calls
<1>4. CallWrite("delete", r) BY DEF DeleteEndpoints
<1> HIDE DEF r
<1> QED BY <1>1, <1>2, <1>3, <1>4, WriteOK

LEMMA RegisterEndpointsOK ==
  ASSUME ExportInv, NEW r \in Targets, \A i \in ForeignIds : r[i] = NoOp,
         RegisterEndpoints(r)
  PROVE  CallOK
<1>1. "register" \in Calls BY DEF Calls
<1> QED BY <1>1, WriteOK DEF RegisterEndpoints

LEMMA PrepareOK ==
  ASSUME ExportInv, Returned, NEW e \in Exports, Prepare(e)
  PROVE  /\ CallOK
         /\ epc' \in {"finalizer", "owner", "get"}
         /\ epc' \in {"finalizer", "owner"} => Returned'
BY GetServiceOK, NoCallOK DEF Prepare

(* The steps of the reconciler that come after the start.                  *)
LEMMA StepOK ==
  ASSUME ExportInv, UNCHANGED <<exp, svc, queued>>, dels' \in SUBSET OwnIds,
         epc' \in {"finalizer"} \cup UpdateSteps \cup DeleteSteps,
         epc' \in {"finalizer", "owner", "release"} => Returned'
  PROVE  WorkOK
<1>1. queued' \in BOOLEAN BY DEF ExportInv, TypeOK, WorkTypeOK
<1>2. WorkTypeOK' BY <1>1 DEF WorkTypeOK, Ids
<1>3. WorkerInv' BY DEF WorkerInv, UpdateSteps, DeleteSteps
<1> QED BY <1>2, <1>3 DEF WorkOK, ExportInv, TypeOK, ExportTypeOK, ServiceTypeOK

(* The plan registers and deletes endpoints of this cluster only, since    *)
(* both lists it compares hold no other.                                   *)
LEMMA ApplyPlanOK ==
  ASSUME ExportInv, Returned, ApplyPlan
  PROVE  CallOK /\ WorkOK
<1> DEFINE current == EndpointsOfCluster(view["exporter"])
           desired == [i \in Ids |-> IF i \in OwnIds THEN seenPods[i] ELSE NoInst]
           upserts == Creates(current, desired, NoInst)
                        \cup Updates(current, desired, NoInst)
           deletes == Deletes(current, desired, NoInst)
           r == [i \in Ids |-> IF i \in upserts THEN desired[i] ELSE NoOp]
<1>1. deletes \in SUBSET OwnIds BY DEF Deletes, EndpointsOfCluster
<1>2. upserts \in SUBSET OwnIds BY DEF Creates, Updates
<1>3. r \in Targets
  BY <1>2 DEF ExportInv, TypeOK, ServiceTypeOK, Pods, Targets
<1>4. \A i \in ForeignIds : r[i] = NoOp BY <1>2, ClientAssumption DEF Ids
<1>5. \/ /\ RegisterEndpoints(r)
         /\ epc' = "register" /\ dels' = deletes /\ UNCHANGED <<exp, svc, queued>>
      \/ /\ DeleteEndpoints(deletes)
         /\ epc' = "delete" /\ UNCHANGED <<exp, svc, dels, queued>>
      \/ EndReconcile(FALSE)
  BY DEF ApplyPlan
<1>6. dels \in SUBSET OwnIds BY DEF ExportInv, WorkerInv
<1> HIDE DEF r, deletes
<1>7. CASE /\ RegisterEndpoints(r)
           /\ epc' = "register" /\ dels' = deletes /\ UNCHANGED <<exp, svc, queued>>
  BY <1>1, <1>3, <1>4, <1>7, RegisterEndpointsOK, StepOK DEF UpdateSteps
<1>8. CASE /\ DeleteEndpoints(deletes)
           /\ epc' = "delete" /\ UNCHANGED <<exp, svc, dels, queued>>
  BY <1>1, <1>6, <1>8, DeleteEndpointsOK, StepOK DEF UpdateSteps
<1>9. CASE EndReconcile(FALSE) BY <1>9, EndReconcileOK
<1> QED BY <1>5, <1>7, <1>8, <1>9

-----------------------------------------------------------------------------
(* The actions of the reconciler.                                          *)
LEMMA ReconcileInv ==
  ASSUME ExportInv, Reconcile
  PROVE  ExportInv'
<1>1. Returned BY DEF Reconcile, ExportInv, WorkerInv
<1>2. /\ UNCHANGED <<cloudVars, cacheVars, batch, acked, seenVars, service, pods>>
      /\ UNCHANGED <<export, readErrors, exports, services, podChanges, restarts, faultVars>>
      /\ queued' \in BOOLEAN
  BY DEF Reconcile, KubeRest, ClientRest
<1>3. FaultTypeOK' /\ CountTypeOK' /\ export' \in Exports
  BY <1>2 DEF ExportInv, TypeOK, ClientTypeOK, FaultTypeOK, CountTypeOK, ExportTypeOK,
              faultVars
<1>4. CASE UNCHANGED <<localVars, callVars, req>>
  <2>1. CallOK
    BY <1>1, <1>4, NoCallOK DEF NoCall, callVars
  <2>2. WorkOK
    BY <1>2, <1>4 DEF WorkOK, WorkTypeOK, WorkerInv, Returned, localVars, callVars,
       ExportInv, TypeOK, ExportTypeOK, ServiceTypeOK
  <2> QED BY <1>1, <1>2, <1>3, <2>1, <2>2, ReconcilerFrame
<1>5. CASE /\ exp' = seenExport /\ svc' = seenService /\ dels' = {}
           /\ \/ epc' = "delget" /\ CallGetService
              \/ Prepare(seenExport)
  <2>1. seenExport \in Exports /\ seenService \in 0..MaxServices
    BY DEF ExportInv, TypeOK, ExportTypeOK, ServiceTypeOK
  <2>2. CallOK
    BY <1>1, <1>5, <2>1, GetServiceOK, PrepareOK
  <2>3. epc' \in {"finalizer", "owner", "get", "delget"}
    BY <1>1, <1>5, <2>1, PrepareOK
  <2>4. epc' \in {"finalizer", "owner"} => Returned'
    BY <1>1, <1>5, <2>1, PrepareOK
  <2>5. WorkOK
    BY <1>2, <1>5, <2>1, <2>3, <2>4
       DEF WorkOK, WorkTypeOK, WorkerInv, UpdateSteps, DeleteSteps
  <2> QED BY <1>1, <1>2, <1>3, <2>2, <2>5, ReconcilerFrame
<1> QED BY <1>4, <1>5 DEF Reconcile

LEMMA ReconcileReadErrorInv ==
  ASSUME ExportInv, ReconcileReadError
  PROVE  ExportInv'
<1> USE DEF ReconcileReadError, KubeRest, clientVars
<1>1. Returned BY DEF ExportInv, WorkerInv
<1>2. CallOK BY <1>1, NoCallOK DEF NoCall, callVars, writeVars
<1>3. CountTypeOK'
  BY ExportAssumption DEF ReadFails, ExportInv, TypeOK, CountTypeOK
<1>4. queued' \in BOOLEAN BY DEF Requeue
<1>5. WorkOK
  BY <1>4 DEF WorkOK, WorkTypeOK, WorkerInv, Returned, localVars, callVars,
              ExportInv, TypeOK, ExportTypeOK, ServiceTypeOK
<1>6. FaultTypeOK' /\ export' \in Exports
  BY DEF ExportInv, TypeOK, ClientTypeOK, FaultTypeOK, ExportTypeOK, faultVars
<1>7. UNCHANGED <<cloudVars, cacheVars, batch, acked, seenVars, service, pods>>
  BY DEF writeVars
<1> QED BY <1>1, <1>2, <1>3, <1>5, <1>6, <1>7, ReconcilerFrame

(* What the actions between two calls leave alone.                         *)
LEMMA BetweenCalls ==
  ASSUME ExportInv, KubeRest, ClientRest, UNCHANGED export,
         readErrors' = readErrors \/ ReadFails
  PROVE  /\ FaultTypeOK' /\ CountTypeOK' /\ export' \in Exports
         /\ UNCHANGED <<cloudVars, cacheVars, batch, acked, seenVars, service, pods>>
<1>1. CountTypeOK'
  BY ExportAssumption DEF KubeRest, ReadFails, ExportInv, TypeOK, CountTypeOK
<1>2. FaultTypeOK' /\ export' \in Exports
  BY DEF ClientRest, ExportInv, TypeOK, ClientTypeOK, FaultTypeOK, ExportTypeOK, faultVars
<1> QED BY <1>1, <1>2 DEF KubeRest, ClientRest

LEMMA UpdatePathInv ==
  ASSUME ExportInv,
         GotService \/ CreatedService \/ GotCreatedService \/ RegisteredEndpoints
           \/ DeletedEndpoints
  PROVE  ExportInv'
<1>a. dels \in SUBSET OwnIds BY DEF ExportInv, WorkerInv
<1>b. Returned
  BY DEF GotService, CreatedService, GotCreatedService, RegisteredEndpoints,
         DeletedEndpoints
<1>c. /\ KubeRest /\ ClientRest /\ UNCHANGED export
      /\ readErrors' = readErrors \/ ReadFails
  BY DEF GotService, CreatedService, GotCreatedService, RegisteredEndpoints,
         DeletedEndpoints, PlanOrFail
<1>d. ASSUME CallOK, WorkOK PROVE ExportInv'
  BY <1>b, <1>c, <1>d, BetweenCalls, ReconcilerFrame
<1>e. ASSUME NEW err \in BOOLEAN, EndReconcile(err) PROVE ExportInv'
  BY <1>b, <1>d, <1>e, EndReconcileOK
<1>f. ASSUME PlanOrFail PROVE ExportInv'
  BY <1>b, <1>d, <1>e, <1>f, ApplyPlanOK DEF PlanOrFail
<1>1. CASE GotService
  <2>1. CASE CallCreateService /\ epc' = "create" /\ UNCHANGED <<exp, svc, dels, queued>>
    BY <1>a, <1>d, <2>1, CreateServiceOK, StepOK DEF UpdateSteps
  <2> QED BY <1>1, <1>e, <1>f, <2>1 DEF GotService
<1>2. CASE CreatedService
  <2>1. CASE CallGetService /\ epc' = "reget" /\ UNCHANGED <<exp, svc, dels, queued>>
    BY <1>a, <1>d, <2>1, GetServiceOK, StepOK DEF UpdateSteps
  <2> QED BY <1>2, <1>e, <2>1 DEF CreatedService
<1>3. CASE GotCreatedService BY <1>3, <1>e, <1>f DEF GotCreatedService
<1>4. CASE RegisteredEndpoints
  <2>1. CASE DeleteEndpoints(dels) /\ epc' = "delete" /\ UNCHANGED <<exp, svc, dels, queued>>
    BY <1>a, <1>d, <2>1, DeleteEndpointsOK, StepOK DEF UpdateSteps
  <2> QED BY <1>4, <1>e, <2>1 DEF RegisteredEndpoints
<1>5. CASE DeletedEndpoints
  <2>1. (Outcome # "ok") \in BOOLEAN OBVIOUS
  <2> QED BY <1>5, <1>e, <2>1 DEF DeletedEndpoints
<1> QED BY <1>1, <1>2, <1>3, <1>4, <1>5

LEMMA DeletePathInv ==
  ASSUME ExportInv, GotServiceToDelete \/ DeletedAllEndpoints
  PROVE  ExportInv'
<1>a. dels \in SUBSET OwnIds BY DEF ExportInv, WorkerInv
<1>b. Returned BY DEF GotServiceToDelete, DeletedAllEndpoints
<1>c. KubeRest /\ ClientRest /\ UNCHANGED <<export, readErrors>>
  BY DEF GotServiceToDelete, DeletedAllEndpoints
<1>d. ASSUME CallOK, WorkOK PROVE ExportInv'
  BY <1>b, <1>c, <1>d, BetweenCalls, ReconcilerFrame
<1>1. CASE EndReconcile(TRUE) BY <1>b, <1>d, <1>1, EndReconcileOK
<1>2. CASE epc' = "release" /\ NoCall /\ UNCHANGED <<exp, svc, dels, queued>>
  <2>1. CallOK /\ Returned' BY <1>b, <1>2, NoCallOK
  <2>2. WorkOK BY <1>a, <1>2, <2>1, StepOK DEF DeleteSteps
  <2> QED BY <1>d, <2>1, <2>2
<1>3. CASE GotServiceToDelete /\ epc' = "deleps" /\ UNCHANGED <<exp, svc, dels, queued>>
  <2> DEFINE current == EndpointsOfCluster(view["exporter"])
             S == {i \in Ids : current[i] # NoInst}
  <2>1. S \in SUBSET OwnIds BY DEF EndpointsOfCluster
  <2>2. DeleteEndpoints(S) BY <1>3 DEF GotServiceToDelete, EndReconcile
  <2> HIDE DEF S
  <2>3. CallOK BY <2>1, <2>2, DeleteEndpointsOK
  <2>4. WorkOK BY <1>a, <1>3, StepOK DEF DeleteSteps
  <2> QED BY <1>d, <2>3, <2>4
<1> QED BY <1>1, <1>2, <1>3 DEF GotServiceToDelete, DeletedAllEndpoints

LEMMA ObjectUpdateInv ==
  ASSUME ExportInv, AddFinalizer \/ SetOwnerRef \/ RemoveFinalizer
  PROVE  ExportInv'
<1>a. dels \in SUBSET OwnIds /\ exp \in Exports /\ svc \in 0..MaxServices
  BY DEF ExportInv, WorkerInv, TypeOK, ExportTypeOK, ServiceTypeOK
<1>b. Returned
  BY DEF AddFinalizer, SetOwnerRef, RemoveFinalizer, ExportInv, WorkerInv
<1>c. UNCHANGED <<cloudVars, cacheVars, batch, acked, seenVars, service, pods>>
  BY DEF AddFinalizer, SetOwnerRef, RemoveFinalizer, KubeRest
<1>d. CountTypeOK'
  BY DEF AddFinalizer, SetOwnerRef, RemoveFinalizer, KubeRest, ExportInv, TypeOK,
         CountTypeOK
<1>e. FaultTypeOK'
  <2>1. UNCHANGED faultVars \/ Refused
    BY DEF AddFinalizer, SetOwnerRef, RemoveFinalizer, UpdateFails
  <2> QED BY <2>1, RefusedType
          DEF ExportInv, TypeOK, ClientTypeOK, FaultTypeOK, faultVars
<1>f. ASSUME CallOK, WorkOK, export' \in Exports PROVE ExportInv'
  BY <1>b, <1>c, <1>d, <1>e, <1>f, ReconcilerFrame
<1>1. CASE UpdateFails
  BY <1>1, <1>b, <1>f, EndReconcileOK
     DEF UpdateFails, ExportInv, TypeOK, ExportTypeOK
<1>2. CASE AddFinalizer /\ ~UpdateFails
  <2> DEFINE e == [exp EXCEPT !.fin = TRUE]
  <2>1. e \in Exports BY <1>a DEF Exports
  <2>2. /\ export' = e /\ exp' = e /\ Prepare(e)
        /\ UNCHANGED <<svc, dels, queued>>
    BY <1>2 DEF AddFinalizer, Update
  <2> HIDE DEF e
  <2>3. /\ CallOK /\ epc' \in {"finalizer", "owner", "get"}
        /\ epc' \in {"finalizer", "owner"} => Returned'
    BY <1>b, <2>1, <2>2, PrepareOK
  <2>4. queued' \in BOOLEAN BY <2>2 DEF ExportInv, TypeOK, WorkTypeOK
  <2>5. WorkOK
    BY <1>a, <2>1, <2>2, <2>3, <2>4
       DEF WorkOK, WorkTypeOK, WorkerInv, UpdateSteps, Ids
  <2> QED BY <1>f, <2>1, <2>2, <2>3, <2>5
<1>3. CASE SetOwnerRef /\ ~UpdateFails
  <2> DEFINE e == [exp EXCEPT !.owner = svc]
  <2>1. e \in Exports BY <1>a DEF Exports
  <2>2. /\ export' = e /\ exp' = e /\ epc' = "get" /\ CallGetService
        /\ UNCHANGED <<svc, dels, queued>>
    BY <1>3 DEF SetOwnerRef, Update
  <2> HIDE DEF e
  <2>3. CallOK BY <2>2, GetServiceOK
  <2>4. queued' \in BOOLEAN BY <2>2 DEF ExportInv, TypeOK, WorkTypeOK
  <2>5. WorkOK
    BY <1>a, <2>1, <2>2, <2>4 DEF WorkOK, WorkTypeOK, WorkerInv, UpdateSteps, Ids
  <2> QED BY <1>f, <2>1, <2>2, <2>3, <2>5
<1>4. CASE RemoveFinalizer /\ ~UpdateFails
  <2>1. NoExport \in Exports BY ExportAssumption DEF NoExport, Exports
  <2>2. [exp EXCEPT !.fin = FALSE] \in Exports BY <1>a DEF Exports
  <2>3. export' \in Exports BY <1>4, <2>1, <2>2 DEF RemoveFinalizer, Update
  <2>4. EndReconcile(FALSE) BY <1>4 DEF RemoveFinalizer
  <2> QED BY <1>b, <1>f, <2>3, <2>4, EndReconcileOK
<1> QED BY <1>1, <1>2, <1>3, <1>4

-----------------------------------------------------------------------------
(* The user, the cluster, the informers and the importer.                  *)
LEMMA ClientKept ==
  ASSUME ExportInv, UNCHANGED <<clientVars, epc, dels>>
  PROVE  ClientTypeOK' /\ WriteInv' /\ WorkerInv'
<1> USE DEF ExportInv, clientVars, cloudVars, cacheVars, callVars, writeVars, faultVars
<1>1. ClientTypeOK'
  BY DEF TypeOK, ClientTypeOK, CloudTypeOK, CacheTypeOK, CallTypeOK, WriteTypeOK,
         FaultTypeOK
<1>2. WriteInv' BY WriteInvFrame DEF Writing
<1>3. WorkerInv' BY DEF WorkerInv, Returned
<1> QED BY <1>1, <1>2, <1>3

LEMMA OutsideInv ==
  ASSUME ExportInv, Outside
  PROVE  ExportInv'
<1>1. ClientTypeOK' /\ WriteInv' /\ WorkerInv'
  BY ClientKept DEF Outside, localVars
<1>2. WorkTypeOK' BY DEF Outside, localVars, ExportInv, TypeOK, WorkTypeOK
<1>3. export' \in Exports
  <2>1. NoExport \in Exports BY ExportAssumption DEF NoExport, Exports
  <2>2. export \in Exports BY DEF ExportInv, TypeOK, ExportTypeOK
  <2>3. CASE CreateExport
    <3>1. exports + 1 \in 0..MaxExports
      BY <2>3, ExportAssumption DEF CreateExport, ExportInv, TypeOK, CountTypeOK
    <3> QED BY <2>1, <2>3, <3>1 DEF CreateExport, Exports
  <2>4. CASE DeleteObject BY <2>1, <2>2, <2>4 DEF DeleteObject, Exports
  <2>5. CASE UNCHANGED export BY <2>2, <2>5
  <2> QED BY <2>3, <2>4, <2>5
          DEF Outside, DeleteExport, AddService, RemoveService, ChangePods, CollectGarbage
<1>4. ExportTypeOK'
  BY <1>3 DEF Outside, localVars, seenVars, ExportInv, TypeOK, ExportTypeOK
<1>5. ServiceTypeOK'
  <2>1. pods' \in Pods
    BY DEF Outside, CreateExport, DeleteExport, AddService, RemoveService, ChangePods,
           CollectGarbage, NoPods, Pods, ExportInv, TypeOK, ServiceTypeOK
  <2>2. service' \in 0..MaxServices
    BY ExportAssumption
       DEF Outside, CreateExport, DeleteExport, AddService, RemoveService, ChangePods,
           CollectGarbage, ExportInv, TypeOK, ServiceTypeOK, CountTypeOK
  <2> QED BY <2>1, <2>2
          DEF Outside, localVars, seenVars, ExportInv, TypeOK, ServiceTypeOK
<1>6. CountTypeOK'
  BY ExportAssumption
     DEF Outside, CreateExport, DeleteExport, AddService, RemoveService, ChangePods,
         CollectGarbage, ExportInv, TypeOK, CountTypeOK
<1> QED BY <1>1, <1>2, <1>4, <1>5, <1>6 DEF ExportInv, TypeOK

LEMMA ObserveInv ==
  ASSUME ExportInv, Observe \/ Resync
  PROVE  ExportInv'
<1> USE DEF Observe, Resync, ObserveExport, ObserveService, ObserveEndpointSlices
<1>1. ClientTypeOK' /\ WriteInv' /\ WorkerInv' BY ClientKept DEF localVars
<1>2. queued' \in BOOLEAN BY DEF ExportInv, TypeOK, WorkTypeOK, HasServiceExport
<1>3. WorkTypeOK' BY <1>2 DEF localVars, ExportInv, TypeOK, WorkTypeOK
<1>4. ExportTypeOK'
  BY DEF localVars, objectVars, seenVars, ExportInv, TypeOK, ExportTypeOK
<1>5. ServiceTypeOK'
  BY DEF localVars, objectVars, seenVars, ExportInv, TypeOK, ServiceTypeOK
<1>6. CountTypeOK' BY DEF countVars, ExportInv, TypeOK, CountTypeOK
<1> QED BY <1>1, <1>3, <1>4, <1>5, <1>6 DEF ExportInv, TypeOK

(* A step of the client while no call of the exporter is under way starts  *)
(* none.                                                                   *)
LEMMA IdleStays ==
  ASSUME ClientTypeOK, cpc["exporter"] = "idle", ClientStep
  PROVE  cpc'["exporter"] = "idle"
<1> USE DEF ClientTypeOK, CallTypeOK, Threads
<1>1. ASSUME NEW t \in Threads, CallStep(t) PROVE cpc'["exporter"] = "idle"
  <2>1. cpc[t] # "idle"
    BY <1>1 DEF CallStep, GetServiceIds, GetNamespaces, ListNamespaces, CacheNamespaceMap,
       ListServiceIds, CacheServiceIdMap, GetEndpoints, DiscoverInstances, CacheEndpoints
  <2>2. t # "exporter" BY <2>1
  <2>3. \E x : cpc' = [cpc EXCEPT ![t] = x]
    BY <1>1 DEF CallStep, GetServiceIds, GetNamespaces, ListNamespaces, CacheNamespaceMap,
       ListServiceIds, CacheServiceIdMap, GetEndpoints, DiscoverInstances, CacheEndpoints,
       ServiceLookup, NamespaceLookup, Goto, Return
  <2> QED BY <2>2, <2>3
<1>2. ~WriterStep("exporter")
  BY DEF WriterStep, CreateHttpNamespace, PollNamespace, EvictNamespaceMap,
         CreateServiceRequest, EvictServiceIdMap, SubmitBatch, EvictEndpoints, Await
<1>3. ASSUME CloudStep \/ Expire \/ ForeignChange PROVE cpc'["exporter"] = "idle"
  BY <1>3 DEF CloudStep, RequestWrite, PollGivesUp, OperationEnds, NamespaceOperationEnds,
     Expire, ExpireNamespaceMap, ExpireServiceIdMap, ExpireEndpoints, ForeignChange, callVars
<1> QED BY <1>1, <1>2, <1>3 DEF ClientStep

LEMMA KubeKept ==
  ASSUME ExportInv, UNCHANGED <<kubeVars, localVars>>
  PROVE  ExportTypeOK' /\ ServiceTypeOK' /\ CountTypeOK' /\ WorkTypeOK'
BY DEF kubeVars, localVars, objectVars, seenVars, countVars, ExportInv, TypeOK,
       ExportTypeOK, ServiceTypeOK, CountTypeOK, WorkTypeOK

LEMMA ClientInv ==
  ASSUME ExportInv, Client
  PROVE  ExportInv'
<1>1. ClientTypeOK' BY ClientStepType DEF Client, ExportInv, TypeOK
<1>2. WriteInv' BY ClientStepWriteInv DEF Client, ExportInv, TypeOK
<1>3. WorkerInv'
  BY IdleStays DEF Client, ExportInv, TypeOK, WorkerInv, Returned, localVars
<1> QED BY <1>1, <1>2, <1>3, KubeKept DEF Client, ExportInv, TypeOK

LEMMA StartListInv ==
  ASSUME ExportInv, StartList
  PROVE  ExportInv'
<1> USE DEF StartList, ClientRest, cloudVars, cacheVars
<1>1. CallTypeOK' /\ found' = found /\ req' = req BY CallsType DEF ExportInv, TypeOK
<1>2. ClientTypeOK'
  BY <1>1 DEF ExportInv, TypeOK, ClientTypeOK, CloudTypeOK, CacheTypeOK, WriteTypeOK,
              FaultTypeOK, faultVars
<1>3. cpc'["exporter"] = cpc["exporter"]
  BY DEF CallListServices, Call, ExportInv, TypeOK, ClientTypeOK, CallTypeOK, Threads
<1>4. WriteInv' BY <1>1, <1>3, WriteInvFrame DEF Writing, ExportInv
<1>5. WorkerInv' BY <1>3 DEF ExportInv, WorkerInv, Returned, localVars
<1> QED BY <1>2, <1>4, <1>5, KubeKept DEF ExportInv, TypeOK

LEMMA RestartInv ==
  ASSUME ExportInv, Restart
  PROVE  ExportInv'
<1> USE EmptyType DEF Restart, cloudVars
<1>1. CloudTypeOK' BY DEF ExportInv, TypeOK, ClientTypeOK, CloudTypeOK
<1>2. CacheTypeOK' BY DEF CacheTypeOK
<1>3. CallTypeOK' /\ found' \in [Threads -> BOOLEAN] BY DEF CallTypeOK, Steps, Calls
<1>4. WriteTypeOK' BY DEF ExportInv, TypeOK, ClientTypeOK, WriteTypeOK, Targets
<1>5. FaultTypeOK' BY DEF ExportInv, TypeOK, ClientTypeOK, FaultTypeOK, faultVars
<1>6. ~Writing' /\ Returned' BY DEF Writing, Returned, Threads
<1>7. WriteInv'
  <2>1. BatchInv' BY <1>6 DEF BatchInv
  <2>2. AckInv' BY DEF AckInv, ExportInv, WriteInv
  <2>3. ForeignInv' BY DEF ForeignInv, ExportInv, WriteInv, Ids
  <2> QED BY <2>1, <2>2, <2>3 DEF WriteInv
<1>8. ExportTypeOK'
  <2>1. NoExport \in Exports BY ExportAssumption DEF NoExport, Exports
  <2> QED BY <2>1 DEF ExportTypeOK, ExportInv, TypeOK, objectVars
<1>9. ServiceTypeOK'
  BY ExportAssumption DEF ServiceTypeOK, ExportInv, TypeOK, objectVars
<1>10. CountTypeOK' BY ExportAssumption DEF CountTypeOK, ExportInv, TypeOK
<1>11. WorkTypeOK' /\ WorkerInv'
  <2>1. queued' \in BOOLEAN OBVIOUS
  <2> QED BY <1>6, <2>1 DEF WorkTypeOK, WorkerInv
<1> QED BY <1>1, <1>2, <1>3, <1>4, <1>5, <1>7, <1>8, <1>9, <1>10, <1>11
        DEF ExportInv, TypeOK, ClientTypeOK

-----------------------------------------------------------------------------
LEMMA ExportInvInit == Init => ExportInv
<1> SUFFICES ASSUME Init PROVE ExportInv OBVIOUS
<1> USE DEF Init
<1>1. ClientTypeOK /\ WriteInv BY ClientInitType, WriteInvInit
<1>2. ExportTypeOK BY ExportAssumption DEF ExportTypeOK, NoExport, Exports
<1>3. ServiceTypeOK BY ExportAssumption DEF ServiceTypeOK, NoPods, Pods
<1>4. CountTypeOK BY ExportAssumption DEF CountTypeOK
<1>5. queued \in BOOLEAN OBVIOUS
<1>6. WorkTypeOK /\ WorkerInv
  BY <1>5 DEF WorkTypeOK, WorkerInv, Returned, ClientInit, Threads
<1> QED BY <1>1, <1>2, <1>3, <1>4, <1>6 DEF ExportInv, TypeOK

LEMMA ExportInvStep == ExportInv /\ [Next]_vars => ExportInv'
<1> SUFFICES ASSUME ExportInv, [Next]_vars PROVE ExportInv' OBVIOUS
<1>1. CASE UNCHANGED vars
  BY <1>1, ClientKept, KubeKept DEF vars, localVars, ExportInv, TypeOK
<1>2. CASE ReconcileStep
  BY <1>2, ReconcileInv, UpdatePathInv, DeletePathInv, ObjectUpdateInv DEF ReconcileStep
<1> QED BY <1>1, <1>2, OutsideInv, ObserveInv, ReconcileReadErrorInv, StartListInv,
           ClientInv, RestartInv
        DEF Next, WaitForEvent

THEOREM ExportInvariant == Spec => []ExportInv
BY ExportInvInit, ExportInvStep, PTL DEF Spec

(* Every variable keeps its type, for any set of endpoints and any bounds. *)
THEOREM ExportTypeCorrect == Spec => []TypeOK
<1>1. ExportInv => TypeOK BY DEF ExportInv
<1> QED BY <1>1, ExportInvariant, PTL

(* RegisterEndpoints and DeleteEndpoints, as the reconciler uses them, tell*)
(* the truth: what they returned nil for is in Cloud Map until the next    *)
(* write of the endpoint, whatever operations of failed calls, restarts and*)
(* other clusters do meanwhile.                                            *)
THEOREM ExportAckedIsApplied == Spec => []AckedIsApplied
<1>1. ExportInv => AckedIsApplied BY WriteInvImplies DEF ExportInv
<1> QED BY <1>1, ExportInvariant, PTL

(* handleUpdate and handleDelete only write instances of their cluster,    *)
(* however stale the cached list they plan from.                           *)
THEOREM ExportForeignUntouched == Spec => []ForeignUntouched
<1>1. ExportInv => ForeignUntouched BY WriteInvImplies DEF ExportInv, ForeignUntouched
<1> QED BY <1>1, ExportInvariant, PTL

=============================================================================
