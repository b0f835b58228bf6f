------------------------- MODULE ExportCleanupProofs -------------------------
(***************************************************************************)
(* What holds of the exporter whatever goes wrong: outdated copies, an     *)
(* importer that fills the shared cache, lost operations, restarts and     *)
(* failed reads.  The three properties of ExportHistory are proved without *)
(* an assumption on any of these: handleUpdate works without the finalizer *)
(* only on a copy that is bound to be corrected, what Cloud Map has of this*)
(* cluster is covered by the finalizer unless the last decision passed over*)
(* it, and so a controller at rest has exported what it should.            *)
(***************************************************************************)
EXTENDS ExportHistory, ServiceExportProofs

(* The exporter's call: its step, its name, the endpoints it returned.     *)
Step == cpc["exporter"]
Fn == fn["exporter"]
Sight == view["exporter"]

(* What the operators of a call do to the exporter's.                      *)
Kept == UNCHANGED <<Fn, Outcome, Sight>>
Same == UNCHANGED Step /\ Kept
Returns(r, v) == Step' = "idle" /\ Fn' = "none" /\ Outcome' = r /\ Sight' = v
ServiceMove ==
  \/ Kept /\ Fn = "get" /\ Step' = "eps"
  \/ Kept /\ Fn \in {"register", "delete"} /\ Step' = "submit"
  \/ Returns("notfound", Empty)
NamespaceMove ==
  \/ Kept /\ Fn = "create" /\ Step' \in {"createsvc", "createns"}
  \/ Kept /\ Fn # "create" /\ Step' = "listsvc"
  \/ Returns("notfound", Empty)

LEMMA ControlMoves ==
  ASSUME ClientTypeOK
  PROVE  /\ \A s : Goto("exporter", s) => Step' = s /\ Kept
         /\ \A r, v : Return("exporter", r, v) => Returns(r, v)
<1> USE DEF ClientTypeOK, CallTypeOK, Threads, Step, Fn, Outcome, Sight
<1>1. \A s : Goto("exporter", s) => Step' = s /\ Kept BY DEF Goto, Kept
<1>2. \A r, v : Return("exporter", r, v) => Returns(r, v) BY DEF Return, Returns
<1> QED BY <1>1, <1>2

LEMMA LookupMoves ==
  ASSUME ClientTypeOK, Fn # "list", NEW present \in BOOLEAN
  PROVE  /\ ServiceLookup("exporter", present) => ServiceMove
         /\ NamespaceLookup("exporter", present) => NamespaceMove
<1> USE ControlMoves
<1>1. ASSUME ServiceLookup("exporter", present) PROVE ServiceMove
  <2>1. \/ Fn = "get" /\ Goto("exporter", "eps")
        \/ Fn \in {"register", "delete"} /\ Goto("exporter", "submit")
        \/ Return("exporter", "notfound", Empty)
    BY <1>1 DEF ServiceLookup, Fn
  <2> QED BY <2>1 DEF ServiceMove
<1>2. ASSUME NamespaceLookup("exporter", present) PROVE NamespaceMove
  <2>1. \/ Fn = "create" /\ Goto("exporter", "createsvc")
        \/ Fn = "create" /\ Goto("exporter", "createns")
        \/ Fn # "create" /\ Goto("exporter", "listsvc")
        \/ Return("exporter", "notfound", Empty)
    BY <1>2 DEF NamespaceLookup, Fn
  <2> QED BY <2>1 DEF NamespaceMove
<1> QED BY <1>1, <1>2

(* The steps of a read.                                                    *)
LEMMA CallStepMoves ==
  ASSUME ClientTypeOK, Fn # "list", CallStep("exporter")
  PROVE  /\ UNCHANGED <<cloudVars, writeVars>>
         /\ \/ Step = "ids" /\ ((Kept /\ Step' = "ns") \/ ServiceMove)
            \/ Step = "ns" /\ ((Kept /\ Step' = "listns") \/ NamespaceMove)
            \/ Step = "listns" /\ Kept /\ Step' = "putns"
            \/ Step = "putns" /\ NamespaceMove
            \/ Step = "listsvc" /\ Kept /\ Step' = "putsvc"
            \/ Step = "putsvc" /\ ServiceMove
            \/ Step = "eps" /\ ((Kept /\ Step' = "discover") \/ \E v : Returns("ok", v))
            \/ Step = "discover" /\ UNCHANGED <<Fn, Outcome>> /\ Step' = "puteps"
            \/ Step = "puteps" /\ Returns("ok", Sight)
            \/ Step \in {"listns", "listsvc", "discover"} /\ Returns("unknown", Empty)
<1> DEFINE t == "exporter"
<1>f. found \in [Threads -> BOOLEAN] /\ t \in Threads BY DEF ClientTypeOK, Threads
<1> USE ControlMoves, LookupMoves DEF Step
<1>1. CASE GetServiceIds(t) BY <1>1 DEF GetServiceIds
<1>2. CASE GetNamespaces(t) BY <1>2 DEF GetNamespaces
<1>3. CASE ListNamespaces(t) BY <1>3 DEF ListNamespaces
<1>4. CASE CacheNamespaceMap(t) BY <1>4, <1>f DEF CacheNamespaceMap
<1>5. CASE ListServiceIds(t) BY <1>5 DEF ListServiceIds
<1>6. CASE CacheServiceIdMap(t) BY <1>6, <1>f DEF CacheServiceIdMap
<1>7. CASE GetEndpoints(t) BY <1>7 DEF GetEndpoints
<1>8. CASE DiscoverInstances(t)
  BY <1>8, <1>f DEF DiscoverInstances, Fn, Outcome, ClientTypeOK, CallTypeOK
<1>9. CASE CacheEndpoints(t) BY <1>9 DEF CacheEndpoints, Sight
<1> QED BY <1>1, <1>2, <1>3, <1>4, <1>5, <1>6, <1>7, <1>8, <1>9 DEF CallStep

(* The steps of a creation or a write.                                     *)
LEMMA WriterStepMoves ==
  ASSUME ClientTypeOK, WriterStep("exporter")
  PROVE  /\ UNCHANGED <<inst, pend>>
         /\ \/ /\ writeVars' = writeVars
               /\ \/ Step \in CreateSteps /\ Kept /\ Step' \in CreateSteps
                  \/ Step \in CreateSteps /\ Returns("unknown", Empty)
                  \/ Step \in CreateSteps /\ Returns("ok", Empty)
                  \/ Step = "evict" /\ Kept /\ Step' = "await"
            \/ Step = "submit" /\ Kept /\ Step' = "evict" /\ req' = req
            \/ Await("exporter") /\ Step = "await" /\ Returns(AwaitResult, Empty)
<1> DEFINE t == "exporter"
<1> USE ControlMoves DEF Step, cloudVars, CreateSteps
<1>1. CASE CreateHttpNamespace(t) BY <1>1 DEF CreateHttpNamespace
<1>2. CASE PollNamespace(t) BY <1>2 DEF PollNamespace
<1>3. CASE EvictNamespaceMap(t) BY <1>3 DEF EvictNamespaceMap
<1>4. CASE CreateServiceRequest(t) BY <1>4 DEF CreateServiceRequest
<1>5. CASE EvictServiceIdMap(t) BY <1>5 DEF EvictServiceIdMap
<1>6. CASE SubmitBatch(t) BY <1>6 DEF SubmitBatch
<1>7. CASE EvictEndpoints(t) BY <1>7 DEF EvictEndpoints
<1>8. CASE Await(t) BY <1>8 DEF Await
<1> QED BY <1>1, <1>2, <1>3, <1>4, <1>5, <1>6, <1>7, <1>8 DEF WriterStep

(* The importer's calls leave the exporter's alone.                        *)
LEMMA ImporterMoves ==
  ASSUME ClientTypeOK, CallStep("importer") \/ StartList
  PROVE  Same /\ UNCHANGED <<cloudVars, writeVars>>
<1> DEFINE t == "importer"
<1> USE DEF ClientTypeOK, CallTypeOK, Threads, Same, Kept, Step, Fn, Outcome, Sight
<1>a. \A s : Goto(t, s) => Same BY DEF Goto
<1>b. \A r, v : Return(t, r, v) => Same BY DEF Return
<1>c. \A p : ServiceLookup(t, p) \/ NamespaceLookup(t, p) => Same
  BY <1>a, <1>b DEF ServiceLookup, NamespaceLookup
<1> HIDE DEF ClientTypeOK, CallTypeOK, Same
<1>1. CASE CallStep(t)
  <2>1. CASE DiscoverInstances(t)
    BY <1>b, <2>1 DEF DiscoverInstances, ClientTypeOK, CallTypeOK, Same
  <2> QED BY <1>1, <1>a, <1>b, <1>c, <2>1
          DEF CallStep, GetServiceIds, GetNamespaces, ListNamespaces, CacheNamespaceMap,
              ListServiceIds, CacheServiceIdMap, GetEndpoints, CacheEndpoints
<1>2. CASE StartList
  BY <1>2 DEF StartList, CallListServices, Call, ClientRest, writeVars, ClientTypeOK,
              CallTypeOK, Same
<1> QED BY <1>1, <1>2

(* The starts of the exporter's calls.                                     *)
GetEffect ==
  /\ req' = req
  /\ \/ epCache.hit /\ Returns("ok", epCache.view)
     \/ ~epCache.hit /\ Step' = "ids" /\ Fn' = "get" /\ Outcome' = "none"
CreateEffect == req' = req /\ Step' = "ns" /\ Fn' = "create" /\ Outcome' = "none"
WriteEffect(f, r) ==
  IF \A i \in Ids : r[i] = NoOp
  THEN req' = req /\ Step' = "idle" /\ Fn' = "none" /\ Outcome' = "ok"
  ELSE req' = r /\ Step' = "ids" /\ Fn' = f /\ Outcome' = "none"
Deletion(S) == [i \in Ids |-> IF i \in S THEN NoInst ELSE NoOp]

LEMMA StartEffects ==
  ASSUME ClientTypeOK
  PROVE  /\ CallGetService => GetEffect
         /\ CallCreateService => CreateEffect
         /\ \A f, r : CallWrite(f, r) => WriteEffect(f, r)
         /\ \A r : RegisterEndpoints(r) => WriteEffect("register", r)
         /\ \A S : DeleteEndpoints(S) => WriteEffect("delete", Deletion(S))
<1> USE DEF ClientTypeOK, CallTypeOK, Threads, Call
<1>1. CallGetService => GetEffect
  BY ControlMoves DEF CallGetService, GetEffect, Step, Fn, Outcome
<1>2. CallCreateService => CreateEffect
  BY DEF CallCreateService, CreateEffect, Step, Fn, Outcome
<1>3. ASSUME NEW f, NEW r, CallWrite(f, r) PROVE WriteEffect(f, r)
  BY <1>3, ControlMoves DEF CallWrite, WriteEffect, Returns, Step, Fn, Outcome
<1> QED BY <1>1, <1>2, <1>3 DEF RegisterEndpoints, DeleteEndpoints, Deletion

(* Reconcile between two calls: the call it starts, if any.                *)
LEMMA ReconcilerMoves ==
  ASSUME ExportInv, ReconcileStep
  PROVE  /\ Step = "idle"
         /\ UNCHANGED <<cloudVars, batch, seenVars, restarts>>
         /\ \/ Same /\ req' = req /\ epc' = epc /\ epc = "idle"
            \/ Same /\ req' = req /\ epc' \in {"finalizer", "owner"}
            \/ /\ Same /\ req' = req /\ epc' = "release"
               /\ \/ epc = "delget" /\ Outcome \notin {"ok", "unknown"}
                  \/ epc = "deleps" /\ Outcome = "ok"
            \/ GetEffect /\ epc' \in {"get", "reget", "delget"}
            \/ /\ CreateEffect /\ epc' = "create"
               /\ epc = "get" /\ Outcome \notin {"ok", "unknown"}
            \/ epc' = "register" /\ \E r : WriteEffect("register", r)
            \/ epc' = "delete" /\ \E S : WriteEffect("delete", Deletion(S))
            \/ /\ epc' = "deleps" /\ epc = "delget" /\ Outcome = "ok"
               /\ WriteEffect("delete", Deletion({i \in OwnIds : Sight[i] # NoInst}))
            \/ epc' = "idle" /\ Step' = "idle" /\ Fn' = Fn /\ Outcome' = "none" /\ req' = req
<1> DEFINE Ends == epc' = "idle" /\ Step' = "idle" /\ Fn' = Fn /\ Outcome' = "none" /\ req' = req
<1>0. ClientTypeOK BY DEF ExportInv, TypeOK
<1> USE DEF KubeRest, ClientRest
<1>i. ASSUME epc \in {"idle", "finalizer", "owner", "release"} PROVE Step = "idle"
  BY <1>i DEF ExportInv, WorkerInv, Returned, Step
<1>e. ASSUME NEW err, EndReconcile(err), Step = "idle"
      PROVE  Ends
  BY <1>e, <1>0 DEF EndReconcile, Step, Fn, Outcome, ClientTypeOK, CallTypeOK, Threads
<1>n. ASSUME NoCall PROVE Same /\ req' = req
  BY <1>n DEF NoCall, Same, Kept, Step, Fn, Outcome, Sight
<1>u. ASSUME UpdateFails, Step = "idle"
      PROVE  Ends
  BY <1>e, <1>u DEF UpdateFails, Refused
<1>p. ASSUME ApplyPlan, Step = "idle"
      PROVE 
             /\ \/ epc' = "register" /\ \E r : WriteEffect("register", r)
                \/ epc' = "delete" /\ \E S : WriteEffect("delete", Deletion(S))
                \/ Ends
  <2>1. \/ epc' = "register" /\ \E r : RegisterEndpoints(r)
        \/ epc' = "delete" /\ \E S : DeleteEndpoints(S)
        \/ EndReconcile(FALSE)
    BY <1>p DEF ApplyPlan
  <2>2. CASE epc' = "register" /\ \E r : RegisterEndpoints(r)
    BY <1>0, <2>2, StartEffects DEF RegisterEndpoints
  <2>3. CASE epc' = "delete" /\ \E S : DeleteEndpoints(S)
    BY <1>0, <2>3, StartEffects DEF DeleteEndpoints
  <2> QED BY <1>e, <1>p, <2>1, <2>2, <2>3
<1>1. CASE Reconcile
  <2>1. Step = "idle" BY <1>1, <1>i DEF Reconcile
  <2>2. CASE UNCHANGED <<localVars, callVars, req>>
    <3>1. Same /\ req' = req
      BY <2>2, <1>n DEF NoCall, callVars
    <3> QED BY <1>1, <2>1, <2>2, <3>1 DEF Reconcile, localVars
  <2>3. CASE epc' = "delget" /\ CallGetService
    BY <1>0, <1>1, <2>1, <2>3, StartEffects DEF Reconcile
  <2>4. CASE Prepare(seenExport)
    BY <1>0, <1>1, <1>n, <2>1, <2>4, StartEffects DEF Reconcile, Prepare
  <2> QED BY <1>1, <2>2, <2>3, <2>4 DEF Reconcile
<1>2. CASE AddFinalizer
  <2>1. Step = "idle" BY <1>2, <1>i DEF AddFinalizer
  <2>2. CASE UpdateFails BY <1>2, <2>1, <2>2, <1>u DEF AddFinalizer
  <2>3. CASE Prepare([exp EXCEPT !.fin = TRUE]) /\ UNCHANGED faultVars
    BY <1>0, <1>2, <1>n, <2>1, <2>3, StartEffects DEF AddFinalizer, Prepare
  <2> QED BY <1>2, <2>2, <2>3 DEF AddFinalizer
<1>3. CASE SetOwnerRef
  <2>1. Step = "idle" BY <1>3, <1>i DEF SetOwnerRef
  <2>2. CASE UpdateFails BY <1>3, <2>1, <2>2, <1>u DEF SetOwnerRef
  <2>3. CASE epc' = "get" /\ CallGetService /\ UNCHANGED faultVars
    BY <1>0, <1>3, <2>1, <2>3, StartEffects DEF SetOwnerRef
  <2> QED BY <1>3, <2>2, <2>3 DEF SetOwnerRef
<1>4. CASE GotService
  <2>1. Step = "idle" BY <1>4 DEF GotService, Returned, Step
  <2> QED BY <1>0, <1>4, <1>e, <1>p, <2>1, StartEffects
          DEF GotService, IsUnknown, PlanOrFail
<1>5. CASE CreatedService
  <2>1. Step = "idle" BY <1>5 DEF CreatedService, Returned, Step
  <2> QED BY <1>0, <1>5, <1>e, <2>1, StartEffects DEF CreatedService
<1>6. CASE GotCreatedService
  <2>1. Step = "idle" BY <1>6 DEF GotCreatedService, Returned, Step
  <2> QED BY <1>6, <1>e, <1>p, <2>1 DEF GotCreatedService, PlanOrFail
<1>7. CASE RegisteredEndpoints
  <2>1. Step = "idle" BY <1>7 DEF RegisteredEndpoints, Returned, Step
  <2> QED BY <1>0, <1>7, <1>e, <2>1, StartEffects
          DEF RegisteredEndpoints, DeleteEndpoints
<1>8. CASE DeletedEndpoints
  <2>1. Step = "idle" BY <1>8 DEF DeletedEndpoints, Returned, Step
  <2> QED BY <1>8, <1>e, <2>1 DEF DeletedEndpoints
<1>9. CASE GotServiceToDelete
  <2>1. Step = "idle" BY <1>9 DEF GotServiceToDelete, Returned, Step
  <2>2. {i \in Ids : EndpointsOfCluster(view["exporter"])[i] # NoInst}
           = {i \in OwnIds : Sight[i] # NoInst}
    BY DEF EndpointsOfCluster, Ids, Sight
  <2> QED BY <1>0, <1>9, <1>e, <1>n, <2>1, <2>2, StartEffects
          DEF GotServiceToDelete, IsUnknown, DeleteEndpoints
<1>10. CASE DeletedAllEndpoints
  <2>1. Step = "idle" BY <1>10 DEF DeletedAllEndpoints, Returned, Step
  <2> QED BY <1>10, <1>e, <1>n, <2>1 DEF DeletedAllEndpoints, CleanedUp
<1>11. CASE RemoveFinalizer
  <2>1. Step = "idle" BY <1>11, <1>i DEF RemoveFinalizer
  <2> QED BY <1>11, <1>e, <1>u, <2>1 DEF RemoveFinalizer
<1> QED BY <1>1, <1>2, <1>3, <1>4, <1>5, <1>6, <1>7, <1>8, <1>9, <1>10, <1>11
        DEF ReconcileStep

-----------------------------------------------------------------------------
(* Which call is made at which step of Reconcile, and that it has an       *)
(* outcome when it has returned; "not found" comes with no endpoints.      *)
CallInv ==
  /\ Step = "idle" <=> Fn = "none"
  /\ Fn \in {"none", "get", "create", "register", "delete"}
  /\ Fn # "none" => Outcome = "none"
  /\ Step \in {"ids", "listsvc", "putsvc"} => Fn # "create"
  /\ Step \in {"eps", "discover", "puteps"} => Fn = "get"
  /\ Step \in CreateSteps => Fn = "create"
  /\ Step \in WriteSteps => Fn \in {"register", "delete"}
  /\ Fn = "get" => epc \in {"get", "reget", "delget"}
  /\ Fn = "create" => epc = "create"
  /\ Fn = "register" => epc = "register"
  /\ Fn = "delete" => epc \in {"delete", "deleps"}
  /\ epc \in {"get", "reget", "delget", "create", "register", "delete", "deleps"} /\ Step = "idle"
       => Outcome # "none"
  /\ Outcome = "notfound" => Sight = Empty

(* Nothing of the exporter's calls and of its instances moves.             *)
Still == /\ Same /\ UNCHANGED <<req, pend>>
         /\ \A i \in OwnIds : inst'[i] = inst[i]

(* The steps, by what they touch.                                          *)
LEMMA StepKinds ==
  ASSUME ExportInv, [Next]_vars
  PROVE  \/ ReconcileStep
         \/ CallStep("exporter") /\ UNCHANGED <<kubeVars, localVars>>
         \/ WriterStep("exporter") /\ UNCHANGED <<kubeVars, localVars>>
         \/ CloudStep /\ UNCHANGED <<kubeVars, localVars>>
         \/ /\ Outside \/ Observe \/ Resync \/ ReconcileReadError \/ UNCHANGED kubeVars
            /\ Still /\ UNCHANGED localVars
         \/ Restart
<1>0. ClientTypeOK BY DEF ExportInv, TypeOK
<1> USE DEF Still, Same, Kept, Step, Fn, Outcome, Sight
<1>1. UNCHANGED clientVars => Still
  BY DEF clientVars, cloudVars, callVars, writeVars
<1>2. Outside \/ Observe \/ Resync \/ ReconcileReadError \/ WaitForEvent \/ UNCHANGED vars
        => UNCHANGED <<clientVars, localVars>>
  BY DEF Outside, Observe, Resync, ReconcileReadError, WaitForEvent, vars
<1>3. WaitForEvent \/ UNCHANGED vars => UNCHANGED kubeVars BY DEF WaitForEvent, vars
<1>4. ASSUME CallStep("importer") \/ StartList PROVE Still
  BY <1>0, <1>4, ImporterMoves DEF cloudVars, writeVars
<1>5. StartList => UNCHANGED <<kubeVars, localVars>> BY DEF StartList
<1>6. ASSUME Expire \/ ForeignChange PROVE Still
  <2>1. \A i \in OwnIds : inst'[i] = inst[i]
    BY <1>0, <1>6, ClientAssumption
       DEF Expire, ExpireNamespaceMap, ExpireServiceIdMap, ExpireEndpoints, ForeignChange,
           cloudVars, ClientTypeOK, CloudTypeOK, Views, Ids
  <2> QED BY <1>6, <2>1 DEF Expire, ExpireNamespaceMap, ExpireServiceIdMap, ExpireEndpoints,
             ForeignChange, cloudVars, callVars, writeVars
<1>7. Client => /\ UNCHANGED <<kubeVars, localVars>>
                /\ \/ CallStep("exporter") \/ CallStep("importer")
                   \/ WriterStep("exporter") \/ CloudStep \/ Expire \/ ForeignChange
  BY DEF Client, ClientStep, Threads
<1> HIDE DEF Still
<1> QED BY <1>1, <1>2, <1>3, <1>4, <1>5, <1>6, <1>7 DEF Next

(* Cloud Map and the poller's goroutines: an operation on an instance ends,*)
(* or one is accepted that the write under way asks for.                   *)
LEMMA CloudMoves ==
  ASSUME ExportInv, CloudStep
  PROVE  /\ Same /\ req' = req
         /\ \A i \in Ids :
              \/ inst'[i] = inst[i] /\ pend'[i] = pend[i]
              \/ /\ pend[i] # NoOp /\ pend'[i] = NoOp
                 /\ inst'[i] \in {inst[i], pend[i]}
              \/ /\ Writing /\ req[i] # NoOp /\ pend'[i] = req[i] /\ inst'[i] = inst[i]
<1>0. /\ BatchInv
      /\ pend \in [Ids -> Vals \cup {NoInst, NoOp}] /\ inst \in [Ids -> Vals \cup {NoInst}]
  BY DEF ExportInv, WriteInv, TypeOK, ClientTypeOK, CloudTypeOK, Targets, Views
<1> USE DEF Same, Kept, Step, Fn, Outcome, Sight, callVars, writeVars, cloudVars
<1>1. CASE \E i \in Ids : RequestWrite(i)
  <2>1. PICK i \in Ids : RequestWrite(i) BY <1>1
  <2>2. Writing /\ req[i] # NoOp BY <1>0, <2>1 DEF RequestWrite, BatchInv
  <2> QED BY <1>0, <2>1, <2>2 DEF RequestWrite
<1>2. CASE \E i \in Ids : PollGivesUp(i) BY <1>2 DEF PollGivesUp
<1>3. CASE \E i \in Ids : OperationEnds(i) BY <1>0, <1>3 DEF OperationEnds
<1>4. CASE NamespaceOperationEnds BY <1>4 DEF NamespaceOperationEnds
<1> QED BY <1>1, <1>2, <1>3, <1>4 DEF CloudStep

LEMMA CallInvInit == Init => CallInv
BY DEF Init, ClientInit, CallInv, CreateSteps, WriteSteps, Step, Fn, Outcome, Sight, Threads

LEMMA CallInvStep ==
  ASSUME ExportInv, CallInv, [Next]_vars
  PROVE  CallInv'
<1>0. ClientTypeOK /\ Fn # "list" BY DEF ExportInv, TypeOK, CallInv
<1> USE DEF CallInv, CreateSteps, WriteSteps
<1>1. CASE ReconcileStep
  BY <1>1, ReconcilerMoves DEF Same, Kept, GetEffect, CreateEffect, WriteEffect, Returns
<1>2. CASE CallStep("exporter") /\ UNCHANGED <<kubeVars, localVars>>
  BY <1>0, <1>2, CallStepMoves DEF ServiceMove, NamespaceMove, Kept, Returns, localVars
<1>3. CASE WriterStep("exporter") /\ UNCHANGED <<kubeVars, localVars>>
  BY <1>0, <1>3, WriterStepMoves DEF Kept, Returns, AwaitResult, localVars
<1>4. CASE CloudStep /\ UNCHANGED <<kubeVars, localVars>>
  BY <1>4, CloudMoves DEF Same, Kept, localVars
<1>5. CASE Still /\ UNCHANGED localVars BY <1>5 DEF Still, Same, Kept, localVars
<1>6. CASE Restart BY <1>6 DEF Restart, Step, Fn, Outcome, Sight, Threads
<1> HIDE DEF CallInv
<1> QED BY <1>1, <1>2, <1>3, <1>4, <1>5, <1>6, StepKinds

-----------------------------------------------------------------------------
(* What the history variables note of a step.                              *)
Passed(desired) ==
  \A i \in OwnIds \ overlooked' :
    Held /\ (Sight[i] = desired[i] => inst[i] = desired[i] /\ pend[i] \in {NoOp, desired[i]})

LEMMA Notes ==
  ASSUME [NextH]_varsH
  PROVE  /\ [Next]_vars
         /\ UpdateDecision => Passed(seenPods)
         /\ DeleteDecision => Passed(NoPods)
         /\ ~UpdateDecision /\ ~DeleteDecision => overlooked' = overlooked
         /\ queued' \/ ~queued => dropped' = dropped
         /\ epc # "idle" /\ epc' # "idle" => outdated' = outdated
<1>1. ASSUME UpdateDecision \/ DeleteDecision PROVE epc' # epc
  BY <1>1 DEF UpdateDecision, DeleteDecision, GotService, GotCreatedService,
     GotServiceToDelete, PlanOrFail, ApplyPlan, EndReconcile
<1>2. CASE UNCHANGED varsH
  BY <1>1, <1>2 DEF varsH, vars, kubeVars, localVars, histVars
<1>3. CASE NextH
  <2>1. Next BY <1>3 DEF NextH
  <2>2. queued' \/ ~queued => dropped' = dropped BY <1>3 DEF NextH, NoteDropped
  <2>3. epc # "idle" /\ epc' # "idle" => outdated' = outdated
    BY <1>3 DEF NextH, NoteOutdated
  <2>4. ~UpdateDecision /\ ~DeleteDecision => overlooked' = overlooked
    BY <1>3 DEF NextH, NoteDecision
  <2>5. ASSUME UpdateDecision PROVE Passed(seenPods)
    <3>1. ~Held => overlooked' = OwnIds BY <1>3, <2>5 DEF NextH, NoteDecision
    <3>2. Held => overlooked' = Misjudged(seenPods) BY <1>3, <2>5 DEF NextH, NoteDecision
    <3> QED BY <3>1, <3>2 DEF Passed, Misjudged, Sight
  <2>6. ASSUME DeleteDecision PROVE Passed(NoPods)
    <3>1. ~UpdateDecision
      BY <2>6 DEF UpdateDecision, DeleteDecision, GotService, GotCreatedService,
                  GotServiceToDelete
    <3>2. ~Held => overlooked' = OwnIds BY <1>3, <2>6 DEF NextH, NoteDecision
    <3>3. Held => overlooked' = Misjudged(NoPods) BY <1>3, <2>6, <3>1 DEF NextH, NoteDecision
    <3> QED BY <3>2, <3>3 DEF Passed, Misjudged, Sight
  <2> QED BY <2>1, <2>2, <2>3, <2>4, <2>5, <2>6
<1> QED BY <1>2, <1>3

(* The properties of ServiceExport carry over.                             *)
LEMMA ImplementsSpec == SpecH => Spec
<1>1. InitH => Init BY DEF InitH
<1>2. [NextH]_varsH => [Next]_vars BY Notes
<1> QED BY <1>1, <1>2, PTL DEF SpecH, Spec

LEMMA ExportInvariantH == SpecH => []ExportInv
BY ImplementsSpec, ExportInvariant, PTL

(* Only decisions move what is overlooked.                                 *)
LEMMA DecisionSteps ==
  ASSUME [Next]_vars, UpdateDecision \/ DeleteDecision
  PROVE  /\ ReconcileStep /\ UNCHANGED export /\ epc \in {"get", "reget", "delget"}
         /\ epc' \in {"register", "delete", "deleps", "release", "idle"}
         /\ epc' # epc
BY DEF UpdateDecision, DeleteDecision, GotService, GotCreatedService, GotServiceToDelete,
       ReconcileStep, PlanOrFail, ApplyPlan, EndReconcile, IsUnknown

LEMMA StepsToWrites ==
  ASSUME ReconcileStep
  PROVE  /\ epc' = "register" => UpdateDecision /\ UNCHANGED <<export, exp>>
         /\ epc' = "deleps" => DeleteDecision
         /\ epc' = "release" => DeleteDecision \/ (epc = "deleps" /\ Outcome = "ok")
<1>1. CASE Reconcile \/ AddFinalizer \/ SetOwnerRef \/ RemoveFinalizer
  BY <1>1 DEF Reconcile, AddFinalizer, SetOwnerRef, RemoveFinalizer, UpdateFails,
     EndReconcile, Prepare, localVars
<1>2. CASE GotService \/ GotCreatedService
  BY <1>2 DEF GotService, GotCreatedService, PlanOrFail, ApplyPlan, EndReconcile,
     UpdateDecision
<1>3. CASE CreatedService \/ RegisteredEndpoints \/ DeletedEndpoints
  BY <1>3 DEF CreatedService, RegisteredEndpoints, DeletedEndpoints, EndReconcile
<1>4. CASE GotServiceToDelete
  BY <1>4 DEF GotServiceToDelete, EndReconcile, DeleteDecision, IsUnknown
<1>5. CASE DeletedAllEndpoints
  BY <1>5 DEF DeletedAllEndpoints, EndReconcile, CleanedUp
<1> QED BY <1>1, <1>2, <1>3, <1>4, <1>5 DEF ReconcileStep

-----------------------------------------------------------------------------
(* The export handleUpdate works for had the finalizer in the copy it      *)
(* started from.  Either it still has it, or that copy was outdated, and   *)
(* then the informer has not shown the change yet or has put the key back. *)
HeldInv ==
  /\ epc # "idle" => exp.gen # 0
  /\ epc \in UpdateSteps =>
       /\ exp.fin
       /\ Held \/ (outdated /\ (queued \/ (seenExport.gen = exp.gen /\ seenExport.fin)))

LEMMA HeldInvInit == InitH => HeldInv
BY DEF InitH, Init, HeldInv, UpdateSteps

LEMMA HeldInvStep ==
  ASSUME ExportInv, HeldInv, [NextH]_varsH
  PROVE  HeldInv'
<1> USE DEF HeldInv, Held, UpdateSteps
<1>t. export \in Exports /\ exp \in Exports BY DEF ExportInv, TypeOK, ExportTypeOK
<1>a. ASSUME epc' = "idle" PROVE HeldInv' BY <1>a
<1>o. epc # "idle" /\ epc' # "idle" => outdated' = outdated BY Notes
<1>b. ASSUME UNCHANGED <<export, exp>>, epc # "idle", epc' \in UpdateSteps => epc \in UpdateSteps,
             queued' \/ (~queued /\ seenExport' = seenExport)
      PROVE  HeldInv'
  BY <1>b, <1>o
<1>1. CASE Reconcile
  <2>1. CASE UNCHANGED localVars BY <1>1, <1>a, <2>1 DEF Reconcile, localVars
  <2>2. CASE ~UNCHANGED localVars
    <3>1. /\ export' = export /\ exp' = seenExport /\ seenExport.gen # 0
          /\ seenExport' = seenExport
          /\ epc' = "delget" \/ Prepare(seenExport)
      BY <1>1, <2>2 DEF Reconcile, KubeRest, seenVars
    <3>2. epc' \in UpdateSteps => seenExport.fin
      BY <3>1 DEF Prepare, FinalizerMissing
    <3>3. epc' \in UpdateSteps => outdated' = (seenExport # export)
      <4>1. NextH BY <1>1, <2>2 DEF varsH, vars
      <4> QED BY <1>1, <4>1 DEF NextH, NoteOutdated, Reconcile
    <3> QED BY <3>1, <3>2, <3>3
  <2> QED BY <2>1, <2>2
<1>2. CASE AddFinalizer
  <2>1. CASE UpdateFails BY <1>a, <2>1 DEF UpdateFails, EndReconcile
  <2>2. CASE ~UpdateFails
    <3>1. export' = [exp EXCEPT !.fin = TRUE] /\ exp' = [exp EXCEPT !.fin = TRUE]
      BY <1>2, <2>2 DEF AddFinalizer, Update
    <3>2. exp.gen # 0 BY <1>2 DEF AddFinalizer
    <3> QED BY <1>t, <3>1, <3>2 DEF Exports
  <2> QED BY <2>1, <2>2
<1>3. CASE SetOwnerRef
  <2>1. CASE UpdateFails BY <1>a, <2>1 DEF UpdateFails, EndReconcile
  <2>2. CASE ~UpdateFails
    <3>1. /\ export' = [exp EXCEPT !.owner = svc] /\ exp' = [exp EXCEPT !.owner = svc]
          /\ epc = "owner"
      BY <1>3, <2>2 DEF SetOwnerRef, Update
    <3>2. exp.gen # 0 /\ exp.fin BY <3>1
    <3> QED BY <1>t, <3>1, <3>2 DEF Exports
  <2> QED BY <2>1, <2>2
<1>4. CASE RemoveFinalizer
  BY <1>4, <1>a DEF RemoveFinalizer, UpdateFails, EndReconcile
<1>5. CASE GotService \/ CreatedService \/ GotCreatedService \/ RegisteredEndpoints
             \/ DeletedEndpoints
  <2>1. epc \in UpdateSteps /\ epc # "idle" /\ export' = export /\ seenExport' = seenExport
    BY <1>5 DEF GotService, CreatedService, GotCreatedService, RegisteredEndpoints,
       DeletedEndpoints, KubeRest, seenVars
  <2>2. epc' = "idle" \/ (exp' = exp /\ queued' = queued)
    BY <1>5 DEF GotService, CreatedService, GotCreatedService, RegisteredEndpoints,
       DeletedEndpoints, PlanOrFail, ApplyPlan, EndReconcile
  <2> QED BY <1>a, <1>b, <2>1, <2>2
<1>6. CASE GotServiceToDelete \/ DeletedAllEndpoints
  BY <1>6, <1>a
     DEF GotServiceToDelete, DeletedAllEndpoints, EndReconcile
<1>7. CASE Outside
  <2>1. UNCHANGED <<epc, exp, queued, seenExport>> BY <1>7 DEF Outside, localVars, seenVars
  <2>2. epc \in UpdateSteps /\ Held => export'.gen = export.gen /\ export'.fin
    BY <1>7, <1>t DEF Outside, CreateExport, DeleteExport, AddService, RemoveService,
       ChangePods, CollectGarbage, DeleteObject, Exports
  <2> QED BY <1>o, <2>1, <2>2
<1>8. CASE Restart BY <1>8, <1>a DEF Restart
<1>9. CASE ReconcileReadError BY <1>9, <1>a DEF ReconcileReadError, localVars
<1>10. CASE Observe
  <2>1. /\ UNCHANGED <<export, exp, epc>>
        /\ queued' \/ (~queued /\ seenExport' = seenExport)
    BY <1>10 DEF Observe, ObserveExport, ObserveService, ObserveEndpointSlices,
       objectVars, localVars
  <2> QED BY <1>a, <1>b, <2>1
<1>11. CASE Resync \/ StartList \/ Client \/ WaitForEvent \/ UNCHANGED vars
  <2>1. /\ UNCHANGED <<export, exp, epc, seenExport>> /\ (queued' \/ queued' = queued)
    BY <1>11 DEF Resync, StartList, Client, WaitForEvent, vars, kubeVars, objectVars,
       seenVars, localVars
  <2> QED BY <1>a, <1>b, <2>1
<1>12. [Next]_vars BY Notes
<1> QED BY <1>1, <1>2, <1>3, <1>4, <1>5, <1>6, <1>7, <1>8, <1>9, <1>10, <1>11, <1>12
        DEF Next, ReconcileStep

(* While handleUpdate works on Cloud Map, the export it works for is there *)
(* and has the finalizer, unless it started from an outdated copy, and then*)
(* the key is back in the queue or about to be put there: for informers    *)
(* however late, and whatever users, the garbage collector, refusals and   *)
(* restarts do.                                                            *)
THEOREM ExportFinalizerHeldOrNoticed == SpecH => []FinalizerHeldOrNoticed
<1>1. HeldInv => FinalizerHeldOrNoticed
  <2> SUFFICES ASSUME HeldInv, epc \in UpdateSteps, ~Held
               PROVE  outdated /\ (queued \/ seenExport # export)
    BY DEF FinalizerHeldOrNoticed
  <2>1. exp.gen # 0 BY DEF HeldInv, UpdateSteps
  <2> QED BY <2>1 DEF HeldInv, Held
<1>2. ExportInv /\ HeldInv /\ [NextH]_varsH => HeldInv' BY HeldInvStep
<1> QED BY <1>1, <1>2, HeldInvInit, ExportInvariantH, PTL DEF SpecH

-----------------------------------------------------------------------------
(* Cloud Map has no instance i and is not about to register one; the       *)
(* endpoints the last decision did not pass over; the finalizer covers them.*)
Gone(i) == inst[i] = NoInst /\ pend[i] \notin Vals
Minded == OwnIds \ overlooked
Covered == export.gen # 0 /\ export.fin

(* Deletions delete, handleDelete gets at everything it minds before the   *)
(* finalizer goes, and handleUpdate registers under the finalizer.         *)
CoverInv ==
  /\ epc \in {"delete", "deleps"} /\ Step # "idle" => \A i \in Ids : req[i] \in {NoOp, NoInst}
  /\ epc = "deleps" => \A i \in Minded : /\ Step # "idle" => req[i] = NoInst \/ Gone(i)
                                         /\ Outcome = "ok" => Gone(i)
  /\ epc = "release" => \A i \in Minded : Gone(i)
  /\ epc = "register" => \A i \in Minded : Held
  /\ \A i \in Minded : Gone(i) \/ Covered

(* Only handleUpdate's registration brings an instance back.               *)
LEMMA GoneStays ==
  ASSUME ExportInv, CallInv, CoverInv, [Next]_vars, epc # "register",
         NEW i \in OwnIds, Gone(i)
  PROVE  Gone(i)'
<1>0. ClientTypeOK /\ Fn # "list" /\ i \in Ids BY DEF ExportInv, TypeOK, CallInv, Ids
<1>1. CASE UNCHANGED <<inst, pend>> BY <1>1 DEF Gone
<1>2. CASE ReconcileStep BY <1>1, <1>2, ReconcilerMoves DEF cloudVars
<1>3. CASE CallStep("exporter") BY <1>0, <1>1, <1>3, CallStepMoves DEF cloudVars
<1>4. CASE WriterStep("exporter") BY <1>0, <1>1, <1>4, WriterStepMoves
<1>5. CASE CloudStep
  <2>1. Writing => req[i] \in {NoOp, NoInst}
    BY <1>0 DEF Writing, Step, CallInv, CoverInv, WriteSteps
  <2>2. pend[i] \in Vals \cup {NoInst, NoOp}
    BY <1>0 DEF ClientTypeOK, CloudTypeOK, Targets
  <2> QED BY <1>0, <1>5, <2>1, <2>2, CloudMoves, ClientAssumption DEF Gone
<1>6. CASE Still BY <1>6 DEF Still, Gone
<1>7. CASE Restart BY <1>1, <1>7 DEF Restart, cloudVars
<1> QED BY <1>2, <1>3, <1>4, <1>5, <1>6, <1>7, StepKinds

(* Only the release takes the finalizer away.                              *)
LEMMA CoveredStays ==
  ASSUME ExportInv, HeldInv, [Next]_vars, epc # "release"
  PROVE  /\ Covered => Covered'
         /\ epc = "register" /\ exp' = exp /\ Held => Held'
<1>t. export \in Exports /\ exp \in Exports BY DEF ExportInv, TypeOK, ExportTypeOK
<1> USE DEF Covered, Held
<1>1. CASE UNCHANGED export BY <1>1
<1>2. CASE AddFinalizer
  <2>1. UNCHANGED export \/ export' = [exp EXCEPT !.fin = TRUE]
    BY <1>2 DEF AddFinalizer, Update, UpdateFails
  <2>2. epc = "finalizer" /\ exp.gen # 0 BY <1>2 DEF AddFinalizer, HeldInv
  <2> QED BY <1>1, <1>t, <2>1, <2>2 DEF Exports
<1>3. CASE SetOwnerRef
  <2>1. UNCHANGED export \/ export' = [export EXCEPT !.owner = svc]
    BY <1>3 DEF SetOwnerRef, Update, UpdateFails
  <2> QED BY <1>1, <1>3, <1>t, <2>1 DEF SetOwnerRef, Exports
<1>4. CASE Outside
  <2>1. Held \/ Covered => export'.gen = export.gen /\ export'.fin
    BY <1>4, <1>t DEF Outside, CreateExport, DeleteExport, AddService, RemoveService,
       ChangePods, CollectGarbage, DeleteObject, Exports
  <2> QED BY <2>1
<1>5. ~RemoveFinalizer BY DEF RemoveFinalizer
<1>6. AddFinalizer \/ SetOwnerRef \/ Outside \/ UNCHANGED export
  BY <1>5 DEF Next, ReconcileStep, Reconcile, GotService, CreatedService,
     GotCreatedService, RegisteredEndpoints, DeletedEndpoints, GotServiceToDelete,
     DeletedAllEndpoints, Observe, Resync, ReconcileReadError, StartList, Client, Restart,
     WaitForEvent, vars, kubeVars, objectVars
<1> QED BY <1>1, <1>2, <1>3, <1>4, <1>6

(* When a write has returned nil, Cloud Map has what it asked for.         *)
LEMMA AwaitOk ==
  ASSUME ExportInv, Await("exporter"), AwaitResult = "ok"
  PROVE  \A i \in Ids : req[i] # NoOp => inst[i] = req[i] /\ pend[i] = NoOp
<1>1. Writing BY DEF Await, Writing
<1>2. \A i \in Ids : batch[i] \in {"none", "ok"}
  BY DEF Await, AwaitResult, ExportInv, TypeOK, ClientTypeOK, WriteTypeOK
<1> QED BY <1>1, <1>2 DEF ExportInv, WriteInv, BatchInv, AckInv

(* The list of what handleDelete is to delete.                             *)
LEMMA CoverReconciler ==
  ASSUME ExportInv, CallInv, CoverInv, [NextH]_varsH, ReconcileStep
  PROVE  /\ epc' \in {"delete", "deleps"} /\ Step' # "idle"
              => \A i \in Ids : req'[i] \in {NoOp, NoInst}
         /\ epc' = "deleps" => \A i \in Minded' : /\ Step' # "idle" => req'[i] = NoInst \/ Gone(i)
                                                  /\ Outcome' = "ok" => Gone(i)
         /\ epc' = "release" => \A i \in Minded' : Gone(i)
<1>0. OwnIds \subseteq Ids BY DEF Ids
<1>1. ASSUME NEW S, WriteEffect("delete", Deletion(S))
      PROVE  /\ Step' # "idle" => \A i \in Ids : req'[i] = IF i \in S THEN NoInst ELSE NoOp
             /\ Outcome' = "ok" => \A i \in Ids : i \notin S
  BY <1>1, ClientAssumption DEF WriteEffect, Deletion
<1>2. CASE epc' = "delete"
  <2>1. PICK S : WriteEffect("delete", Deletion(S)) BY <1>2, ReconcilerMoves
  <2> QED BY <1>1, <1>2, <2>1
<1>3. CASE epc' = "deleps"
  <2> DEFINE S == {i \in OwnIds : Sight[i] # NoInst}
  <2>1. WriteEffect("delete", Deletion(S)) BY <1>3, ReconcilerMoves
  <2>2. \A i \in Minded' : Sight[i] = NoInst => Gone(i)
    BY <1>3, Notes, StepsToWrites, ClientAssumption DEF Minded, Passed, NoPods, Gone
  <2>3. Step' # "idle" => \A i \in Ids : req'[i] = IF i \in S THEN NoInst ELSE NoOp
    BY <1>1, <2>1
  <2>4. Outcome' = "ok" => \A i \in Ids : i \notin S BY <1>1, <2>1
  <2>5. \A i \in Minded' : i \in Ids /\ (i \in S <=> Sight[i] # NoInst) BY <1>0 DEF Minded
  <2> HIDE DEF S
  <2> QED BY <1>3, <2>2, <2>3, <2>4, <2>5
<1>4. CASE epc' = "release"
  <2>1. CASE epc = "deleps" /\ Outcome = "ok"
    <3>1. ~UpdateDecision /\ ~DeleteDecision BY <2>1, DecisionSteps, Notes
    <3> QED BY <1>4, <2>1, <3>1, Notes DEF CoverInv, Minded
  <2>2. CASE DeleteDecision
    <3>1. epc = "delget" /\ Outcome \notin {"ok", "unknown"} /\ Step = "idle"
      BY <1>4, <2>2, ReconcilerMoves
         DEF DeleteDecision, GotServiceToDelete, GetEffect, CreateEffect, WriteEffect
    <3>2. Outcome \in {"none", "ok", "notfound", "unknown"}
      BY DEF ExportInv, TypeOK, ClientTypeOK, CallTypeOK, Outcome, Threads
    <3>3. Sight = Empty BY <3>1, <3>2 DEF CallInv
    <3> QED BY <1>0, <1>4, <2>2, <3>3, Notes, ClientAssumption
            DEF Minded, Passed, NoPods, Gone, Empty
  <2> QED BY <1>4, <2>1, <2>2, StepsToWrites
<1> QED BY <1>2, <1>3, <1>4

LEMMA CoverInvStep ==
  ASSUME ExportInv, HeldInv, CallInv, CoverInv, [NextH]_varsH
  PROVE  CoverInv'
<1>0. /\ ClientTypeOK /\ Fn # "list" /\ [Next]_vars /\ OwnIds \subseteq Ids
      /\ Minded \subseteq OwnIds
  BY Notes DEF ExportInv, TypeOK, CallInv, Minded, Ids
<1>c. \A i \in Minded' : Gone(i)' \/ Covered'
  <2>1. CASE UpdateDecision \/ DeleteDecision
    <3>1. \A i \in Minded' : Covered BY <2>1, Notes DEF Minded, Passed, Held, Covered
    <3> QED BY <1>0, <2>1, <3>1, DecisionSteps, CoveredStays
  <2>2. CASE Minded' = Minded
    <3>1. CASE epc = "release" BY <1>0, <2>2, <3>1, GoneStays DEF CoverInv
    <3>2. CASE epc = "register"
      <4>1. \A i \in Minded : Covered BY <3>2 DEF CoverInv, Held, Covered
      <4> QED BY <1>0, <2>2, <3>2, <4>1, CoveredStays
    <3>3. CASE epc \notin {"release", "register"}
      BY <1>0, <2>2, <3>3, GoneStays, CoveredStays DEF CoverInv
    <3> QED BY <3>1, <3>2, <3>3
  <2> QED BY <2>1, <2>2, Notes DEF Minded
<1>1. CASE ReconcileStep
  <2>1. \A i \in OwnIds : Gone(i)' = Gone(i) BY <1>1, ReconcilerMoves DEF cloudVars, Gone
  <2>2. epc' = "register" => \A i \in Minded' : Held'
    <3>1. epc' = "register" => \A i \in Minded' : Held
      BY <1>1, StepsToWrites, Notes DEF Minded, Passed
    <3> QED BY <1>1, <3>1, StepsToWrites DEF Held
  <2>3. Minded' \subseteq OwnIds BY DEF Minded
  <2> QED BY <1>1, <1>c, <2>1, <2>2, <2>3, CoverReconciler DEF CoverInv
<1>k. ASSUME ~ReconcileStep, epc' # "idle" PROVE Minded' = Minded /\ epc' = epc /\ exp' = exp
  <2>1. Minded' = Minded BY <1>0, <1>k, DecisionSteps, Notes DEF Minded
  <2>2. UNCHANGED localVars BY <1>0, <1>k, StepKinds DEF Restart
  <2> QED BY <2>1, <2>2 DEF localVars
(* Without a step of Reconcile the endpoints minded stay gone and the      *)
(* registration stays covered.                                             *)
<1>f. ASSUME ~ReconcileStep, epc' # "idle",
             epc \in {"delete", "deleps"} /\ Step' # "idle" => req' = req /\ Step # "idle",
             epc = "deleps" /\ Outcome' = "ok" => Outcome = "ok" \/ \A i \in Minded : Gone(i)
      PROVE  CoverInv'
  <2>1. Minded' = Minded /\ epc' = epc /\ exp' = exp BY <1>f, <1>k
  <2>2. epc # "register" => \A i \in Minded : Gone(i) => Gone(i)' BY <1>0, GoneStays
  <2>3. epc = "register" => \A i \in Minded : Held'
    BY <1>0, <2>1, CoveredStays DEF CoverInv
  <2> QED BY <1>c, <1>f, <2>1, <2>2, <2>3 DEF CoverInv
<1>2. CASE epc' = "idle" BY <1>c, <1>2 DEF CoverInv
<1>3. CASE CallStep("exporter") /\ UNCHANGED <<kubeVars, localVars>> /\ ~ReconcileStep
  <2>1. req' = req /\ Step # "idle" BY <1>0, <1>3, CallStepMoves DEF writeVars
  <2>2. epc = "deleps" => Outcome' # "ok"
    BY <1>0, <1>3, CallStepMoves DEF CallInv, ServiceMove, NamespaceMove, Kept, Returns
  <2> QED BY <1>2, <1>3, <1>f, <2>1, <2>2
<1>4. CASE WriterStep("exporter") /\ UNCHANGED <<kubeVars, localVars>> /\ ~ReconcileStep
  <2>1. Step # "idle" BY <1>0, <1>4, WriterStepMoves DEF CreateSteps
  <2>2. CASE Await("exporter")
    <3>1. Step' = "idle" /\ Outcome' = AwaitResult
      BY <1>0, <2>2, ControlMoves DEF Await, Returns
    <3>2. epc = "deleps" /\ Outcome' = "ok" => \A i \in Minded : Gone(i)
      BY <1>0, <2>1, <2>2, <3>1, AwaitOk, ClientAssumption DEF CoverInv, Gone
    <3> QED BY <1>2, <1>4, <1>f, <3>1, <3>2
  <2>3. CASE ~Await("exporter")
    <3>1. req' = req /\ (epc = "deleps" => Outcome' # "ok")
      BY <1>0, <1>4, <2>3, WriterStepMoves
         DEF CallInv, CreateSteps, writeVars, Kept, Returns
    <3> QED BY <1>2, <1>4, <1>f, <2>1, <3>1
  <2> QED BY <2>2, <2>3
<1>5. CASE CloudStep /\ ~ReconcileStep
  BY <1>2, <1>5, <1>f, CloudMoves DEF Same, Kept
<1>6. CASE Still /\ ~ReconcileStep BY <1>2, <1>6, <1>f DEF Still, Same, Kept
<1>7. CASE Restart BY <1>2, <1>7 DEF Restart
<1> QED BY <1>0, <1>1, <1>3, <1>4, <1>5, <1>6, <1>7, StepKinds

LEMMA CoverInvInit == InitH => CoverInv
<1> SUFFICES ASSUME InitH PROVE CoverInv OBVIOUS
<1>1. epc = "idle" /\ \A i \in OwnIds : Gone(i)
  BY ClientAssumption DEF InitH, Init, ClientInit, Empty, Gone, Ids
<1> QED BY <1>1 DEF CoverInv, Minded

CleanInv == HeldInv /\ CallInv /\ CoverInv

LEMMA CleanInvInit == InitH => CleanInv
BY HeldInvInit, CallInvInit, CoverInvInit DEF CleanInv, InitH

LEMMA CleanInvStep == ExportInv /\ CleanInv /\ [NextH]_varsH => CleanInv'
BY HeldInvStep, CallInvStep, CoverInvStep, Notes DEF CleanInv

(* As long as Cloud Map has an instance of this cluster, or is about to    *)
(* register one, the export is there and has the finalizer, except for     *)
(* endpoints the last decision passed over: handleDelete lets go only of   *)
(* what it was not shown, and handleUpdate registers under the finalizer   *)
(* unless its copy of the export was outdated, whatever Cloud Map refuses, *)
(* loses or ends late, and whatever the importer puts into the cache.      *)
THEOREM ExportCleanedUpUnlessOverlooked == SpecH => []CleanedUpUnlessOverlooked
<1>1. ExportInv /\ CleanInv => CleanedUpUnlessOverlooked
  BY DEF CleanInv, CoverInv, CleanedUpUnlessOverlooked, Minded, Gone, Covered
<1> QED BY <1>1, CleanInvInit, CleanInvStep, ExportInvariantH, PTL DEF SpecH

-----------------------------------------------------------------------------
(* What the informers' copies ask for, and that Cloud Map has it.          *)
Wanted(i) == IF seenExport.gen # 0 /\ ~seenExport.deleting /\ seenService # 0
             THEN seenPods[i] ELSE NoInst
Done(i) == inst[i] = Wanted(i) /\ pend[i] \in {NoOp, Wanted(i)}

(* The informer shows an export that was created, and its deletion mark    *)
(* only after the fact.                                                    *)
SeenInv ==
  /\ export.gen <= exports /\ seenExport.gen <= exports
  /\ seenExport.gen = export.gen /\ export.gen # 0 /\ seenExport.deleting => export.deleting

(* Unless the key is back in the queue, the copies are those Reconcile     *)
(* started from.                                                           *)
PathInv ==
  ~queued =>
    /\ epc # "idle" => seenExport.gen # 0
    /\ epc \in {"finalizer"} \cup UpdateSteps => ~seenExport.deleting /\ seenService # 0
    /\ epc \in DeleteSteps => seenExport.deleting \/ seenService = 0

(* And what it has done and is doing about the endpoints it minds amounts  *)
(* to what they ask for.                                                   *)
WorkInv ==
  ~queued => \A i \in Minded :
    /\ epc = "register" /\ i \in dels => Wanted(i) = NoInst
    /\ epc \in {"register", "delete"} /\ Step # "idle" =>
         \/ req[i] = Wanted(i)
         \/ req[i] = NoOp /\ (Done(i) \/ (epc = "register" /\ i \in dels))
    /\ epc = "register" /\ Outcome = "ok" => Done(i) \/ i \in dels
    /\ epc = "delete" /\ Outcome = "ok" => Done(i)
    /\ epc = "idle" /\ ~dropped /\ seenExport = export => Done(i)

LEMMA Types ==
  ASSUME ExportInv
  PROVE  \A i \in OwnIds : /\ i \in Ids /\ Wanted(i) # NoOp /\ seenPods[i] # NoOp
                           /\ pend[i] \in Vals \cup {NoInst, NoOp}
BY ClientAssumption DEF ExportInv, TypeOK, ServiceTypeOK, Pods, Ids, Wanted, ClientTypeOK,
   CloudTypeOK, Targets

LEMMA SeenInvStep ==
  ASSUME ExportInv, SeenInv, [Next]_vars
  PROVE  SeenInv'
<1>t. /\ export \in Exports /\ exp \in Exports /\ seenExport \in Exports /\ exports \in Nat
      /\ MaxExports \in Nat
  BY ExportAssumption DEF ExportInv, TypeOK, ExportTypeOK, CountTypeOK
<1> USE DEF SeenInv
<1>1. CASE UNCHANGED <<export, exports>> /\ seenExport' \in {seenExport, export}
  BY <1>1, <1>t DEF Exports
<1>2. CASE AddFinalizer \/ SetOwnerRef \/ RemoveFinalizer
  <2>1. UNCHANGED <<seenExport, exports>>
    BY <1>2 DEF AddFinalizer, SetOwnerRef, RemoveFinalizer, KubeRest, seenVars
  <2>2. CASE UNCHANGED export BY <1>1, <2>1, <2>2
  <2>3. CASE export' \in {NoExport, [export EXCEPT !.fin = TRUE], [export EXCEPT !.owner = svc],
                          [export EXCEPT !.fin = FALSE]}
    BY <1>t, <2>1, <2>3 DEF NoExport, Exports
  <2> QED BY <1>2, <2>2, <2>3 DEF AddFinalizer, SetOwnerRef, RemoveFinalizer, Update,
             UpdateFails
<1>3. CASE Outside
  <2>1. seenExport' = seenExport BY <1>3 DEF Outside, seenVars
  <2>2. CASE CreateExport BY <1>t, <2>1, <2>2 DEF CreateExport, NoExport, Exports
  <2>3. CASE DeleteObject /\ exports' = exports
    BY <1>t, <2>1, <2>3 DEF DeleteObject, NoExport, Exports
  <2> QED BY <1>1, <1>3, <2>1, <2>2, <2>3
          DEF Outside, DeleteExport, AddService, RemoveService, ChangePods, CollectGarbage
<1>4. \/ AddFinalizer \/ SetOwnerRef \/ RemoveFinalizer \/ Outside
      \/ UNCHANGED <<export, exports>> /\ seenExport' \in {seenExport, export}
  BY DEF Next, ReconcileStep, Reconcile, GotService, CreatedService,
     GotCreatedService, RegisteredEndpoints, DeletedEndpoints, GotServiceToDelete,
     DeletedAllEndpoints, Observe, ObserveExport, ObserveService, ObserveEndpointSlices,
     Resync, ReconcileReadError, StartList, Client, Restart, WaitForEvent, vars,
     kubeVars, objectVars, seenVars, countVars, KubeRest
<1> QED BY <1>1, <1>2, <1>3, <1>4

(* What the plan writes makes of the endpoints in sight the extracted ones.*)
LEMMA PlanFacts ==
  ASSUME ExportInv, ApplyPlan
  PROVE  \/ /\ epc' = "register" /\ queued' = queued
            /\ \E r : /\ WriteEffect("register", r)
                      /\ \A i \in OwnIds : IF r[i] # NoOp THEN r[i] = seenPods[i]
                                           ELSE Sight[i] = seenPods[i] \/ i \in dels'
            /\ \A i \in OwnIds : i \in dels' => seenPods[i] = NoInst
         \/ /\ epc' = "delete" /\ queued' = queued
            /\ \E S : /\ WriteEffect("delete", Deletion(S))
                      /\ \A i \in OwnIds : IF i \in S THEN seenPods[i] = NoInst
                                                      ELSE Sight[i] = seenPods[i]
         \/ EndReconcile(FALSE) /\ \A i \in OwnIds : Sight[i] = seenPods[i]
<1> DEFINE current == EndpointsOfCluster(view["exporter"])
           desired == [i \in Ids |-> IF i \in OwnIds THEN seenPods[i] ELSE NoInst]
           upserts == Creates(current, desired, NoInst)
                        \cup Updates(current, desired, NoInst)
           deletes == Deletes(current, desired, NoInst)
           r == [i \in Ids |-> IF i \in upserts THEN desired[i] ELSE NoOp]
<1>0. ClientTypeOK /\ \A i \in OwnIds : i \in Ids /\ seenPods[i] # NoOp
  BY Types DEF ExportInv, TypeOK
<1>1. \A i \in OwnIds : desired[i] = seenPods[i] /\ current[i] = Sight[i]
  BY <1>0 DEF EndpointsOfCluster, Sight
<1>2. \A i \in OwnIds :
        /\ i \in upserts <=> seenPods[i] # NoInst /\ Sight[i] # seenPods[i]
        /\ i \in deletes <=> seenPods[i] = NoInst /\ Sight[i] # NoInst
  BY <1>0, <1>1 DEF Creates, Updates, Deletes
<1>3. \A i \in OwnIds : r[i] = IF i \in upserts THEN seenPods[i] ELSE NoOp
  BY <1>0, <1>1
<1>4. \/ upserts # {} /\ RegisterEndpoints(r) /\ epc' = "register" /\ dels' = deletes
           /\ queued' = queued
      \/ /\ upserts = {} /\ DeleteEndpoints(deletes) /\ epc' = "delete" /\ queued' = queued
      \/ upserts = {} /\ deletes = {} /\ EndReconcile(FALSE)
  BY DEF ApplyPlan
<1> HIDE DEF r, upserts, deletes, desired, current
<1>5. CASE RegisterEndpoints(r) /\ epc' = "register" /\ dels' = deletes /\ queued' = queued
  <2>1. WriteEffect("register", r) BY <1>0, <1>5, StartEffects
  <2>2. \A i \in OwnIds : IF r[i] # NoOp THEN r[i] = seenPods[i]
                          ELSE Sight[i] = seenPods[i] \/ i \in dels'
    BY <1>0, <1>2, <1>3, <1>5
  <2>3. \A i \in OwnIds : i \in dels' => seenPods[i] = NoInst BY <1>2, <1>5
  <2> QED BY <1>5, <2>1, <2>2, <2>3
<1>6. CASE upserts = {} /\ DeleteEndpoints(deletes) /\ epc' = "delete" /\ queued' = queued
  <2>1. WriteEffect("delete", Deletion(deletes)) BY <1>0, <1>6, StartEffects
  <2>2. \A i \in OwnIds : IF i \in deletes THEN seenPods[i] = NoInst
                                           ELSE Sight[i] = seenPods[i]
    BY <1>2, <1>6
  <2> QED BY <1>6, <2>1, <2>2
<1>7. CASE upserts = {} /\ deletes = {} /\ EndReconcile(FALSE) BY <1>2, <1>7
<1> QED BY <1>4, <1>5, <1>6, <1>7

(* The steps of Reconcile: an error puts the key back, the early return of *)
(* an export without a finalizer has nothing to clean up, and a plan that  *)
(* is carried out leaves what the copies ask for.                          *)
LEMMA RestReconciler ==
  ASSUME ExportInv, CleanInv, PathInv, WorkInv, [NextH]_varsH, ReconcileStep
  PROVE  PathInv' /\ WorkInv'
<1> USE DEF UpdateSteps, DeleteSteps
<1>0. /\ ClientTypeOK /\ Step = "idle" /\ CoverInv /\ queued \in BOOLEAN
      /\ UNCHANGED <<inst, pend, seenExport, seenService, seenPods>>
      /\ \A i \in OwnIds : Wanted(i)' = Wanted(i) /\ Done(i)' = Done(i)
  BY ReconcilerMoves DEF CleanInv, ExportInv, TypeOK, WorkTypeOK, cloudVars, seenVars,
     Wanted, Done
<1>m. Minded' \subseteq OwnIds /\ (epc \notin {"get", "reget", "delget"} => Minded' = Minded)
  BY DecisionSteps, Notes DEF Minded
<1>q. ASSUME queued' PROVE PathInv' /\ WorkInv' BY <1>q DEF PathInv, WorkInv
<1>f. ASSUME EndReconcile(TRUE) PROVE PathInv' /\ WorkInv'
  BY <1>f, <1>q DEF EndReconcile, Requeue
<1>n. ASSUME epc' = "idle", seenExport' = export' => \A i \in Minded' : Done(i)
      PROVE  PathInv' /\ WorkInv'
  BY <1>0, <1>m, <1>n DEF PathInv, WorkInv
<1>e. ASSUME EndReconcile(FALSE), ~queued => \A i \in Minded' : Done(i)
      PROVE  PathInv' /\ WorkInv'
  BY <1>0, <1>e, <1>n, <1>q DEF EndReconcile, Requeue
<1>g. \A i \in OwnIds : Gone(i) /\ Wanted(i) = NoInst => Done(i) BY Types DEF Gone, Done
<1>u. ASSUME ~queued, epc \in {"finalizer"} \cup UpdateSteps
      PROVE  \A i \in OwnIds : Wanted(i) = seenPods[i]
  BY <1>u DEF PathInv, Wanted
<1>c. ASSUME queued' = queued, epc \in {"finalizer"} \cup UpdateSteps,
             epc' \in {"finalizer", "owner", "get", "create", "reget"}
      PROVE  PathInv' /\ WorkInv'
  BY <1>0, <1>c, <1>q DEF PathInv, WorkInv
<1>d. ASSUME queued' = queued, epc \in DeleteSteps, epc' \in DeleteSteps
      PROVE  PathInv' /\ WorkInv'
  BY <1>0, <1>d, <1>q DEF PathInv, WorkInv
<1>x. ASSUME UpdateFails PROVE PathInv' /\ WorkInv' BY <1>f, <1>x DEF UpdateFails
<1>y. ASSUME NEW S, WriteEffect("delete", Deletion(S)), epc' = "delete", queued' = queued,
             epc \in UpdateSteps,
             ~queued => \A i \in Minded' : IF i \in S THEN Wanted(i) = NoInst ELSE Done(i)
      PROVE  PathInv' /\ WorkInv'
  <2>1. CASE queued BY <1>q, <1>y, <2>1
  <2>2. CASE ~queued
    <3>1. PathInv' BY <1>0, <1>y, <2>2 DEF PathInv
    <3>2. \/ Step' = "idle" /\ \A i \in OwnIds : i \notin S
          \/ Step' # "idle" /\ Outcome' # "ok"
             /\ \A i \in OwnIds : req'[i] = IF i \in S THEN NoInst ELSE NoOp
      BY <1>y, ClientAssumption DEF WriteEffect, Deletion, Ids
    <3>3. WorkInv' BY <1>0, <1>m, <1>y, <2>2, <3>2 DEF WorkInv
    <3> QED BY <3>1, <3>3
  <2> QED BY <2>1, <2>2
<1>p. ASSUME GotService \/ GotCreatedService, Outcome = "ok", PlanOrFail
      PROVE  PathInv' /\ WorkInv'
  <2>0. epc \in UpdateSteps BY <1>p DEF GotService, GotCreatedService
  <2>1. CASE queued /\ queued' = queued BY <1>q, <2>1
  <2>2. CASE EndReconcile(TRUE) BY <1>f, <2>2
  <2>3. CASE ~queued /\ ApplyPlan /\ UNCHANGED readErrors
    <3>1. \A i \in Minded' : Sight[i] = seenPods[i] => Done(i)
      <4>1. Passed(seenPods) BY <1>p, <2>3, Notes DEF UpdateDecision
      <4> QED BY <1>u, <2>0, <2>3, <4>1 DEF Passed, Minded, Done
    <3>2. \A i \in Minded' : Wanted(i) = seenPods[i] BY <1>m, <1>u, <2>0, <2>3
    <3>3. CASE EndReconcile(FALSE) /\ \A i \in OwnIds : Sight[i] = seenPods[i]
      BY <1>e, <1>m, <3>1, <3>3
    <3>4. CASE /\ epc' = "delete" /\ queued' = queued
               /\ \E S : /\ WriteEffect("delete", Deletion(S))
                         /\ \A i \in OwnIds : IF i \in S THEN seenPods[i] = NoInst
                                                         ELSE Sight[i] = seenPods[i]
      <4>1. PICK S : /\ WriteEffect("delete", Deletion(S))
                     /\ \A i \in OwnIds : IF i \in S THEN seenPods[i] = NoInst
                                                     ELSE Sight[i] = seenPods[i]
        BY <3>4
      <4>2. \A i \in Minded' : IF i \in S THEN Wanted(i) = NoInst ELSE Done(i)
        BY <1>m, <3>1, <3>2, <4>1
      <4> QED BY <1>y, <2>0, <3>4, <4>1, <4>2
    <3>5. ASSUME epc' = "register", queued' = queued, NEW r, WriteEffect("register", r),
                 \A i \in OwnIds : IF r[i] # NoOp THEN r[i] = seenPods[i]
                                   ELSE Sight[i] = seenPods[i] \/ i \in dels',
                 \A i \in OwnIds : i \in dels' => seenPods[i] = NoInst
          PROVE  PathInv' /\ WorkInv'
      <4>1. PathInv' BY <1>0, <2>0, <2>3, <3>5 DEF PathInv
      <4>2. \/ Step' = "idle" /\ \A i \in OwnIds : r[i] = NoOp
            \/ Step' # "idle" /\ Outcome' # "ok" /\ req' = r
        BY <3>5 DEF WriteEffect, Ids
      <4>3. \A i \in Minded' :
              /\ r[i] = Wanted(i) \/ (r[i] = NoOp /\ (Done(i) \/ i \in dels'))
              /\ i \in dels' => Wanted(i) = NoInst
        BY <1>m, <3>1, <3>2, <3>5
      <4>4. WorkInv' BY <1>0, <1>m, <3>5, <4>2, <4>3, Types DEF WorkInv
      <4> QED BY <4>1, <4>4
    <3> QED BY <2>3, <3>3, <3>4, <3>5, PlanFacts
  <2>4. \/ ApplyPlan /\ UNCHANGED readErrors
        \/ EndReconcile(TRUE)
    BY <1>p DEF PlanOrFail
  <2>5. ApplyPlan => queued' = queued \/ EndReconcile(FALSE) BY DEF ApplyPlan
  <2>6. CASE queued /\ EndReconcile(FALSE) BY <1>q, <2>6 DEF EndReconcile
  <2> QED BY <1>0, <2>1, <2>2, <2>3, <2>4, <2>5, <2>6
<1>1. CASE Reconcile
  <2>1. CASE UNCHANGED localVars
    <3>1. /\ export' = export /\ epc' = "idle" /\ Minded' = Minded
          /\ seenExport.gen = 0 \/ ((seenExport.deleting \/ seenService = 0) /\ ~seenExport.fin)
      BY <1>1, <1>m, <2>1 DEF Reconcile, localVars, Prepare
    <3>2. seenExport = export => \A i \in Minded : Gone(i)
      BY <1>0, <3>1 DEF CoverInv, Covered
    <3>3. \A i \in Minded : Wanted(i) = NoInst BY <3>1 DEF Wanted
    <3> QED BY <1>0, <1>g, <1>m, <1>n, <3>1, <3>2, <3>3
  <2>2. CASE ~UNCHANGED localVars
    <3>1. /\ seenExport.gen # 0
          /\ \/ epc' = "delget" /\ (seenExport.deleting \/ seenService = 0)
             \/ /\ epc' \in {"finalizer", "owner", "get"}
                /\ ~seenExport.deleting /\ seenService # 0
      BY <1>1, <2>2 DEF Reconcile, Prepare
    <3> QED BY <1>0, <3>1 DEF PathInv, WorkInv
  <2> QED BY <2>1, <2>2
<1>2. CASE AddFinalizer
  <2>1. \/ UpdateFails
        \/ queued' = queued /\ epc' \in {"finalizer", "owner", "get"}
    BY <1>2 DEF AddFinalizer, Prepare
  <2> QED BY <1>2, <1>c, <1>x, <2>1 DEF AddFinalizer
<1>3. CASE SetOwnerRef BY <1>3, <1>c, <1>x DEF SetOwnerRef
<1>4. CASE GotService BY <1>4, <1>c, <1>f, <1>p DEF GotService
<1>5. CASE CreatedService BY <1>5, <1>c, <1>f DEF CreatedService
<1>6. CASE GotCreatedService BY <1>6, <1>f, <1>p DEF GotCreatedService
<1>7. CASE RegisteredEndpoints
  <2>1. epc = "register" /\ Minded' = Minded BY <1>7, <1>m DEF RegisteredEndpoints
  <2>2. CASE Outcome # "ok" BY <1>7, <1>f, <2>2 DEF RegisteredEndpoints
  <2>3. CASE Outcome = "ok" /\ dels = {}
    <3>1. ~queued => \A i \in Minded' : Done(i) BY <2>1, <2>3 DEF WorkInv
    <3> QED BY <1>7, <1>e, <2>1, <2>3, <3>1 DEF RegisteredEndpoints
  <2>4. CASE Outcome = "ok" /\ dels # {}
    <3>1. /\ DeleteEndpoints(dels) /\ epc' = "delete" /\ queued' = queued
      BY <1>7, <2>4 DEF RegisteredEndpoints
    <3>2. WriteEffect("delete", Deletion(dels)) BY <1>0, <3>1, StartEffects
    <3>3. ~queued => \A i \in Minded' : IF i \in dels THEN Wanted(i) = NoInst ELSE Done(i)
      BY <2>1, <2>4 DEF WorkInv
    <3> QED BY <1>y, <2>1, <3>1, <3>2, <3>3
  <2> QED BY <2>2, <2>3, <2>4
<1>8. CASE DeletedEndpoints
  <2>1. epc = "delete" /\ Minded' = Minded BY <1>8, <1>m DEF DeletedEndpoints
  <2>2. CASE Outcome # "ok" BY <1>8, <1>q, <2>2 DEF DeletedEndpoints, EndReconcile, Requeue
  <2>3. CASE Outcome = "ok"
    <3>1. ~queued => \A i \in Minded' : Done(i) BY <2>1, <2>3 DEF WorkInv
    <3>2. (Outcome # "ok") = FALSE BY <2>3
    <3>3. EndReconcile(FALSE) BY <1>8, <3>2 DEF DeletedEndpoints
    <3> QED BY <1>e, <3>1, <3>3
  <2> QED BY <2>2, <2>3
<1>9. CASE GotServiceToDelete BY <1>9, <1>d, <1>f DEF GotServiceToDelete
<1>10. CASE DeletedAllEndpoints BY <1>10, <1>d, <1>f DEF DeletedAllEndpoints
<1>11. CASE RemoveFinalizer
  <2>1. epc = "release" /\ Minded' = Minded BY <1>11, <1>m DEF RemoveFinalizer
  <2>2. \A i \in Minded : Gone(i) BY <1>0, <2>1 DEF CoverInv
  <2>3. ~queued => \A i \in Minded : Wanted(i) = NoInst BY <2>1 DEF PathInv, Wanted
  <2>4. ~queued => \A i \in Minded' : Done(i) BY <1>g, <1>m, <2>1, <2>2, <2>3
  <2> QED BY <1>11, <1>e, <1>x, <2>4 DEF RemoveFinalizer
<1> QED BY <1>1, <1>2, <1>3, <1>4, <1>5, <1>6, <1>7, <1>8, <1>9, <1>10, <1>11
        DEF ReconcileStep

(* The user and the garbage collector: when the export becomes what the    *)
(* informer shows although it was not, there is none, and nothing is left. *)
LEMMA RestOutside ==
  ASSUME ExportInv, CoverInv', SeenInv, PathInv, WorkInv, [NextH]_varsH, Outside, Still
  PROVE  PathInv' /\ WorkInv'
<1>0. /\ UNCHANGED <<queued, epc, dels, seenExport, seenService, seenPods, req, pend>>
      /\ UNCHANGED <<Step, Outcome>>
  BY DEF Outside, localVars, seenVars, Still, Same, Kept
<1>1. \A i \in OwnIds : Wanted(i)' = Wanted(i) /\ Done(i)' = Done(i)
  BY <1>0 DEF Still, Wanted, Done
<1>2. Minded' = Minded /\ Minded \subseteq OwnIds BY <1>0, DecisionSteps, Notes DEF Minded
<1>3. queued' \/ dropped' = dropped BY <1>0, Notes DEF ExportInv, TypeOK, WorkTypeOK
<1>4. PathInv' BY <1>0 DEF PathInv
<1>5. ASSUME seenExport = export', export' # export PROVE \A i \in Minded : Done(i)'
  <2>t. export \in Exports /\ seenExport \in Exports /\ exports \in Nat
    BY ExportAssumption DEF ExportInv, TypeOK, ExportTypeOK, CountTypeOK
  <2>1. ~CreateExport BY <1>5, <2>t DEF CreateExport, SeenInv, NoExport, Exports
  <2>2. DeleteObject /\ export.gen # 0 /\ ~export.deleting
    BY <1>5, <2>1 DEF Outside, DeleteExport, AddService, RemoveService, ChangePods,
       CollectGarbage
  <2>3. ~export.fin BY <1>5, <2>2, <2>t DEF DeleteObject, SeenInv, Exports
  <2>4. export' = NoExport BY <2>2, <2>3 DEF DeleteObject
  <2>5. \A i \in Minded : Gone(i)'
    BY <1>2, <2>4 DEF CoverInv, Covered, NoExport
  <2>6. \A i \in Minded : Wanted(i) = NoInst BY <1>5, <2>4 DEF Wanted, NoExport
  <2> QED BY <1>0, <1>1, <1>2, <2>5, <2>6, Types DEF Gone, Done
<1>6. WorkInv' BY <1>0, <1>1, <1>2, <1>3, <1>5 DEF WorkInv
<1> QED BY <1>4, <1>6

LEMMA RestStep ==
  ASSUME ExportInv, CleanInv, CleanInv', SeenInv, PathInv, WorkInv, [NextH]_varsH
  PROVE  PathInv' /\ WorkInv'
<1>0. /\ ClientTypeOK /\ Fn # "list" /\ [Next]_vars /\ CallInv /\ queued \in BOOLEAN
      /\ BatchInv /\ CoverInv'
  BY Notes DEF ExportInv, CleanInv, CallInv, TypeOK, WorkTypeOK, WriteInv
<1>q. ASSUME queued' PROVE PathInv' /\ WorkInv' BY <1>q DEF PathInv, WorkInv
<1>i. epc = "idle" => Step = "idle" BY DEF ExportInv, WorkerInv, Returned, Step
<1>d. queued' \/ ~queued => dropped' = dropped BY Notes
<1>m. Minded \subseteq OwnIds /\ (epc' = epc => Minded' = Minded)
  BY <1>0, DecisionSteps, Notes DEF Minded
<1>k. UNCHANGED <<kubeVars, localVars>> =>
        /\ UNCHANGED <<queued, export, seenExport, seenService, seenPods, epc, dels>>
        /\ \A i \in OwnIds : Wanted(i)' = Wanted(i)
  BY DEF kubeVars, objectVars, seenVars, localVars, Wanted
<1>p. UNCHANGED <<kubeVars, localVars>> => PathInv' BY <1>k DEF PathInv
<1>1. CASE ReconcileStep BY <1>1, RestReconciler
<1>2. CASE CallStep("exporter") /\ UNCHANGED <<kubeVars, localVars>>
  <2>1. UNCHANGED <<inst, pend, req>> /\ Step # "idle"
    BY <1>0, <1>2, CallStepMoves DEF cloudVars, writeVars
  <2>2. epc \in {"register", "delete"} => Outcome' # "ok"
    BY <1>0, <1>2, CallStepMoves DEF CallInv, ServiceMove, NamespaceMove, Kept, Returns
  <2>3. \A i \in OwnIds : Done(i)' = Done(i) BY <1>2, <1>k, <2>1 DEF Done
  <2>4. WorkInv' BY <1>2, <1>d, <1>i, <1>k, <1>m, <2>1, <2>2, <2>3 DEF WorkInv
  <2> QED BY <1>2, <1>p, <2>4
<1>3. CASE WriterStep("exporter") /\ UNCHANGED <<kubeVars, localVars>>
  <2>1. UNCHANGED <<inst, pend>> /\ Step # "idle"
    BY <1>0, <1>3, WriterStepMoves DEF CreateSteps
  <2>2. \A i \in OwnIds : Done(i)' = Done(i) BY <1>3, <1>k, <2>1 DEF Done
  <2>3. CASE Await("exporter")
    <3>1. Step' = "idle" /\ Outcome' = AwaitResult
      BY <1>0, <2>3, ControlMoves DEF Await, Returns
    <3>2. Outcome' = "ok" => \A i \in OwnIds : req[i] = Wanted(i) => Done(i)
      BY <2>3, <3>1, AwaitOk, Types DEF Done
    <3>3. WorkInv' BY <1>3, <1>i, <1>k, <1>m, <2>1, <2>2, <3>1, <3>2 DEF WorkInv
    <3> QED BY <1>3, <1>p, <3>3
  <2>4. CASE ~Await("exporter")
    <3>1. req' = req /\ (epc \in {"register", "delete"} => Outcome' # "ok")
      BY <1>0, <1>3, <2>4, WriterStepMoves
         DEF CallInv, CreateSteps, writeVars, Kept, Returns
    <3>2. WorkInv' BY <1>3, <1>i, <1>k, <1>m, <2>1, <2>2, <3>1 DEF WorkInv
    <3> QED BY <1>3, <1>p, <3>2
  <2> QED BY <2>3, <2>4
<1>4. CASE CloudStep /\ UNCHANGED <<kubeVars, localVars>>
  <2>1. UNCHANGED <<Step, Outcome, req>> BY <1>4, CloudMoves DEF Same, Kept
  <2>2. Writing => Step # "idle" /\ Outcome # "ok"
    BY <1>0 DEF Writing, Step, CallInv
  <2>3. \A i \in OwnIds : Done(i) /\ (Writing => req[i] = NoOp) => Done(i)'
    BY <1>4, <1>k, CloudMoves, Types DEF Done
  <2>4. Outcome = "ok" => Step = "idle" BY <1>0 DEF CallInv
  <2>5. WorkInv' BY <1>4, <1>d, <1>i, <1>k, <1>m, <2>1, <2>2, <2>3, <2>4 DEF WorkInv
  <2> QED BY <1>4, <1>p, <2>5
<1>5. CASE /\ Outside \/ Observe \/ Resync \/ ReconcileReadError \/ UNCHANGED kubeVars
           /\ Still /\ UNCHANGED localVars
  <2>1. UNCHANGED <<Step, Outcome, req, pend, epc, dels>> /\ Minded' = Minded
        /\ \A i \in OwnIds : inst'[i] = inst[i]
    BY <1>5, <1>m DEF Still, Same, Kept, localVars
  <2>2. CASE Outside BY <1>0, <1>5, <2>2, RestOutside
  <2>3. CASE UNCHANGED kubeVars
    <3>1. \A i \in OwnIds : Done(i)' = Done(i) BY <1>5, <1>k, <2>1, <2>3 DEF Done
    <3>2. WorkInv' BY <1>5, <1>d, <1>k, <1>m, <2>1, <2>3, <3>1 DEF WorkInv
    <3> QED BY <1>5, <1>p, <2>3, <3>2
  <2>4. CASE Observe
    <3>1. CASE queued' BY <1>q, <3>1
    <3>2. CASE ~queued'
      <4>1. ~queued /\ seenExport.gen = 0 /\ UNCHANGED <<seenExport, export>>
        BY <1>0, <2>4, <3>2 DEF Observe, ObserveExport, ObserveService,
           ObserveEndpointSlices, HasServiceExport, objectVars
      <4>2. epc = "idle" BY <4>1 DEF PathInv
      <4>3. \A i \in OwnIds : Wanted(i)' = Wanted(i) /\ Done(i)' = Done(i)
        BY <2>1, <4>1 DEF Wanted, Done
      <4>4. PathInv' BY <2>1, <4>1, <4>2 DEF PathInv, UpdateSteps, DeleteSteps
      <4>5. WorkInv' BY <1>d, <1>m, <2>1, <4>1, <4>2, <4>3 DEF WorkInv
      <4> QED BY <4>4, <4>5
    <3> QED BY <3>1, <3>2
  <2>5. CASE Resync BY <1>q, <2>5 DEF Resync
  <2>6. CASE ReconcileReadError
    <3>1. CASE queued' BY <1>q, <3>1
    <3>2. CASE ~queued'
      <4>1. epc = "idle" /\ queued /\ readErrors' # readErrors
        BY <2>6 DEF ReconcileReadError, ReadFails, ExportInv, TypeOK, CountTypeOK
      <4>2. dropped'
        <5>1. NextH BY <3>2, <4>1 DEF varsH, vars, kubeVars
        <5> QED BY <3>2, <4>1, <5>1 DEF NextH, NoteDropped
      <4> QED BY <2>1, <4>1, <4>2 DEF PathInv, WorkInv, UpdateSteps, DeleteSteps
    <3> QED BY <3>1, <3>2
  <2> QED BY <1>5, <2>2, <2>3, <2>4, <2>5, <2>6
<1>6. CASE Restart
  <2>1. CASE export.gen # 0 BY <1>6, <1>q, <2>1 DEF Restart
  <2>2. CASE export.gen = 0
    <3>1. seenExport'.gen = 0 /\ export'.gen = 0 /\ epc' = "idle"
      BY <1>6, <2>2 DEF Restart, objectVars
    <3>2. \A i \in Minded' : Gone(i)' BY <1>0, <3>1 DEF CoverInv, Covered
    <3>3. \A i \in Minded' : Wanted(i)' = NoInst BY <3>1 DEF Wanted
    <3>4. \A i \in Minded' : pend'[i] \in Vals \cup {NoInst, NoOp}
      BY <1>6, Types DEF Restart, cloudVars, Minded
    <3>5. \A i \in Minded' : Done(i)' BY <3>2, <3>3, <3>4 DEF Gone, Done
    <3> QED BY <3>1, <3>5 DEF PathInv, WorkInv, UpdateSteps, DeleteSteps
  <2> QED BY <2>1, <2>2
<1> QED BY <1>0, <1>1, <1>2, <1>3, <1>4, <1>5, <1>6, StepKinds

RestInv == CleanInv /\ SeenInv /\ PathInv /\ WorkInv

LEMMA RestInvInit == InitH => RestInv
<1> SUFFICES ASSUME InitH PROVE RestInv OBVIOUS
<1>1. epc = "idle" /\ seenExport.gen = 0 /\ export.gen = 0 /\ exports = 0
      /\ \A i \in OwnIds : inst[i] = NoInst /\ pend[i] = NoOp
  BY DEF InitH, Init, ClientInit, Empty, Ids, NoExport
<1>2. SeenInv BY <1>1 DEF SeenInv
<1>3. PathInv BY <1>1 DEF PathInv, UpdateSteps, DeleteSteps
<1>4. WorkInv BY <1>1 DEF WorkInv, Done, Wanted, Minded
<1> QED BY <1>2, <1>3, <1>4, CleanInvInit DEF RestInv

LEMMA RestInvStep == ExportInv /\ RestInv /\ [NextH]_varsH => RestInv'
<1> SUFFICES ASSUME ExportInv, RestInv, [NextH]_varsH PROVE RestInv' OBVIOUS
<1>1. CleanInv' BY CleanInvStep DEF RestInv
<1>2. SeenInv' BY SeenInvStep, Notes DEF RestInv
<1> QED BY <1>1, <1>2, RestStep DEF RestInv

LEMMA RestInvImplies == ExportInv /\ RestInv => RestMeansExportedUnlessOverlooked
<1> SUFFICES ASSUME ExportInv, RestInv, AtRest, ~dropped
             PROVE  \A i \in Minded : inst[i] = Target[i]
  BY DEF RestMeansExportedUnlessOverlooked, Minded
<1>1. \A i \in Minded : inst[i] = Wanted(i)
  BY DEF AtRest, CaughtUp, RestInv, WorkInv, Done
<1>2. export = seenExport /\ service = seenService /\ pods = seenPods
  BY DEF AtRest, CaughtUp
<1>3. \A i \in Minded : Wanted(i) = Target[i]
  BY <1>2 DEF Wanted, Target, Exported, NoPods, Minded
<1> QED BY <1>1, <1>3

(* No event and no error is lost: a controller with nothing left to do has *)
(* in Cloud Map exactly the endpoints of the exported Service, and none if *)
(* there is none, unless its last reconciliation gave up on a failed read, *)
(* and except for endpoints the last decision passed over: for every set of*)
(* endpoints, any number of changes, any refusals of Cloud Map and of the  *)
(* API server, lost operations, late informers and restarts.               *)
THEOREM ExportRestMeansExportedUnlessOverlooked ==
  SpecH => []RestMeansExportedUnlessOverlooked
BY RestInvInit, RestInvStep, RestInvImplies, ExportInvariantH, PTL DEF SpecH
=============================================================================
