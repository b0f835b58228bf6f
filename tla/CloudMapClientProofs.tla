------------------------ MODULE CloudMapClientProofs ------------------------
(***************************************************************************)
(* Type correctness of CloudMapClient and the bookkeeping of its writes,   *)
(* step by step, for whoever makes the calls (ServiceExportProofs).        *)
(***************************************************************************)
EXTENDS CloudMapClient, TLAPS

LEMMA EmptyType == Empty \in Views
BY DEF Empty, Views

(* The control operators of a call.                                        *)
LEMMA GotoType ==
  ASSUME CallTypeOK, NEW t \in Threads, NEW s \in Steps, Goto(t, s)
  PROVE  CallTypeOK'
BY DEF CallTypeOK, Goto

LEMMA ReturnType ==
  ASSUME CallTypeOK, NEW t \in Threads, NEW r \in {"none", "ok", "notfound", "unknown"},
         NEW v \in Views, Return(t, r, v)
  PROVE  CallTypeOK'
BY EmptyType DEF CallTypeOK, Return, Steps, Calls

LEMMA RefusedType == ASSUME FaultTypeOK, Refused PROVE FaultTypeOK'
BY ClientAssumption DEF FaultTypeOK, Refused

LEMMA LookupType ==
  ASSUME CallTypeOK, NEW t \in Threads, NEW present \in BOOLEAN
  PROVE  /\ ServiceLookup(t, present) => CallTypeOK'
         /\ NamespaceLookup(t, present) => CallTypeOK'
<1> USE EmptyType, GotoType, ReturnType DEF Steps, ReadSteps, WriteSteps, CreateSteps
<1>1. ASSUME ServiceLookup(t, present) PROVE CallTypeOK' BY <1>1 DEF ServiceLookup
<1>2. ASSUME NamespaceLookup(t, present) PROVE CallTypeOK' BY <1>2 DEF NamespaceLookup
<1> QED BY <1>1, <1>2

-----------------------------------------------------------------------------
(* The steps of a read.                                                    *)
LEMMA CallStepType ==
  ASSUME ClientTypeOK, NEW t \in Threads, CallStep(t)
  PROVE  ClientTypeOK'
<1> USE EmptyType DEF ClientTypeOK
<1> USE DEF cloudVars, cacheVars, writeVars, faultVars
<1>a. \A s \in ReadSteps : s \in Steps BY DEF Steps
<1>1. CASE GetServiceIds(t)
  <2>1. CallTypeOK'
    BY <1>1, <1>a, GotoType, LookupType DEF GetServiceIds, ReadSteps
  <2> QED BY <1>1, <2>1
          DEF GetServiceIds, CloudTypeOK, CacheTypeOK, WriteTypeOK, FaultTypeOK
<1>2. CASE GetNamespaces(t)
  <2>1. CallTypeOK'
    BY <1>2, <1>a, GotoType, LookupType DEF GetNamespaces, ReadSteps
  <2> QED BY <1>2, <2>1
          DEF GetNamespaces, CloudTypeOK, CacheTypeOK, WriteTypeOK, FaultTypeOK
<1>3. CASE ListNamespaces(t)
  <2>1. CallTypeOK'
    BY <1>3, <1>a, GotoType, ReturnType DEF ListNamespaces, ReadSteps
  <2>2. FaultTypeOK' BY <1>3, RefusedType DEF ListNamespaces, FaultTypeOK
  <2>3. found' \in [Threads -> BOOLEAN] BY <1>3 DEF ListNamespaces, CloudTypeOK
  <2> QED BY <1>3, <2>1, <2>2, <2>3
          DEF ListNamespaces, CloudTypeOK, CacheTypeOK, WriteTypeOK
<1>4. CASE CacheNamespaceMap(t)
  <2>1. CallTypeOK' BY <1>4, LookupType DEF CacheNamespaceMap
  <2>2. found' \in [Threads -> BOOLEAN] BY <1>4 DEF CacheNamespaceMap
  <2> QED BY <1>4, <2>1, <2>2
          DEF CacheNamespaceMap, CloudTypeOK, CacheTypeOK, WriteTypeOK, FaultTypeOK
<1>5. CASE ListServiceIds(t)
  <2>1. CallTypeOK'
    BY <1>5, <1>a, GotoType, ReturnType DEF ListServiceIds, ReadSteps
  <2>2. FaultTypeOK' BY <1>5, RefusedType DEF ListServiceIds, FaultTypeOK
  <2>3. found' \in [Threads -> BOOLEAN] BY <1>5 DEF ListServiceIds, CloudTypeOK
  <2> QED BY <1>5, <2>1, <2>2, <2>3
          DEF ListServiceIds, CloudTypeOK, CacheTypeOK, WriteTypeOK
<1>6. CASE CacheServiceIdMap(t)
  <2>1. CallTypeOK' BY <1>6, LookupType DEF CacheServiceIdMap
  <2>2. found' \in [Threads -> BOOLEAN] BY <1>6 DEF CacheServiceIdMap
  <2> QED BY <1>6, <2>1, <2>2
          DEF CacheServiceIdMap, CloudTypeOK, CacheTypeOK, WriteTypeOK, FaultTypeOK
<1>7. CASE GetEndpoints(t)
  <2>1. CallTypeOK'
    BY <1>7, <1>a, GotoType, ReturnType DEF GetEndpoints, ReadSteps, CacheTypeOK
  <2> QED BY <1>7, <2>1
          DEF GetEndpoints, CloudTypeOK, CacheTypeOK, WriteTypeOK, FaultTypeOK
<1>8. CASE DiscoverInstances(t)
  <2>1. CallTypeOK'
    <3>1. CASE Return(t, "unknown", Empty) BY <3>1, ReturnType
    <3>2. CASE /\ view' = [view EXCEPT ![t] = inst]
               /\ cpc' = [cpc EXCEPT ![t] = "puteps"] /\ UNCHANGED <<fn, ret>>
      BY <3>2, <1>a DEF CallTypeOK, CloudTypeOK, ReadSteps
    <3> QED BY <1>8, <3>1, <3>2 DEF DiscoverInstances
  <2>2. FaultTypeOK' BY <1>8, RefusedType DEF DiscoverInstances, FaultTypeOK
  <2> QED BY <1>8, <2>1, <2>2
          DEF DiscoverInstances, CloudTypeOK, CacheTypeOK, WriteTypeOK
<1>9. CASE CacheEndpoints(t)
  <2>1. view[t] \in Views BY DEF CallTypeOK
  <2>2. CallTypeOK' BY <1>9, <2>1, ReturnType DEF CacheEndpoints
  <2> QED BY <1>9, <2>1, <2>2
          DEF CacheEndpoints, CloudTypeOK, CacheTypeOK, WriteTypeOK, FaultTypeOK
<1> QED BY <1>1, <1>2, <1>3, <1>4, <1>5, <1>6, <1>7, <1>8, <1>9 DEF CallStep

(* The steps of a creation or a write.                                     *)
LEMMA WriterStepType ==
  ASSUME ClientTypeOK, NEW t \in Threads, WriterStep(t)
  PROVE  ClientTypeOK'
<1> USE EmptyType DEF ClientTypeOK
<1> USE DEF cloudVars, cacheVars, writeVars, faultVars
<1>a. \A s \in CreateSteps \cup WriteSteps : s \in Steps BY DEF Steps
<1>1. CASE CreateHttpNamespace(t)
  <2>1. CallTypeOK'
    BY <1>1, <1>a, GotoType, ReturnType DEF CreateHttpNamespace, CreateSteps
  <2>2. FaultTypeOK' BY <1>1, RefusedType DEF CreateHttpNamespace, FaultTypeOK
  <2>3. CloudTypeOK' BY <1>1 DEF CreateHttpNamespace, CloudTypeOK
  <2> QED BY <1>1, <2>1, <2>2, <2>3 DEF CreateHttpNamespace, CacheTypeOK, WriteTypeOK
<1>2. CASE PollNamespace(t)
  <2>1. CallTypeOK'
    BY <1>2, <1>a, GotoType, ReturnType DEF PollNamespace, CreateSteps
  <2>2. FaultTypeOK' BY <1>2, ClientAssumption DEF PollNamespace, FaultTypeOK
  <2> QED BY <1>2, <2>1, <2>2 DEF PollNamespace, CloudTypeOK, CacheTypeOK, WriteTypeOK
<1>8. CASE EvictNamespaceMap(t)
  <2>1. CallTypeOK' BY <1>8, <1>a, GotoType DEF EvictNamespaceMap, CreateSteps
  <2> QED BY <1>8, <2>1
          DEF EvictNamespaceMap, CloudTypeOK, CacheTypeOK, WriteTypeOK, FaultTypeOK
<1>3. CASE CreateServiceRequest(t)
  <2>1. CallTypeOK'
    BY <1>3, <1>a, GotoType, ReturnType DEF CreateServiceRequest, CreateSteps
  <2>2. FaultTypeOK' BY <1>3, RefusedType DEF CreateServiceRequest, FaultTypeOK
  <2>3. CloudTypeOK' BY <1>3 DEF CreateServiceRequest, CloudTypeOK
  <2> QED BY <1>3, <2>1, <2>2, <2>3 DEF CreateServiceRequest, CacheTypeOK, WriteTypeOK
<1>4. CASE EvictServiceIdMap(t)
  <2>1. CallTypeOK' BY <1>4, ReturnType DEF EvictServiceIdMap
  <2> QED BY <1>4, <2>1
          DEF EvictServiceIdMap, CloudTypeOK, CacheTypeOK, WriteTypeOK, FaultTypeOK
<1>5. CASE SubmitBatch(t)
  <2>1. CallTypeOK' BY <1>5, <1>a, GotoType DEF SubmitBatch, WriteSteps
  <2>2. WriteTypeOK' BY <1>5 DEF SubmitBatch, WriteTypeOK, Targets
  <2> QED BY <1>5, <2>1, <2>2 DEF SubmitBatch, CloudTypeOK, CacheTypeOK, FaultTypeOK
<1>6. CASE EvictEndpoints(t)
  <2>1. CallTypeOK' BY <1>6, <1>a, GotoType DEF EvictEndpoints, WriteSteps
  <2>2. CacheTypeOK' BY <1>6 DEF EvictEndpoints, CacheTypeOK
  <2> QED BY <1>6, <2>1, <2>2 DEF EvictEndpoints, CloudTypeOK, WriteTypeOK, FaultTypeOK
<1>7. CASE Await(t)
  <2>1. CallTypeOK' BY <1>7, ReturnType DEF Await, AwaitResult
  <2>2. WriteTypeOK' BY <1>7 DEF Await, WriteTypeOK, Targets
  <2> QED BY <1>7, <2>1, <2>2 DEF Await, CloudTypeOK, CacheTypeOK, FaultTypeOK
<1> QED BY <1>1, <1>2, <1>3, <1>4, <1>5, <1>6, <1>7, <1>8 DEF WriterStep

(* The steps of the goroutines and of the outside world.                   *)
LEMMA CloudStepType ==
  ASSUME ClientTypeOK, CloudStep
  PROVE  ClientTypeOK'
<1> USE DEF ClientTypeOK, cacheVars, callVars, writeVars, faultVars, cloudVars
<1>1. ASSUME NEW i \in Ids, RequestWrite(i) PROVE ClientTypeOK'
  <2>1. req[i] \in Vals \cup {NoInst, NoOp} BY DEF WriteTypeOK, Targets
  <2>2. FaultTypeOK'
    BY <1>1, RefusedType, ClientAssumption DEF RequestWrite, FaultTypeOK
  <2>3. pend' \in Targets BY <1>1, <2>1 DEF RequestWrite, CloudTypeOK, Targets
  <2>4. WriteTypeOK' BY <1>1 DEF RequestWrite, WriteTypeOK
  <2> QED BY <1>1, <2>2, <2>3, <2>4
          DEF RequestWrite, CloudTypeOK, CacheTypeOK, CallTypeOK
<1>2. ASSUME NEW i \in Ids, PollGivesUp(i) PROVE ClientTypeOK'
  <2>1. FaultTypeOK' BY <1>2, ClientAssumption DEF PollGivesUp, FaultTypeOK
  <2>2. WriteTypeOK' BY <1>2 DEF PollGivesUp, WriteTypeOK
  <2> QED BY <1>2, <2>1, <2>2
          DEF PollGivesUp, CloudTypeOK, CacheTypeOK, CallTypeOK
<1>3. ASSUME NEW i \in Ids, OperationEnds(i) PROVE ClientTypeOK'
  <2>1. FaultTypeOK' BY <1>3, RefusedType DEF OperationEnds, FaultTypeOK
  <2>2. WriteTypeOK' BY <1>3 DEF OperationEnds, WriteTypeOK
  <2>3. pend[i] \in Vals \cup {NoInst}
    BY <1>3 DEF OperationEnds, CloudTypeOK, Targets
  <2>4. inst' \in Views BY <1>3, <2>3 DEF OperationEnds, CloudTypeOK, Views
  <2>5. pend' \in Targets BY <1>3 DEF OperationEnds, CloudTypeOK, Targets
  <2> QED BY <1>3, <2>1, <2>2, <2>4, <2>5
          DEF OperationEnds, CloudTypeOK, CacheTypeOK, CallTypeOK
<1>4. ASSUME NamespaceOperationEnds PROVE ClientTypeOK'
  <2>1. FaultTypeOK' BY <1>4, RefusedType DEF NamespaceOperationEnds, FaultTypeOK
  <2>2. CloudTypeOK' BY <1>4 DEF NamespaceOperationEnds, CloudTypeOK
  <2> QED BY <1>4, <2>1, <2>2
          DEF NamespaceOperationEnds, CacheTypeOK, CallTypeOK, WriteTypeOK
<1> QED BY <1>1, <1>2, <1>3, <1>4 DEF CloudStep

LEMMA OutsideStepType ==
  ASSUME ClientTypeOK, Expire \/ ForeignChange
  PROVE  ClientTypeOK'
<1> USE EmptyType DEF ClientTypeOK, cacheVars, callVars, writeVars, faultVars, cloudVars
<1>1. CASE Expire
  <2>1. CacheTypeOK'
    <3>1. CASE ExpireNamespaceMap BY <3>1 DEF ExpireNamespaceMap, CacheTypeOK
    <3>2. CASE ExpireServiceIdMap BY <3>2 DEF ExpireServiceIdMap, CacheTypeOK
    <3>3. CASE ExpireEndpoints BY <3>3 DEF ExpireEndpoints, CacheTypeOK
    <3> QED BY <1>1, <3>1, <3>2, <3>3 DEF Expire
  <2> QED BY <1>1, <2>1
          DEF Expire, ExpireNamespaceMap, ExpireServiceIdMap, ExpireEndpoints,
              CloudTypeOK, CallTypeOK, WriteTypeOK, FaultTypeOK
<1>2. CASE ForeignChange
  <2>1. FaultTypeOK' BY <1>2, ClientAssumption DEF ForeignChange, FaultTypeOK
  <2>2. inst' \in Views
    BY <1>2 DEF ForeignChange, CloudTypeOK, Views, Ids
  <2>3. CloudTypeOK' BY <1>2, <2>2 DEF ForeignChange, CloudTypeOK
  <2> QED BY <1>2, <2>1, <2>3
          DEF ForeignChange, CacheTypeOK, CallTypeOK, WriteTypeOK
<1> QED BY <1>1, <1>2

LEMMA ClientStepType ==
  ASSUME ClientTypeOK, ClientStep
  PROVE  ClientTypeOK'
BY CallStepType, WriterStepType, CloudStepType, OutsideStepType
   DEF ClientStep, Threads

LEMMA ClientInitType == ClientInit => ClientTypeOK
<1> SUFFICES ASSUME ClientInit PROVE ClientTypeOK OBVIOUS
<1> USE EmptyType DEF ClientInit
<1>1. CloudTypeOK BY DEF CloudTypeOK, Targets
<1>2. CacheTypeOK BY DEF CacheTypeOK
<1>3. CallTypeOK BY DEF CallTypeOK, Steps, Calls
<1>4. WriteTypeOK BY DEF WriteTypeOK, Targets
<1>5. FaultTypeOK BY ClientAssumption DEF FaultTypeOK
<1> QED BY <1>1, <1>2, <1>3, <1>4, <1>5 DEF ClientTypeOK

(* The starts of the calls, which only touch the thread and the request.   *)
LEMMA CallsType ==
  ASSUME ClientTypeOK
  PROVE  /\ CallListServices => CallTypeOK' /\ found' = found /\ req' = req
         /\ CallGetService => CallTypeOK' /\ found' = found /\ req' = req
         /\ CallCreateService => CallTypeOK' /\ found' = found /\ req' = req
         /\ \A f \in Calls, r \in Targets :
               CallWrite(f, r) => CallTypeOK' /\ found' = found /\ req' \in Targets
<1> USE EmptyType DEF ClientTypeOK, Threads, Steps, ReadSteps, Calls
<1>1. ASSUME CallListServices PROVE CallTypeOK' /\ found' = found /\ req' = req
  BY <1>1 DEF CallListServices, Call, CallTypeOK
<1>2. ASSUME CallGetService PROVE CallTypeOK' /\ found' = found /\ req' = req
  <2>1. CASE epCache.hit
    BY <1>2, <2>1, ReturnType DEF CallGetService, CacheTypeOK
  <2>2. CASE ~epCache.hit
    BY <1>2, <2>2 DEF CallGetService, Call, CallTypeOK
  <2> QED BY <2>1, <2>2
<1>3. ASSUME CallCreateService PROVE CallTypeOK' /\ found' = found /\ req' = req
  BY <1>3 DEF CallCreateService, Call, CallTypeOK
<1>4. ASSUME NEW f \in Calls, NEW r \in Targets, CallWrite(f, r)
      PROVE  CallTypeOK' /\ found' = found /\ req' \in Targets
  <2>1. CASE \A i \in Ids : r[i] = NoOp
    <3>1. view["exporter"] \in Views BY DEF CallTypeOK
    <3> QED BY <1>4, <2>1, <3>1, ReturnType DEF CallWrite, WriteTypeOK
  <2>2. CASE ~(\A i \in Ids : r[i] = NoOp)
    BY <1>4, <2>2 DEF CallWrite, Call, CallTypeOK
  <2> QED BY <2>1, <2>2
<1> QED BY <1>1, <1>2, <1>3, <1>4

-----------------------------------------------------------------------------
(* The bookkeeping of a write, which AckedIsApplied needs: outside a write *)
(* there are no goroutines, and during one exactly those of the requested  *)
(* endpoints, which are not acknowledged; a goroutine that waits has its   *)
(* operation under way, one that succeeded has seen it applied; Cloud Map  *)
(* has no operation under way for an acknowledged endpoint, so that none   *)
(* can end late and undo it; the endpoints of other clusters are in none of*)
(* this.                                                                   *)
Writing == cpc["exporter"] \in {"evict", "await"}

BatchInv == \A i \in Ids : batch[i] = "none" <=> ~Writing \/ req[i] = NoOp
AckInv == \A i \in Ids :
            /\ batch[i] # "none" => acked[i] = NoOp
            /\ batch[i] = "wait" => pend[i] = req[i]
            /\ batch[i] = "ok" => pend[i] = NoOp /\ inst[i] = req[i]
            /\ acked[i] # NoOp => pend[i] = NoOp /\ inst[i] = acked[i]
ForeignInv == \A i \in ForeignIds : req[i] = NoOp /\ acked[i] = NoOp /\ pend[i] = NoOp

WriteInv == BatchInv /\ AckInv /\ ForeignInv

LEMMA WriteInvInit == ClientInit => WriteInv
BY DEF ClientInit, WriteInv, BatchInv, AckInv, ForeignInv, Writing, Ids, Threads

(* What WriteInv means to the outside.                                     *)
LEMMA WriteInvImplies ==
  WriteInv => AckedIsApplied /\ \A i \in ForeignIds : batch[i] = "none" /\ pend[i] = NoOp
BY DEF WriteInv, BatchInv, AckInv, ForeignInv, AckedIsApplied, Ids

(* Steps that leave the write alone.                                       *)
LEMMA WriteInvFrame ==
  ASSUME WriteInv, Writing' = Writing, UNCHANGED <<batch, acked, req, pend, inst>>
  PROVE  WriteInv'
BY DEF WriteInv, BatchInv, AckInv, ForeignInv

(* A read never gets into a write: its steps lead to `submit` at most.     *)
LEMMA CallStepFrame ==
  ASSUME ClientTypeOK, NEW t \in Threads, CallStep(t)
  PROVE  Writing' = Writing /\ UNCHANGED <<batch, acked, req, pend, inst>>
<1> USE DEF ClientTypeOK, CallTypeOK, Writing, Threads, cloudVars, writeVars
<1>1. ASSUME NEW s, s \notin {"evict", "await"}, cpc[t] \notin {"evict", "await"},
             Goto(t, s) PROVE Writing' = Writing
  BY <1>1 DEF Goto
<1>2. ASSUME NEW r, NEW v, cpc[t] \notin {"evict", "await"}, Return(t, r, v)
      PROVE Writing' = Writing
  BY <1>2 DEF Return
<1>3. ASSUME NEW p \in BOOLEAN, cpc[t] \notin {"evict", "await"}, ServiceLookup(t, p)
      PROVE Writing' = Writing
  BY <1>1, <1>2, <1>3 DEF ServiceLookup
<1>4. ASSUME NEW p \in BOOLEAN, cpc[t] \notin {"evict", "await"}, NamespaceLookup(t, p)
      PROVE Writing' = Writing
  BY <1>1, <1>2, <1>4 DEF NamespaceLookup
<1>5. CASE GetServiceIds(t) BY <1>1, <1>3, <1>5 DEF GetServiceIds
<1>6. CASE GetNamespaces(t) BY <1>1, <1>4, <1>6 DEF GetNamespaces
<1>7. CASE ListNamespaces(t) BY <1>1, <1>2, <1>7 DEF ListNamespaces
<1>8. CASE CacheNamespaceMap(t) BY <1>4, <1>8 DEF CacheNamespaceMap
<1>9. CASE ListServiceIds(t) BY <1>1, <1>2, <1>9 DEF ListServiceIds
<1>10. CASE CacheServiceIdMap(t) BY <1>3, <1>10 DEF CacheServiceIdMap
<1>11. CASE GetEndpoints(t) BY <1>1, <1>2, <1>11 DEF GetEndpoints
<1>12. CASE DiscoverInstances(t) BY <1>2, <1>12 DEF DiscoverInstances
<1>13. CASE CacheEndpoints(t) BY <1>2, <1>13 DEF CacheEndpoints
<1> QED BY <1>5, <1>6, <1>7, <1>8, <1>9, <1>10, <1>11, <1>12, <1>13 DEF CallStep

(* The exporter's own steps.                                               *)
LEMMA WriterStepWriteInv ==
  ASSUME ClientTypeOK, WriteInv, WriterStep("exporter")
  PROVE  WriteInv'
<1> USE DEF ClientTypeOK, CallTypeOK, Threads, cloudVars, writeVars
<1> DEFINE t == "exporter"
<1>1. CASE CreateHttpNamespace(t)
  BY <1>1, WriteInvFrame DEF CreateHttpNamespace, Writing, Goto, Return
<1>2. CASE PollNamespace(t)
  BY <1>2, WriteInvFrame DEF PollNamespace, Writing, Goto, Return
<1>8. CASE EvictNamespaceMap(t)
  BY <1>8, WriteInvFrame DEF EvictNamespaceMap, Writing, Goto
<1>3. CASE CreateServiceRequest(t)
  BY <1>3, WriteInvFrame DEF CreateServiceRequest, Writing, Goto, Return
<1>4. CASE EvictServiceIdMap(t)
  BY <1>4, WriteInvFrame DEF EvictServiceIdMap, Writing, Return
<1>5. CASE EvictEndpoints(t)
  BY <1>5, WriteInvFrame DEF EvictEndpoints, Writing, Goto
<1>6. CASE SubmitBatch(t)
  <2>1. ~Writing /\ Writing' BY <1>6 DEF SubmitBatch, Writing, Goto
  <2>2. UNCHANGED <<req, pend, inst>> BY <1>6 DEF SubmitBatch
  <2>3. BatchInv'
    BY <1>6, <2>1, <2>2 DEF SubmitBatch, BatchInv
  <2>4. AckInv'
    BY <1>6, <2>1, <2>2 DEF SubmitBatch, WriteInv, AckInv
  <2>5. ForeignInv'
    BY <1>6, <2>2 DEF SubmitBatch, WriteInv, ForeignInv, Ids
  <2> QED BY <2>3, <2>4, <2>5 DEF WriteInv
<1>7. CASE Await(t)
  <2>1. Writing /\ ~Writing' BY <1>7 DEF Await, Writing, Return
  <2>2. UNCHANGED <<pend, inst>> BY <1>7 DEF Await
  <2>3. BatchInv'
    BY <1>7, <2>1 DEF Await, BatchInv
  <2>4. ASSUME NEW i \in Ids, acked'[i] # NoOp
        PROVE  pend[i] = NoOp /\ inst[i] = acked'[i]
    <3>1. CASE AwaitResult = "ok" /\ req[i] # NoOp
      <4>1. batch[i] \notin {"none", "call", "wait", "err"}
        BY <1>7, <2>1, <3>1 DEF Await, AwaitResult, WriteInv, BatchInv
      <4>2. batch[i] = "ok" BY <4>1 DEF WriteTypeOK
      <4> QED BY <1>7, <3>1, <4>2 DEF Await, WriteInv, AckInv
    <3>2. CASE ~(AwaitResult = "ok" /\ req[i] # NoOp)
      BY <1>7, <2>4, <3>2 DEF Await, WriteInv, AckInv
    <3> QED BY <3>1, <3>2
  <2>5. AckInv' BY <1>7, <2>2, <2>4 DEF Await, AckInv
  <2>6. ForeignInv' BY <1>7, <2>2 DEF Await, WriteInv, ForeignInv, Ids
  <2> QED BY <2>3, <2>5, <2>6 DEF WriteInv
<1> QED BY <1>1, <1>2, <1>3, <1>4, <1>5, <1>6, <1>7, <1>8 DEF WriterStep

(* The goroutines and Cloud Map.                                           *)
LEMMA CloudStepWriteInv ==
  ASSUME ClientTypeOK, WriteInv, CloudStep
  PROVE  WriteInv'
<1> USE DEF ClientTypeOK, cloudVars, writeVars, callVars
<1>t. /\ batch \in [Ids -> {"none", "call", "wait", "ok", "err"}]
      /\ pend \in [Ids -> Vals \cup {NoInst, NoOp}]
      /\ inst \in [Ids -> Vals \cup {NoInst}]
  BY DEF WriteTypeOK, CloudTypeOK, Targets, Views
<1>1. ASSUME NEW i \in Ids, RequestWrite(i) PROVE WriteInv'
  <2>1. UNCHANGED <<cpc, req, acked, inst>> BY <1>1 DEF RequestWrite
  <2>2. /\ batch' \in {[batch EXCEPT ![i] = "wait"], [batch EXCEPT ![i] = "err"]}
        /\ batch[i] = "call"
        /\ pend' = pend \/ pend' = [pend EXCEPT ![i] = req[i]]
        /\ batch' = [batch EXCEPT ![i] = "wait"] => pend' = [pend EXCEPT ![i] = req[i]]
    BY <1>1, <1>t DEF RequestWrite
  <2>3. i \notin ForeignIds /\ acked[i] = NoOp
    BY <2>2 DEF WriteInv, BatchInv, AckInv, ForeignInv
  <2>4. BatchInv' BY <1>t, <2>1, <2>2 DEF WriteInv, BatchInv, Writing
  <2>5. AckInv' BY <1>t, <2>1, <2>2, <2>3 DEF WriteInv, AckInv
  <2>6. ForeignInv' BY <1>t, <2>1, <2>2, <2>3 DEF WriteInv, ForeignInv, Ids
  <2> QED BY <2>4, <2>5, <2>6 DEF WriteInv
<1>2. ASSUME NEW i \in Ids, PollGivesUp(i) PROVE WriteInv'
  <2>1. UNCHANGED <<cpc, req, acked, inst, pend>> BY <1>2 DEF PollGivesUp
  <2>2. batch[i] = "wait" /\ batch' = [batch EXCEPT ![i] = "err"]
    BY <1>2 DEF PollGivesUp
  <2> QED BY <1>t, <2>1, <2>2
          DEF WriteInv, BatchInv, AckInv, ForeignInv, Writing
<1>3. ASSUME NEW i \in Ids, OperationEnds(i) PROVE WriteInv'
  <2>1. UNCHANGED <<cpc, req, acked>> BY <1>3 DEF OperationEnds
  <2>2. pend[i] # NoOp /\ pend' = [pend EXCEPT ![i] = NoOp] BY <1>3 DEF OperationEnds
  <2>3. i \notin ForeignIds /\ acked[i] = NoOp /\ batch[i] # "ok"
    BY <2>2 DEF WriteInv, AckInv, ForeignInv
  <2>4. /\ batch'[i] = "none" <=> batch[i] = "none"
        /\ batch'[i] # "wait"
        /\ batch'[i] = "ok" => batch[i] = "wait" /\ inst' = [inst EXCEPT ![i] = pend[i]]
        /\ \A j \in Ids : j # i => batch'[j] = batch[j] /\ inst'[j] = inst[j]
    BY <1>3, <1>t, <2>3 DEF OperationEnds
  <2>5. BatchInv' BY <2>1, <2>4 DEF WriteInv, BatchInv, Writing
  <2>6. AckInv'
    <3> SUFFICES ASSUME NEW j \in Ids
        PROVE  /\ batch'[j] # "none" => acked'[j] = NoOp
               /\ batch'[j] = "wait" => pend'[j] = req'[j]
               /\ batch'[j] = "ok" => pend'[j] = NoOp /\ inst'[j] = req'[j]
               /\ acked'[j] # NoOp => pend'[j] = NoOp /\ inst'[j] = acked'[j]
        BY DEF AckInv
    <3>1. CASE j = i BY <3>1, <1>t, <2>1, <2>2, <2>3, <2>4 DEF WriteInv, AckInv
    <3>2. CASE j # i BY <3>2, <1>t, <2>1, <2>2, <2>4 DEF WriteInv, AckInv
    <3> QED BY <3>1, <3>2
  <2>7. ForeignInv' BY <1>t, <2>1, <2>2, <2>3 DEF WriteInv, ForeignInv, Ids
  <2> QED BY <2>5, <2>6, <2>7 DEF WriteInv
<1>4. ASSUME NamespaceOperationEnds PROVE WriteInv'
  BY <1>4, WriteInvFrame DEF NamespaceOperationEnds, Writing
<1> QED BY <1>1, <1>2, <1>3, <1>4 DEF CloudStep

LEMMA ClientStepWriteInv ==
  ASSUME ClientTypeOK, WriteInv, ClientStep
  PROVE  WriteInv'
<1>1. ASSUME NEW t \in Threads, CallStep(t) PROVE WriteInv'
  BY <1>1, CallStepFrame, WriteInvFrame
<1>2. ASSUME Expire PROVE WriteInv'
  BY <1>2, WriteInvFrame
     DEF Expire, ExpireNamespaceMap, ExpireServiceIdMap, ExpireEndpoints, Writing,
         callVars, cloudVars, writeVars
<1>3. ASSUME ForeignChange PROVE WriteInv'
  <2>1. Writing' = Writing /\ UNCHANGED <<req, batch, acked, pend>>
    BY <1>3 DEF ForeignChange, Writing, callVars, writeVars
  <2>2. \A i \in Ids : i \notin ForeignIds => inst'[i] = inst[i]
    BY <1>3 DEF ForeignChange, ClientTypeOK, CloudTypeOK, Views, Ids
  <2>3. \A i \in ForeignIds : batch[i] = "none" /\ acked[i] = NoOp
    BY DEF WriteInv, BatchInv, ForeignInv, Ids
  <2> QED BY <2>1, <2>2, <2>3 DEF WriteInv, BatchInv, AckInv, ForeignInv
<1> QED BY <1>1, <1>2, <1>3, WriterStepWriteInv, CloudStepWriteInv DEF ClientStep
=============================================================================
