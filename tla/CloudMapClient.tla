--------------------------- MODULE CloudMapClient ---------------------------
(***************************************************************************)
(* pkg/cloudmap/client.go and cache.go for one namespace and one service:  *)
(* the calls of ServiceDiscoveryClient, which share three TTL caches and   *)
(* talk to AWS Cloud Map (external).                                       *)
(*                                                                         *)
(* Two goroutines use the client: "exporter", the only worker of           *)
(* ServiceExportReconciler, which calls everything but ListServices, and   *)
(* "importer", the loop of CloudMapReconciler, which calls ListServices    *)
(* every two seconds.  A call advances step by step (cpc): each access to  *)
(* a cache and each request to Cloud Map is a step of its own, so an answer*)
(* may be stored long after Cloud Map gave it.                             *)
(*                                                                         *)
(* Abstracted: an endpoint is its id and a value that stands for all its   *)
(* other fields; a list of endpoints is a function from ids (NoInst where  *)
(* the list has none); the namespace and service-id maps are reduced to    *)
(* whether they hold this namespace and this service; the goroutines of the*)
(* OperationPoller are reduced to what BatchAwait promises of them.        *)
(* DiscoverInstances is taken to be consistent and to return every instance.*)
(***************************************************************************)
EXTENDS Integers

CONSTANTS OwnIds,       \* endpoint ids of this cluster
          ForeignIds,   \* endpoint ids of the other clusters of the clusterset
          Vals,         \* contents of an endpoint
          NoInst,       \* no endpoint under this id
          NoOp,         \* no operation
          MaxErrors,    \* bound: requests Cloud Map refuses or fails
          MaxLost,      \* bound: operations whose outcome the poll never learns
          MaxForeign    \* bound: changes made by other clusters

ASSUME ClientAssumption ==
  /\ OwnIds \cap ForeignIds = {}
  /\ NoInst \notin Vals /\ NoOp \notin Vals /\ NoInst # NoOp
  /\ MaxErrors \in Nat /\ MaxLost \in Nat /\ MaxForeign \in Nat

Ids == OwnIds \cup ForeignIds
Views == [Ids -> Vals \cup {NoInst}]
Empty == [i \in Ids |-> NoInst]
Threads == {"exporter", "importer"}

VARIABLES
  nsExists, nsPend,     \* the namespace in Cloud Map; is its creation under way?
  svcExists,            \* the service in Cloud Map
  inst,                 \* its instances
  pend,                 \* pend[i]: what the accepted operation on i will make of it
  nsCache, svcCache,    \* defaultCache: "miss", or whether the cached map has it
  epCache,              \* endpointsCache: [hit, view]
  cpc, fn,              \* per thread: step and name of the client call
  found, view, ret,     \* per thread: answer held, endpoints returned, error returned
  req,                  \* the endpoints of the write call, as they are to become
  batch,                \* batch[i]: the poller's goroutine for i
  acked,                \* history: what the last write of i that returned nil asked for
  errors, lost, foreign \* how often what MaxErrors, MaxLost, MaxForeign bound happened

cloudVars == <<nsExists, nsPend, svcExists, inst, pend>>
cacheVars == <<nsCache, svcCache, epCache>>
callVars == <<cpc, fn, found, view, ret>>
writeVars == <<req, batch, acked>>
faultVars == <<errors, lost, foreign>>
clientVars == <<cloudVars, cacheVars, callVars, writeVars, faultVars>>

ReadSteps == {"ids", "ns", "listns", "putns", "listsvc", "putsvc", "eps",
              "discover", "puteps"}
CreateSteps == {"createns", "pollns", "evictns", "createsvc", "evictsvc"}
WriteSteps == {"submit", "evict", "await"}

Steps == {"idle"} \cup ReadSteps \cup CreateSteps \cup WriteSteps
Calls == {"none", "list", "get", "create", "register", "delete"}
Targets == [Ids -> Vals \cup {NoInst, NoOp}]

CloudTypeOK == /\ nsExists \in BOOLEAN /\ nsPend \in BOOLEAN /\ svcExists \in BOOLEAN
               /\ inst \in Views /\ pend \in Targets
CacheTypeOK == /\ nsCache \in {"miss", "absent", "present"}
               /\ svcCache \in {"miss", "absent", "present"}
               /\ epCache \in [hit : BOOLEAN, view : Views]
CallTypeOK == /\ cpc \in [Threads -> Steps] /\ fn \in [Threads -> Calls]
              /\ view \in [Threads -> Views]
              /\ ret \in [Threads -> {"none", "ok", "notfound", "unknown"}]
WriteTypeOK == /\ req \in Targets /\ acked \in Targets
               /\ batch \in [Ids -> {"none", "call", "wait", "ok", "err"}]
FaultTypeOK == errors \in 0..MaxErrors /\ lost \in 0..MaxLost /\ foreign \in 0..MaxForeign

ClientTypeOK == /\ CloudTypeOK /\ CacheTypeOK /\ CallTypeOK /\ WriteTypeOK
                /\ FaultTypeOK /\ found \in [Threads -> BOOLEAN]

ClientInit ==
  /\ nsExists \in BOOLEAN /\ nsPend = FALSE
  /\ svcExists \in BOOLEAN /\ (svcExists => nsExists)
  /\ inst = Empty
  /\ pend = [i \in Ids |-> NoOp]
  /\ nsCache = "miss" /\ svcCache = "miss"
  /\ epCache = [hit |-> FALSE, view |-> Empty]
  /\ cpc = [t \in Threads |-> "idle"] /\ fn = [t \in Threads |-> "none"]
  /\ found = [t \in Threads |-> FALSE] /\ view = [t \in Threads |-> Empty]
  /\ ret = [t \in Threads |-> "none"]
  /\ req = [i \in Ids |-> NoOp]
  /\ batch = [i \in Ids |-> "none"]
  /\ acked = [i \in Ids |-> NoOp]
  /\ errors = 0 /\ lost = 0 /\ foreign = 0

-----------------------------------------------------------------------------
(* Control of a call.                                                      *)
Goto(t, step) == cpc' = [cpc EXCEPT ![t] = step] /\ UNCHANGED <<fn, ret, view>>

(* The call returns error r and endpoints v.  What ListServices returns is *)
(* used outside this module and forgotten here.                            *)
Return(t, r, v) ==
  /\ cpc' = [cpc EXCEPT ![t] = "idle"]
  /\ fn' = [fn EXCEPT ![t] = "none"]
  /\ ret' = [ret EXCEPT ![t] = IF t = "importer" THEN "none" ELSE r]
  /\ view' = [view EXCEPT ![t] = IF t = "importer" THEN Empty ELSE v]

(* A call of the client starts: f at its first step.                       *)
Call(t, f, step) == /\ cpc' = [cpc EXCEPT ![t] = step]
                    /\ fn' = [fn EXCEPT ![t] = f]
                    /\ ret' = [ret EXCEPT ![t] = "none"]

(* Nothing of the client moves.                                            *)
NoCall == UNCHANGED <<cpc, fn, found, view, ret, req>>

(* A request to Cloud Map that is refused: throttled, unavailable, denied. *)
Refused == errors < MaxErrors /\ errors' = errors + 1 /\ UNCHANGED <<lost, foreign>>

(* ListServices and GetService: the start of each.  GetService looks at the*)
(* endpoints cache before it asks for the service id.                      *)
CallListServices == /\ Call("importer", "list", "ids")
                    /\ UNCHANGED <<found, view, req>>

CallGetService ==
  IF epCache.hit
  THEN /\ Return("exporter", "ok", epCache.view)
       /\ UNCHANGED <<found, req>>
  ELSE /\ Call("exporter", "get", "ids")
       /\ view' = [view EXCEPT !["exporter"] = Empty]
       /\ UNCHANGED <<found, req>>

(* CreateService starts by looking the namespace up.                       *)
CallCreateService == /\ Call("exporter", "create", "ns")
                     /\ UNCHANGED <<found, view, req>>

(* RegisterEndpoints and DeleteEndpoints: nothing is done for an empty     *)
(* list.  r maps the ids to write to what they are to become.              *)
CallWrite(f, r) ==
  IF \A i \in Ids : r[i] = NoOp
  THEN /\ Return("exporter", "ok", view["exporter"])
       /\ UNCHANGED <<found, req>>
  ELSE /\ Call("exporter", f, "ids")
       /\ req' = r
       /\ UNCHANGED <<found, view>>

RegisterEndpoints(r) == CallWrite("register", r)
DeleteEndpoints(S) ==
  CallWrite("delete", [i \in Ids |-> IF i \in S THEN NoInst ELSE NoOp])

-----------------------------------------------------------------------------
(* What getServiceId and ListServices make of the service-id map, and      *)
(* getNamespace of the namespace map.                                      *)
ServiceLookup(t, present) ==
  CASE present /\ fn[t] \in {"list", "get"}        -> Goto(t, "eps")
    [] present /\ fn[t] \in {"register", "delete"} -> Goto(t, "submit")
    [] ~present /\ fn[t] = "list"                  -> Return(t, "ok", Empty)
    [] OTHER                                       -> Return(t, "notfound", Empty)

NamespaceLookup(t, present) ==
  CASE present /\ fn[t] = "create"  -> Goto(t, "createsvc")
    [] ~present /\ fn[t] = "create" -> Goto(t, "createns")
    [] present /\ fn[t] # "create"  -> Goto(t, "listsvc")
    [] ~present /\ fn[t] = "list"   -> Return(t, "ok", Empty)
    [] OTHER                        -> Return(t, "notfound", Empty)

(* getServiceIds: the cached map, or the namespace first.                  *)
GetServiceIds(t) ==
  /\ cpc[t] = "ids"
  /\ IF svcCache = "miss" THEN Goto(t, "ns")
                          ELSE ServiceLookup(t, svcCache = "present")
  /\ UNCHANGED <<found, cloudVars, cacheVars, writeVars, faultVars>>

(* getNamespaces: the cached map, or a request.                            *)
GetNamespaces(t) ==
  /\ cpc[t] = "ns"
  /\ IF nsCache = "miss" THEN Goto(t, "listns")
                         ELSE NamespaceLookup(t, nsCache = "present")
  /\ UNCHANGED <<found, cloudVars, cacheVars, writeVars, faultVars>>

(* sdApi.GetNamespaceMap, then CacheNamespaceMap.                          *)
ListNamespaces(t) ==
  /\ cpc[t] = "listns"
  /\ \/ /\ found' = [found EXCEPT ![t] = nsExists]
        /\ Goto(t, "putns")
        /\ UNCHANGED faultVars
     \/ /\ Refused
        /\ Return(t, "unknown", Empty)
        /\ UNCHANGED found
  /\ UNCHANGED <<cloudVars, cacheVars, writeVars>>

CacheNamespaceMap(t) ==
  /\ cpc[t] = "putns"
  /\ nsCache' = IF found[t] THEN "present" ELSE "absent"
  /\ found' = [found EXCEPT ![t] = FALSE]
  /\ NamespaceLookup(t, found[t])
  /\ UNCHANGED <<svcCache, epCache, cloudVars, writeVars, faultVars>>

(* sdApi.GetServiceIdMap, then CacheServiceIdMap.                          *)
ListServiceIds(t) ==
  /\ cpc[t] = "listsvc"
  /\ \/ /\ found' = [found EXCEPT ![t] = svcExists]
        /\ Goto(t, "putsvc")
        /\ UNCHANGED faultVars
     \/ /\ Refused
        /\ Return(t, "unknown", Empty)
        /\ UNCHANGED found
  /\ UNCHANGED <<cloudVars, cacheVars, writeVars>>

CacheServiceIdMap(t) ==
  /\ cpc[t] = "putsvc"
  /\ svcCache' = IF found[t] THEN "present" ELSE "absent"
  /\ found' = [found EXCEPT ![t] = FALSE]
  /\ ServiceLookup(t, found[t])
  /\ UNCHANGED <<nsCache, epCache, cloudVars, writeVars, faultVars>>

(* getEndpoints: the cached list, or DiscoverInstances and CacheEndpoints. *)
GetEndpoints(t) ==
  /\ cpc[t] = "eps"
  /\ IF epCache.hit THEN Return(t, "ok", epCache.view) ELSE Goto(t, "discover")
  /\ UNCHANGED <<found, cloudVars, cacheVars, writeVars, faultVars>>

DiscoverInstances(t) ==
  /\ cpc[t] = "discover"
  /\ \/ /\ view' = [view EXCEPT ![t] = inst]
        /\ cpc' = [cpc EXCEPT ![t] = "puteps"]
        /\ UNCHANGED <<fn, ret, faultVars>>
     \/ /\ Refused
        /\ Return(t, "unknown", Empty)
  /\ UNCHANGED <<found, cloudVars, cacheVars, writeVars>>

CacheEndpoints(t) ==
  /\ cpc[t] = "puteps"
  /\ epCache' = [hit |-> TRUE, view |-> view[t]]
  /\ Return(t, "ok", view[t])
  /\ UNCHANGED <<found, nsCache, svcCache, cloudVars, writeVars, faultVars>>

-----------------------------------------------------------------------------
(* createNamespace: CreateHttpNamespace is refused when the namespace is   *)
(* there already; otherwise its operation is polled to its end.            *)
CreateHttpNamespace(t) ==
  /\ cpc[t] = "createns"
  /\ \/ /\ ~nsExists /\ ~nsPend
        /\ nsPend' = TRUE
        /\ Goto(t, "pollns")
        /\ UNCHANGED faultVars
     \/ /\ nsExists \/ nsPend
        /\ Return(t, "unknown", Empty)
        /\ UNCHANGED <<nsPend, faultVars>>
     \/ /\ Refused
        /\ Return(t, "unknown", Empty)
        /\ UNCHANGED nsPend
  /\ UNCHANGED <<found, nsExists, svcExists, inst, pend, cacheVars, writeVars>>

(* Poll has seen the end of the operation, or gives up while the operation *)
(* is still under way.                                                     *)
PollNamespace(t) ==
  /\ cpc[t] = "pollns"
  /\ \/ ~nsPend /\ nsExists /\ Goto(t, "evictns") /\ UNCHANGED faultVars
     \/ ~nsPend /\ ~nsExists /\ Return(t, "unknown", Empty) /\ UNCHANGED faultVars
     \/ /\ nsPend
        /\ lost < MaxLost /\ lost' = lost + 1 /\ UNCHANGED <<errors, foreign>>
        /\ Return(t, "unknown", Empty)
  /\ UNCHANGED <<found, cacheVars, cloudVars, writeVars>>

EvictNamespaceMap(t) ==
  /\ cpc[t] = "evictns"
  /\ nsCache' = "miss"
  /\ Goto(t, "createsvc")
  /\ UNCHANGED <<found, svcCache, epCache, cloudVars, writeVars, faultVars>>

(* sdApi.CreateService, refused when the service is there already.         *)
CreateServiceRequest(t) ==
  /\ cpc[t] = "createsvc"
  /\ \/ /\ ~svcExists
        /\ svcExists' = TRUE
        /\ Goto(t, "evictsvc")
        /\ UNCHANGED faultVars
     \/ /\ svcExists
        /\ Return(t, "unknown", Empty)
        /\ UNCHANGED <<svcExists, faultVars>>
     \/ /\ Refused
        /\ Return(t, "unknown", Empty)
        /\ UNCHANGED svcExists
  /\ UNCHANGED <<found, nsExists, nsPend, inst, pend, cacheVars, writeVars>>

EvictServiceIdMap(t) ==
  /\ cpc[t] = "evictsvc"
  /\ svcCache' = "miss"
  /\ Return(t, "ok", Empty)
  /\ UNCHANGED <<found, nsCache, epCache, cloudVars, writeVars, faultVars>>

-----------------------------------------------------------------------------
(* RegisterEndpoints and DeleteEndpoints, once they have the service id:   *)
(* operationPoller.Submit starts a goroutine per endpoint.                 *)
SubmitBatch(t) ==
  /\ cpc[t] = "submit"
  /\ batch' = [i \in Ids |-> IF req[i] = NoOp THEN "none" ELSE "call"]
  /\ acked' = [i \in Ids |-> IF req[i] = NoOp THEN acked[i] ELSE NoOp]
  /\ Goto(t, "evict")
  /\ UNCHANGED <<found, req, cloudVars, cacheVars, faultVars>>

(* Mutated form: the cached endpoints survive the write.                   *)
EvictNothing(t) ==
  /\ cpc[t] = "evict"
  /\ Goto(t, "await")
  /\ UNCHANGED <<found, cloudVars, cacheVars, writeVars, faultVars>>

(* EvictEndpoints, while the goroutines run.                               *)
EvictEndpoints(t) ==
  /\ cpc[t] = "evict"
  /\ epCache' = [hit |-> FALSE, view |-> Empty]
  /\ Goto(t, "await")
  /\ UNCHANGED <<found, nsCache, svcCache, cloudVars, writeVars, faultVars>>

(* The request of the goroutine of endpoint i.  Cloud Map refuses it while *)
(* another operation on the instance is under way, and a deregistration of *)
(* an instance it does not have; a lost answer leaves the operation behind.*)
RequestWrite(i) ==
  /\ batch[i] = "call"
  /\ LET acceptable == pend[i] = NoOp /\ ~(req[i] = NoInst /\ inst[i] = NoInst)
     IN \/ /\ acceptable
           /\ pend' = [pend EXCEPT ![i] = req[i]]
           /\ batch' = [batch EXCEPT ![i] = "wait"]
           /\ UNCHANGED faultVars
        \/ /\ acceptable
           /\ lost < MaxLost /\ lost' = lost + 1 /\ UNCHANGED <<errors, foreign>>
           /\ pend' = [pend EXCEPT ![i] = req[i]]
           /\ batch' = [batch EXCEPT ![i] = "err"]
        \/ /\ ~acceptable
           /\ batch' = [batch EXCEPT ![i] = "err"]
           /\ UNCHANGED <<pend, faultVars>>
        \/ /\ Refused
           /\ batch' = [batch EXCEPT ![i] = "err"]
           /\ UNCHANGED pend
  /\ UNCHANGED <<nsExists, nsPend, svcExists, inst, cacheVars, callVars, req, acked>>

(* The poll gives up, or GetOperation fails: the operation goes on.        *)
PollGivesUp(i) ==
  /\ batch[i] = "wait"
  /\ lost < MaxLost /\ lost' = lost + 1
  /\ batch' = [batch EXCEPT ![i] = "err"]
  /\ UNCHANGED <<errors, foreign, cloudVars, cacheVars, callVars, req, acked>>

(* Mutated forms: Await reports success whatever the operations became; an *)
(* error of a third kind, neither NotFound nor unknown.                    *)
AwaitResultOk == "ok"
AwaitResultOther == IF \E i \in Ids : batch[i] = "err" THEN "failed" ELSE "ok"

(* The error Await returns.                                                *)
AwaitResult == IF \E i \in Ids : batch[i] = "err" THEN "unknown" ELSE "ok"

(* operationPoller.Await returns when every goroutine has its result.      *)
Await(t) ==
  /\ cpc[t] = "await"
  /\ \A i \in Ids : batch[i] \notin {"call", "wait"}
  /\ acked' = [i \in Ids |-> IF AwaitResult = "ok" /\ req[i] # NoOp
                             THEN req[i] ELSE acked[i]]
  /\ batch' = [i \in Ids |-> "none"]
  /\ req' = [i \in Ids |-> NoOp]
  /\ Return(t, AwaitResult, Empty)
  /\ UNCHANGED <<found, cloudVars, cacheVars, faultVars>>

-----------------------------------------------------------------------------
(* Cloud Map (external) ends an operation it has accepted, in success or   *)
(* failure; the poll that watches it sees the status.                      *)
OperationEnds(i) ==
  /\ pend[i] # NoOp
  /\ pend' = [pend EXCEPT ![i] = NoOp]
  /\ \/ /\ inst' = [inst EXCEPT ![i] = pend[i]]
        /\ batch' = [batch EXCEPT ![i] = IF @ = "wait" THEN "ok" ELSE @]
        /\ UNCHANGED faultVars
     \/ /\ Refused
        /\ batch' = [batch EXCEPT ![i] = IF @ = "wait" THEN "err" ELSE @]
        /\ UNCHANGED inst
  /\ UNCHANGED <<nsExists, nsPend, svcExists, cacheVars, callVars, req, acked>>

NamespaceOperationEnds ==
  /\ nsPend
  /\ nsPend' = FALSE
  /\ \/ nsExists' = TRUE /\ UNCHANGED faultVars
     \/ Refused /\ UNCHANGED nsExists
  /\ UNCHANGED <<svcExists, inst, pend, cacheVars, callVars, writeVars>>

(* Other clusters (external) create the namespace and the service and      *)
(* register and deregister instances of their own.                         *)
ForeignChange ==
  /\ foreign < MaxForeign /\ foreign' = foreign + 1 /\ UNCHANGED <<errors, lost>>
  /\ \/ ~nsExists /\ nsExists' = TRUE /\ UNCHANGED <<svcExists, inst>>
     \/ nsExists /\ ~svcExists /\ svcExists' = TRUE /\ UNCHANGED <<nsExists, inst>>
     \/ /\ svcExists
        /\ \E i \in ForeignIds, v \in Vals \cup {NoInst} :
              v # inst[i] /\ inst' = [inst EXCEPT ![i] = v]
        /\ UNCHANGED <<nsExists, svcExists>>
  /\ UNCHANGED <<nsPend, pend, cacheVars, callVars, writeVars>>

(* cache.LRUExpireCache drops an entry whose TTL is over (10 s, 10 s, 5 s).*)
ExpireNamespaceMap == /\ nsCache # "miss" /\ nsCache' = "miss"
                      /\ UNCHANGED <<svcCache, epCache, cloudVars, callVars,
                                     writeVars, faultVars>>

ExpireServiceIdMap == /\ svcCache # "miss" /\ svcCache' = "miss"
                      /\ UNCHANGED <<nsCache, epCache, cloudVars, callVars,
                                     writeVars, faultVars>>

ExpireEndpoints == /\ epCache.hit
                   /\ epCache' = [hit |-> FALSE, view |-> Empty]
                   /\ UNCHANGED <<nsCache, svcCache, cloudVars, callVars,
                                  writeVars, faultVars>>

-----------------------------------------------------------------------------
(* The steps of a call, of the poller's goroutines and of the outside world.*)
CallStep(t) ==
  \/ GetServiceIds(t) \/ GetNamespaces(t) \/ ListNamespaces(t)
  \/ CacheNamespaceMap(t) \/ ListServiceIds(t) \/ CacheServiceIdMap(t)
  \/ GetEndpoints(t) \/ DiscoverInstances(t) \/ CacheEndpoints(t)

WriterStep(t) ==
  \/ CreateHttpNamespace(t) \/ PollNamespace(t) \/ EvictNamespaceMap(t)
  \/ CreateServiceRequest(t)
  \/ EvictServiceIdMap(t) \/ SubmitBatch(t) \/ EvictEndpoints(t) \/ Await(t)

CloudStep == \/ \E i \in Ids : RequestWrite(i) \/ PollGivesUp(i) \/ OperationEnds(i)
             \/ NamespaceOperationEnds

Expire == ExpireNamespaceMap \/ ExpireServiceIdMap \/ ExpireEndpoints

ClientStep == \/ \E t \in Threads : CallStep(t)
              \/ WriterStep("exporter")
              \/ CloudStep \/ Expire \/ ForeignChange

-----------------------------------------------------------------------------
(* RegisterEndpoints or DeleteEndpoints returned nil: until the next write *)
(* of the endpoint, Cloud Map has what was asked for, also when operations *)
(* of earlier, failed calls end late.                                      *)
AckedIsApplied == \A i \in Ids : acked[i] # NoOp => inst[i] = acked[i]
=============================================================================
