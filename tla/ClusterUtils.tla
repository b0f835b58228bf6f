---------------------------- MODULE ClusterUtils ----------------------------
(***************************************************************************)
(* pkg/model/cluster.go and its use by the exporter: the ClusterProperty   *)
(* objects hold the ids of the cluster and of the clusterset, and every    *)
(* ClusterUtils keeps a copy that is loaded when it is needed and not yet  *)
(* complete.  main.go passes ClusterUtils by value: the exporter and the   *)
(* client have a copy each (the importer's only gates its rounds).         *)
(*                                                                         *)
(* The exporter's copy is used without a lock by one goroutine for each    *)
(* kind of object it watches, which all pass clusterPropertyFilter (Service*)
(* Exports, ClusterProperties, Services and EndpointSlices) and may load   *)
(* it, and by the worker, which reads it (it would load it, too, but no    *)
(* event is passed on before the copy is valid).  LoadClusterProperties    *)
(* first lists the objects, then assigns the values one after the other.   *)
(*                                                                         *)
(* Abstracted: one ServiceExport with one endpoint, whose instance in Cloud*)
(* Map is the pair of ids it was registered with.  The client is taken to  *)
(* do at once what CloudMapClient does in steps, and the ServiceExport is  *)
(* read as it is: ServiceExport has the informer's lag and the failures.   *)
(***************************************************************************)
EXTENDS Naturals, FiniteSets

CONSTANTS Values,         \* what a property may be set to
          Watches,        \* what is watched besides: "services", "slices"
          NoValue,        \* the empty string: no object, or nothing loaded
          MaxChanges,     \* bound: changes of ClusterProperty objects
          MaxExports,     \* bound: ServiceExports created
          MaxRestarts     \* bound: restarts of the controller

ASSUME ClusterAssumption == /\ NoValue \notin Values
                            /\ Watches \cap {"exports", "properties", "worker"} = {}
                            /\ MaxChanges \in Nat /\ MaxExports \in Nat /\ MaxRestarts \in Nat

Names == {"ClusterId", "ClusterSetId"}
Properties == [Names -> Values \cup {NoValue}]
NoProperties == [n \in Names |-> NoValue]

(* Mutated form: either id will do.                                        *)
IsValidAny(properties) == \E n \in Names : properties[n] # NoValue

IsValid(properties) == \A n \in Names : properties[n] # NoValue
Kinds == {"exports", "properties"}
Handlers == Kinds \cup Watches
Threads == Handlers \cup {"worker"}

VARIABLES
  props, seenProps,     \* ClusterProperty objects, and the informer's copy
  copy, client,         \* the exporter's and the client's ClusterUtils
  tpc,                  \* where each goroutine is
  rest,                 \* LoadClusterProperties: the part of the list still to be assigned
  events,               \* are there events for the goroutines that handle them?
  queued,               \* is the export's key in the queue?
  export,               \* the ServiceExport: "absent", "new", "held" (finalizer), "deleting"
  clusterId,            \* the id Reconcile has passed on
  found,                \* the instance GetService returned for that id, or NoProperties
  inst,                 \* the instance in Cloud Map, or NoProperties
  given,                \* history: the values each property has had
  changes, exports, restarts

vars == <<props, seenProps, copy, client, tpc, rest, events, queued, export,
          clusterId, found, inst, given, changes, exports, restarts>>
bounds == <<given, changes, exports, restarts>>
cloud == <<client, clusterId, found, inst>>

(* The worker only goes on with an id.                                     *)
TypeOK ==
  /\ props \in Properties /\ seenProps \in Properties
  /\ copy \in Properties /\ client \in Properties
  /\ found \in Properties /\ inst \in Properties
  /\ tpc \in [Threads -> {"idle", "filter", "load", "getToUpdate", "getToDelete",
                         "update", "plan", "delete", "release"}]
  /\ rest \in [Handlers -> Properties]
  /\ events \in [Kinds -> BOOLEAN]
  /\ queued \in BOOLEAN /\ given \in [Names -> SUBSET Values]
  /\ export \in {"absent", "new", "held", "deleting"}
  /\ clusterId \in Values \cup {NoValue}
  /\ tpc["worker"] \in {"update", "plan", "delete", "release"} => clusterId \in Values
  /\ changes \in 0..MaxChanges /\ exports \in 0..MaxExports /\ restarts \in 0..MaxRestarts

Init ==
  /\ props = NoProperties /\ seenProps = NoProperties
  /\ copy = NoProperties /\ client = NoProperties
  /\ tpc = [t \in Threads |-> "idle"]
  /\ rest = [t \in Handlers |-> NoProperties]
  /\ events = [k \in Kinds |-> FALSE] /\ queued = FALSE
  /\ export = "absent" /\ clusterId = NoValue /\ found = NoProperties /\ inst = NoProperties
  /\ given = [n \in Names |-> {}] /\ changes = 0 /\ exports = 0 /\ restarts = 0

-----------------------------------------------------------------------------
(* The user, the informers and the API server (external).                  *)
SetProperty(n, v) ==
  /\ changes < MaxChanges /\ changes' = changes + 1
  /\ props[n] # v /\ props' = [props EXCEPT ![n] = v]
  /\ given' = [given EXCEPT ![n] = @ \cup ({v} \ {NoValue})]
  /\ UNCHANGED <<seenProps, copy, cloud, tpc, rest, events, queued, export, exports, restarts>>

ObserveProperty(n) ==
  /\ seenProps[n] # props[n] /\ seenProps' = [seenProps EXCEPT ![n] = props[n]]
  /\ events' = [events EXCEPT !["properties"] = TRUE]
  /\ UNCHANGED <<props, copy, cloud, tpc, rest, queued, export, bounds>>

CreateExport ==
  /\ export = "absent" /\ exports < MaxExports
  /\ export' = "new" /\ exports' = exports + 1
  /\ events' = [events EXCEPT !["exports"] = TRUE]
  /\ UNCHANGED <<props, seenProps, copy, cloud, tpc, rest, queued, given, changes, restarts>>

(* Without a finalizer it is gone at once.                                 *)
DeleteExport ==
  /\ export \in {"new", "held"}
  /\ export' = IF export = "new" THEN "absent" ELSE "deleting"
  /\ events' = [events EXCEPT !["exports"] = TRUE]
  /\ UNCHANGED <<props, seenProps, copy, cloud, tpc, rest, queued, bounds>>

(* Every ten hours the informers hand out all objects again; the events of *)
(* earlier changes have long been handled.                                 *)
AllEvents == [k \in Kinds |-> TRUE]
Resync == /\ events = [k \in Kinds |-> FALSE] /\ events' = AllEvents
          /\ UNCHANGED <<props, seenProps, copy, cloud, tpc, rest, queued, export, bounds>>

-----------------------------------------------------------------------------
Goto(t, at) == tpc' = [tpc EXCEPT ![t] = at]

(* LoadClusterProperties by handler t, which then goes on at `at`.  A      *)
(* property that is not in the list keeps the value it has.                *)
Load(t, at) ==
  /\ rest' = [rest EXCEPT ![t] = seenProps]
  /\ Goto(t, at)

(* GetClusterProperties loads a copy that is not valid.                    *)
GetClusterProperties(t, at) ==
  \/ ~IsValid(copy) /\ Load(t, at)
  \/ IsValid(copy) /\ Goto(t, at) /\ UNCHANGED rest

Assign(t) ==
  /\ \E n \in Names : /\ rest[t][n] # NoValue
                      /\ copy' = [copy EXCEPT ![n] = rest[t][n]]
                      /\ rest' = [rest EXCEPT ![t][n] = NoValue]
  /\ UNCHANGED <<props, seenProps, cloud, tpc, events, queued, export, bounds>>

Loaded(t, at) == tpc[t] = at /\ rest[t] = NoProperties
-----------------------------------------------------------------------------
(* Events.  clusterPropertyFilter drops those of all kinds as long as the  *)
(* properties are not valid.                                               *)
HandleEvent(t) ==
  /\ tpc[t] = "idle"
  /\ t \in Kinds => events[t]
  /\ events' = [k \in Kinds |-> events[k] /\ k # t]
  /\ GetClusterProperties(t, "filter")
  /\ UNCHANGED <<props, seenProps, copy, cloud, queued, export, bounds>>

(* Of a Service or an EndpointSlice, doesObjectHaveServiceExport.          *)
IsExported(t) == t \in Watches => export # "absent"

(* doesClusterPropertyExists.                                              *)
DropEvent(t) ==
  /\ Loaded(t, "filter") /\ ~(IsValid(copy) /\ IsExported(t))
  /\ Goto(t, "idle")
  /\ UNCHANGED <<props, seenProps, copy, cloud, rest, events, queued, export, bounds>>

(* Mutated form: events pass in any case.                                  *)
EnqueueAnyEvent(t) ==
  /\ Loaded(t, "filter")
  /\ queued' = TRUE /\ Goto(t, "idle")
  /\ UNCHANGED <<props, seenProps, copy, cloud, rest, events, export, bounds>>

EnqueueExport(t) ==
  /\ Loaded(t, "filter") /\ IsValid(copy) /\ IsExported(t)
  /\ queued' = TRUE /\ Goto(t, "idle")
  /\ UNCHANGED <<props, seenProps, copy, cloud, rest, events, export, bounds>>

(* Mutated form: a valid copy is not loaded anew.                          *)
MapPropertyIfInvalid ==
  /\ Loaded("properties", "filter") /\ IsValid(copy)
  /\ GetClusterProperties("properties", "load")
  /\ UNCHANGED <<props, seenProps, copy, cloud, events, queued, export, bounds>>

(* clusterPropertyMappingFunction: load anew, then enqueue all exports.    *)
MapProperty ==
  /\ Loaded("properties", "filter") /\ IsValid(copy)
  /\ Load("properties", "load")
  /\ UNCHANGED <<props, seenProps, copy, cloud, events, queued, export, bounds>>

EnqueueAllExports ==
  /\ Loaded("properties", "load")
  /\ queued' = (queued \/ (IsValid(copy) /\ export # "absent"))
  /\ Goto("properties", "idle")
  /\ UNCHANGED <<props, seenProps, copy, cloud, rest, events, export, bounds>>

-----------------------------------------------------------------------------
(* The worker.                                                             *)
Requeue == queued' = TRUE /\ Goto("worker", "idle")

(* The ServiceExport is read first, then the properties.                   *)
Reconcile ==
  /\ tpc["worker"] = "idle" /\ queued /\ queued' = FALSE
  /\ Goto("worker", CASE export = "absent" -> "idle"
                      [] export = "deleting" -> "getToDelete"
                      [] OTHER -> "getToUpdate")
  /\ UNCHANGED <<props, seenProps, copy, cloud, rest, events, export, bounds>>

(* GetClusterProperties finds a valid copy here, as TypeOK says.           *)
GotClusterProperties ==
  /\ \/ tpc["worker"] = "getToUpdate" /\ Goto("worker", "update")
     \/ tpc["worker"] = "getToDelete" /\ Goto("worker", "delete")
  /\ clusterId' = copy["ClusterId"]
  /\ UNCHANGED <<props, seenProps, copy, client, found, inst, rest, events, queued, export, bounds>>

(* Mutated form: without properties the client finds nothing and goes on.  *)
GetServiceAnyway(at) ==
  LET mine == inst["ClusterSetId"] = client["ClusterSetId"] /\ inst["ClusterId"] = clusterId
  IN /\ client' = seenProps
     /\ found' = IF mine THEN inst ELSE NoProperties
     /\ Goto("worker", at) /\ UNCHANGED queued

(* GetService, for the endpoints with clusterId: the client asks Cloud Map *)
(* for the instances of the clusterset that its own copy names.            *)
GetService(at) ==
  LET loaded == IF IsValid(client) THEN client
                ELSE [n \in Names |-> IF seenProps[n] # NoValue THEN seenProps[n] ELSE client[n]]
      mine == inst["ClusterSetId"] = loaded["ClusterSetId"] /\ inst["ClusterId"] = clusterId
  IN /\ client' = loaded
     /\ \/ /\ IsValid(loaded)
           /\ found' = IF mine THEN inst ELSE NoProperties
           /\ Goto("worker", at) /\ UNCHANGED queued
        \/ ~IsValid(loaded) /\ Requeue /\ UNCHANGED found

(* handleUpdate: the finalizer, then the service.                          *)
HandleUpdate ==
  /\ tpc["worker"] = "update"
  /\ \/ export = "absent" /\ Requeue /\ UNCHANGED <<client, found, export>>
     \/ /\ export # "absent" /\ export' = IF export = "new" THEN "held" ELSE export
        /\ GetService("plan")
  /\ UNCHANGED <<props, seenProps, copy, rest, events, clusterId, inst, bounds>>

(* extractEndpoints uses what the copy has by now.                         *)
RegisterEndpoints ==
  /\ tpc["worker"] = "plan"
  /\ inst' = IF found = copy THEN inst ELSE copy
  /\ found' = NoProperties /\ clusterId' = NoValue /\ Goto("worker", "idle")
  /\ UNCHANGED <<props, seenProps, copy, client, rest, events, queued, export, bounds>>

HandleDelete ==
  /\ tpc["worker"] = "delete"
  /\ GetService("release")
  /\ UNCHANGED <<props, seenProps, copy, rest, events, export, clusterId, inst, bounds>>

(* Delete the endpoints found and remove the finalizer.                    *)
DeleteEndpoints ==
  /\ tpc["worker"] = "release"
  /\ inst' = IF found = NoProperties THEN inst ELSE NoProperties
  /\ export' = "absent" /\ found' = NoProperties /\ clusterId' = NoValue /\ Goto("worker", "idle")
  /\ UNCHANGED <<props, seenProps, copy, client, rest, events, queued, bounds>>

-----------------------------------------------------------------------------
(* The controller is killed and started again: nothing is loaded, and the  *)
(* informers hand out all objects.                                         *)
Restart ==
  /\ restarts < MaxRestarts /\ restarts' = restarts + 1
  /\ seenProps' = props /\ copy' = NoProperties /\ client' = NoProperties
  /\ tpc' = [t \in Threads |-> "idle"]
  /\ rest' = [t \in Handlers |-> NoProperties]
  /\ events' = AllEvents /\ queued' = FALSE
  /\ clusterId' = NoValue /\ found' = NoProperties
  /\ UNCHANGED <<props, export, inst, given, changes, exports>>

ExportsStep(t) == HandleEvent(t) \/ Assign(t) \/ DropEvent(t) \/ EnqueueExport(t)

PropertiesStep == HandleEvent("properties") \/ Assign("properties") \/ DropEvent("properties")
                  \/ MapProperty \/ EnqueueAllExports

WorkerStep == Reconcile \/ GotClusterProperties
              \/ HandleUpdate \/ RegisterEndpoints \/ HandleDelete \/ DeleteEndpoints

Next ==
  \/ \E t \in {"exports"} \cup Watches : ExportsStep(t)
  \/ PropertiesStep \/ WorkerStep
  \/ \E n \in Names, v \in Values \cup {NoValue} : SetProperty(n, v)
  \/ \E n \in Names : ObserveProperty(n)
  \/ CreateExport \/ DeleteExport \/ Resync \/ Restart

Spec == Init /\ [][Next]_vars

(* The goroutines run, the informers follow and resync; users need not act.*)
FairSpec ==
  /\ Spec
  /\ WF_vars(ExportsStep("exports"))
  /\ \A t \in Watches : WF_vars(tpc[t] # "idle" /\ ExportsStep(t))
  /\ WF_vars(PropertiesStep) /\ WF_vars(WorkerStep)
  /\ \A n \in Names : WF_vars(ObserveProperty(n))
  /\ WF_vars(Resync)

-----------------------------------------------------------------------------
Renamed == \E n \in Names : Cardinality(given[n]) > 1

(* No endpoint is ever registered without the ids of cluster and clusterset*)
(* although goroutines assign them one by one while others read them.      *)
NeverUnidentified == inst # NoProperties => \A n \in Names : inst[n] # NoValue

(* "perform cloudmap resource cleanup on delete" (utils.go:24): as long as *)
(* no property is given another value, an export that is gone has left no  *)
(* instance, whenever the properties came, went or the controller started. *)
CleanedUp == (export = "absent" /\ ~Renamed) => inst = NoProperties

(* Events that were dropped for want of properties are made up for, and    *)
(* values that changed reach Cloud Map: in the end an export is registered *)
(* with the properties, or deleted.                                        *)
PropertiesReach ==
  <>[](IsValid(props) => /\ export # "deleting"
                         /\ export \in {"new", "held"} => inst = props)
=============================================================================
