------------------------- MODULE CloudMapReconciler -------------------------
(***************************************************************************)
(* pkg/controllers/multicluster/cloudmap_controller.go: the rounds in which*)
(* the importer makes ServiceImports, derived Services and EndpointSlices  *)
(* of what Cloud Map has, in one namespace, every request a step.          *)
(*                                                                         *)
(* Get and List of ServiceImports and Services read the informer's copies, *)
(* which follow the API server at their own pace: a Get right after the    *)
(* Create may find nothing, an Update made from an outdated copy is a      *)
(* conflict.  ListServices has no writer on this side: an answer from the  *)
(* client's cache is as if Cloud Map changed later, and it is read at once.*)
(*                                                                         *)
(* Abstracted: an endpoint is its service port and service type, and       *)
(* updateEndpointSlices is the one request it makes when the endpoints of a*)
(* cluster fit a slice (EndpointSlices has the rest); uid and ClusterIP of *)
(* a derived Service are one value; DerivedName is taken to be injective.  *)
(***************************************************************************)
EXTENDS Naturals, FiniteSets

CONSTANTS Svcs, Clusters,
          PortIds,        \* "protocol:port" of a service port
          PortNames,      \* its other fields: name and target port
          Exports,        \* the sets of endpoints a cluster may have of a service
          Uids,           \* bound: uids (and IPs) in use at one time
          NoObject,       \* no object of that name
          MaxChanges,     \* bound: changes of Cloud Map
          MaxErrors       \* bound: requests that fail, and restarts

Ports == [id : PortIds, name : PortNames]
Types == {"ClusterSetIP", "Headless"}
Endpoints == [port : Ports, type : Types]
ServiceImports == [uid : Uids, ips : [Uids \cup {"None"} -> Nat], ports : SUBSET Ports,
                   type : Types, clusters : SUBSET Clusters]
DerivedServices == [uid : Uids, owner : Uids, ip : Uids \cup {"None"}, ports : SUBSET Ports]
EndpointSlices == [owner : Uids, eps : SUBSET Endpoints]

ASSUME ImportAssumption ==
  /\ Exports \subseteq SUBSET Endpoints /\ {} \in Exports
  /\ "None" \notin Uids
  /\ MaxChanges \in Nat /\ MaxErrors \in Nat
  /\ NoObject \notin ServiceImports \cup DerivedServices \cup EndpointSlices \cup Svcs

VARIABLES
  cloud,                      \* the endpoints of each service and cluster in Cloud Map
  imports, derived, slices,   \* the objects in the API server
  seenImports, seenDerived,   \* the informer's copies
  pc,                         \* where the round is
  desired,                    \* desiredServices
  todo,                       \* the services still to be reconciled
  existing,                   \* existingImportsMap
  svc, svcImport,             \* the service being reconciled, its ServiceImport
  clusterIds,                 \* the clusters whose turn is still to come
  cluster, derivedService,    \* the cluster whose turn it is, its derived Service
  clusterIPs,                 \* the IPs of derivedServices
  absent,                     \* the derived Services still to be deleted
  changed, errors

objects == <<imports, derived, slices>>
copies == <<seenImports, seenDerived>>
service == <<svc, svcImport, clusterIds, cluster, derivedService, clusterIPs, absent>>
env == <<cloud, copies, changed, errors>>
vars == <<cloud, objects, copies, pc, desired, todo, existing, service, changed, errors>>

NoIPs == [i \in Uids \cup {"None"} |-> 0]
Keys == Svcs \X Clusters
Exporting(s) == {c \in Clusters : desired[s][c] # {}}

ObjectTypeOK ==
  /\ imports \in [Svcs -> ServiceImports \cup {NoObject}]
  /\ derived \in [Keys -> DerivedServices \cup {NoObject}]
  /\ slices \in [Keys -> EndpointSlices \cup {NoObject}]

EnvTypeOK ==
  /\ cloud \in [Svcs -> [Clusters -> Exports]]
  /\ seenImports \in [Svcs -> ServiceImports \cup {NoObject}]
  /\ seenDerived \in [Keys -> DerivedServices \cup {NoObject}]
  /\ changed \in 0..MaxChanges /\ errors \in 0..MaxErrors

RoundTypeOK ==
  /\ pc \in {"idle", "services", "getImport", "clusters", "getDerived", "derived",
             "slices", "absent", "deleteDerived", "delete"}
  /\ desired \in [Svcs -> [Clusters -> Exports]]
  /\ todo \subseteq Svcs /\ existing \subseteq Svcs

(* The reconciler goes on only with objects it has got.                    *)
ServiceTypeOK ==
  /\ svc \in Svcs \cup {NoObject} /\ svcImport \in ServiceImports \cup {NoObject}
  /\ clusterIds \subseteq Clusters /\ absent \subseteq Clusters
  /\ cluster \in Clusters \cup {NoObject}
  /\ derivedService \in DerivedServices \cup {NoObject}
  /\ clusterIPs \in [Uids \cup {"None"} -> Nat]
  /\ pc \in {"clusters", "getDerived", "derived", "slices", "absent", "deleteDerived"}
       => svcImport # NoObject
  /\ pc \in {"derived", "slices"} => derivedService # NoObject

TypeOK == ObjectTypeOK /\ EnvTypeOK /\ RoundTypeOK /\ ServiceTypeOK

Nothing == [s \in Svcs |-> [c \in Clusters |-> {}]]

(* The variables of a round, and those of reconcileService, go out of scope. *)
RoundEnds == /\ pc' = "idle" /\ desired' = Nothing /\ todo' = {} /\ existing' = {}

ServiceEnds ==
  /\ svc' = NoObject /\ svcImport' = NoObject
  /\ clusterIds' = {} /\ cluster' = NoObject /\ derivedService' = NoObject
  /\ clusterIPs' = NoIPs /\ absent' = {}

Init ==
  /\ cloud = Nothing
  /\ imports = [s \in Svcs |-> NoObject] /\ seenImports = imports
  /\ derived = [k \in Keys |-> NoObject] /\ seenDerived = derived
  /\ slices = [k \in Keys |-> NoObject]
  /\ pc = "idle" /\ desired = Nothing /\ todo = {} /\ existing = {}
  /\ svc = NoObject /\ svcImport = NoObject /\ clusterIds = {}
  /\ cluster = NoObject /\ derivedService = NoObject /\ clusterIPs = NoIPs /\ absent = {}
  /\ changed = 0 /\ errors = 0

-----------------------------------------------------------------------------
(* What goes on around the controller (external).                          *)

(* A cluster exports, withdraws or changes its endpoints.                  *)
CloudChanges(s, c) ==
  /\ changed < MaxChanges /\ changed' = changed + 1
  /\ \E eps \in Exports \ {cloud[s][c]} : cloud' = [cloud EXCEPT ![s][c] = eps]
  /\ UNCHANGED <<objects, copies, pc, desired, todo, existing, service, errors>>

ObserveImport(s) ==
  /\ seenImports[s] # imports[s]
  /\ seenImports' = [seenImports EXCEPT ![s] = imports[s]]
  /\ UNCHANGED <<cloud, objects, seenDerived, pc, desired, todo, existing, service, changed, errors>>

ObserveDerived(k) ==
  /\ seenDerived[k] # derived[k]
  /\ seenDerived' = [seenDerived EXCEPT ![k] = derived[k]]
  /\ UNCHANGED <<cloud, objects, seenImports, pc, desired, todo, existing, service, changed, errors>>

Live(f) == {o \in DOMAIN f : f[o] # NoObject}

(* The garbage collector deletes objects whose owner is gone.              *)
Orphan(k) == \A s \in Live(imports) : imports[s].uid # derived[k].owner
OrphanSlice(k) == \A d \in Live(derived) : derived[d].uid # slices[k].owner

CollectDerived(k) ==
  /\ k \in Live(derived) /\ Orphan(k)
  /\ derived' = [derived EXCEPT ![k] = NoObject]
  /\ UNCHANGED <<env, imports, slices, pc, desired, todo, existing, service>>

CollectSlice(k) ==
  /\ k \in Live(slices) /\ OrphanSlice(k)
  /\ slices' = [slices EXCEPT ![k] = NoObject]
  /\ UNCHANGED <<env, imports, derived, pc, desired, todo, existing, service>>

(* The uids that no object has or refers to, and the one that is used next.*)
FreshUids ==
  LET used(f) == {f[o].uid : o \in Live(f)}
      owners(f) == {f[o].owner : o \in Live(f)}
      held == IF svcImport = NoObject THEN {} ELSE {svcImport.uid}
  IN {u \in Uids :
       /\ u \notin used(imports) \cup used(seenImports) \cup used(derived) \cup used(seenDerived)
       /\ u \notin owners(derived) \cup owners(seenDerived) \cup owners(slices) \cup held
       /\ \A s \in Live(imports) : imports[s].ips[u] = 0}

NewUid == CHOOSE u \in FreshUids : TRUE

-----------------------------------------------------------------------------
(* Ports: the map keeps one port of each id, the one that comes last.      *)
Ids(ports) == {p.id : p \in ports}
PortsOf(eps) == {e.port : e \in eps}

ExtractServicePorts(eps) ==
  {ports \in SUBSET PortsOf(eps) : /\ Ids(ports) = Ids(PortsOf(eps))
                                   /\ \A p, q \in ports : p.id = q.id => p = q}

PortsEqualIgnoreOrder(a, b) == Ids(a) = Ids(b)

(* Mutated form: IPs are not compared.                                     *)
IPsAlwaysEqual(a, b) == TRUE

IPsEqualIgnoreOrder(a, b) == a = b

ServiceTypetoServiceImportType(type) == IF type = "Headless" THEN "Headless" ELSE "ClusterSetIP"

(* The type is that of the first endpoint, whichever that is.              *)
CreateServiceImportStruct(first, ports, clusters) ==
  [uid |-> NewUid, ips |-> NoIPs, ports |-> ports,
   type |-> ServiceTypetoServiceImportType(first.type), clusters |-> clusters]

CreateDerivedServiceStruct(import, ports) ==
  [uid |-> NewUid, owner |-> import.uid, ports |-> ports,
   ip |-> IF import.type = "Headless" THEN "None" ELSE NewUid]

-----------------------------------------------------------------------------
(* reconcileNamespace.                                                     *)

(* The services that have endpoints are reconciled.                        *)
ListServices ==
  /\ pc = "idle" /\ pc' = "services"
  /\ desired' = cloud
  /\ todo' = {s \in Svcs : \E c \in Clusters : cloud[s][c] # {}}
  /\ existing' = Live(seenImports)
  /\ UNCHANGED <<env, objects, service>>

(* reconcileService returns, with or without an error: the ServiceImport is*)
(* not one to be deleted.                                                  *)
EndService ==
  /\ pc' = "services"
  /\ todo' = todo \ {svc} /\ existing' = existing \ {svc}
  /\ ServiceEnds
  /\ UNCHANGED <<env, desired>>

(* What is left in existingImportsMap is deleted; an error does not keep   *)
(* the others from being deleted.                                          *)
DeleteImports ==
  /\ pc = "services" /\ todo = {} /\ pc' = "delete"
  /\ UNCHANGED <<env, objects, desired, todo, existing, service>>

DeleteImport(s) ==
  /\ pc = "delete" /\ s \in existing
  /\ imports' = [imports EXCEPT ![s] = NoObject]
  /\ existing' = existing \ {s}
  /\ UNCHANGED <<env, derived, slices, pc, desired, todo, service>>

EndRound ==
  /\ pc = "delete" /\ existing = {}
  /\ RoundEnds
  /\ UNCHANGED <<env, objects, service>>

-----------------------------------------------------------------------------
(* reconcileService.                                                       *)
WithImport(import) ==
  /\ svcImport' = import /\ pc' = "clusters"
  /\ UNCHANGED <<env, objects, desired, todo, existing, cluster, derivedService, clusterIPs, absent>>

(* getServiceImport.                                                       *)
GetServiceImport(s) ==
  /\ pc = "services" /\ s \in todo /\ seenImports[s] # NoObject
  /\ svc' = s /\ clusterIds' = Exporting(s)
  /\ WithImport(seenImports[s])

(* createAndGetServiceImport: an import that the copies do not show is an  *)
(* error (AlreadyExists).                                                  *)
CreateServiceImport(s) ==
  /\ pc = "services" /\ s \in todo /\ seenImports[s] = NoObject /\ imports[s] = NoObject
  /\ FreshUids # {}
  /\ svc' = s /\ clusterIds' = Exporting(s) /\ pc' = "getImport"
  /\ LET eps == UNION {desired[s][c] : c \in Clusters}
     IN \E first \in eps, ports \in ExtractServicePorts(eps) :
          imports' = [imports EXCEPT ![s] = CreateServiceImportStruct(first, ports, Exporting(s))]
  /\ UNCHANGED <<env, derived, slices, desired, todo, existing,
                 svcImport, cluster, derivedService, clusterIPs, absent>>

ImportAlreadyExists(s) ==
  /\ pc = "services" /\ s \in todo /\ seenImports[s] = NoObject /\ imports[s] # NoObject
  /\ todo' = todo \ {s} /\ existing' = existing \ {s}
  /\ UNCHANGED <<env, objects, pc, desired, service>>

(* Mutated form: that the copies do not show the new import is ignored.    *)
GetCreatedImportAnyway ==
  /\ pc = "getImport" /\ WithImport(seenImports[svc]) /\ UNCHANGED <<svc, clusterIds>>

GetCreatedImport ==
  /\ pc = "getImport"
  /\ \/ seenImports[svc] # NoObject /\ WithImport(seenImports[svc]) /\ UNCHANGED <<svc, clusterIds>>
     \/ seenImports[svc] = NoObject /\ EndService /\ UNCHANGED objects

WithDerived(d) ==
  /\ derivedService' = d /\ pc' = "derived"
  /\ UNCHANGED <<env, objects, desired, todo, existing, svc, svcImport, clusterIPs, absent>>

(* getDerivedService, for the next cluster.                                *)
GetDerivedService(c) ==
  /\ pc = "clusters" /\ c \in clusterIds /\ seenDerived[<<svc, c>>] # NoObject
  /\ cluster' = c /\ clusterIds' = clusterIds \ {c}
  /\ WithDerived(seenDerived[<<svc, c>>])

(* createAndGetDerivedService.                                             *)
CreateDerivedService(c) ==
  /\ pc = "clusters" /\ c \in clusterIds
  /\ seenDerived[<<svc, c>>] = NoObject /\ derived[<<svc, c>>] = NoObject
  /\ FreshUids # {}
  /\ cluster' = c /\ clusterIds' = clusterIds \ {c} /\ pc' = "getDerived"
  /\ \E ports \in ExtractServicePorts(desired[svc][c]) :
       derived' = [derived EXCEPT ![<<svc, c>>] = CreateDerivedServiceStruct(svcImport, ports)]
  /\ UNCHANGED <<env, imports, slices, desired, todo, existing,
                 svc, svcImport, derivedService, clusterIPs, absent>>

DerivedAlreadyExists(c) ==
  /\ pc = "clusters" /\ c \in clusterIds
  /\ seenDerived[<<svc, c>>] = NoObject /\ derived[<<svc, c>>] # NoObject
  /\ EndService
  /\ UNCHANGED objects

GetCreatedDerived ==
  /\ pc = "getDerived"
  /\ \/ /\ seenDerived[<<svc, cluster>>] # NoObject
        /\ WithDerived(seenDerived[<<svc, cluster>>]) /\ UNCHANGED <<clusterIds, cluster>>
     \/ seenDerived[<<svc, cluster>>] = NoObject /\ EndService /\ UNCHANGED objects

(* updateDerivedService: ports with other ids are replaced.                *)
UpdateDerivedService ==
  /\ pc = "derived"
  /\ \E ports \in ExtractServicePorts(desired[svc][cluster]) :
       LET d == [derivedService EXCEPT !.ports = ports] IN
       \/ /\ PortsEqualIgnoreOrder(ports, derivedService.ports)
          /\ pc' = "slices"
          /\ UNCHANGED <<env, objects, desired, todo, existing, service>>
       \/ /\ ~PortsEqualIgnoreOrder(ports, derivedService.ports)
          /\ derived[<<svc, cluster>>] = derivedService
          /\ derived' = [derived EXCEPT ![<<svc, cluster>>] = d]
          /\ derivedService' = d /\ pc' = "slices"
          /\ UNCHANGED <<env, imports, slices, desired, todo, existing,
                         svc, svcImport, clusterIds, cluster, clusterIPs, absent>>
       \/ /\ ~PortsEqualIgnoreOrder(ports, derivedService.ports)
          /\ derived[<<svc, cluster>>] # derivedService
          /\ EndService /\ UNCHANGED objects

(* updateEndpointSlices: a slice keeps its owner when it is updated.       *)
UpdateEndpointSlices ==
  /\ pc = "slices" /\ pc' = "clusters"
  /\ LET s == slices[<<svc, cluster>>]
         owner == IF s = NoObject THEN derivedService.uid ELSE s.owner
     IN slices' = [slices EXCEPT ![<<svc, cluster>>] = [owner |-> owner, eps |-> desired[svc][cluster]]]
  /\ clusterIPs' = [clusterIPs EXCEPT ![derivedService.ip] = @ + 1]
  /\ cluster' = NoObject /\ derivedService' = NoObject
  /\ UNCHANGED <<env, imports, derived, desired, todo, existing, svc, svcImport, clusterIds, absent>>

(* The derived Services of clusters that have no endpoints any more.       *)
ListDerivedServices ==
  /\ pc = "clusters" /\ clusterIds = {}
  /\ absent' = {c \in Clusters : seenDerived[<<svc, c>>] # NoObject /\ desired[svc][c] = {}}
  /\ pc' = "absent"
  /\ UNCHANGED <<env, objects, desired, todo, existing,
                 svc, svcImport, clusterIds, cluster, derivedService, clusterIPs>>

(* DeleteDerivedServiceAndEndpointSlices: first the slices.                *)
DeleteEndpointSlices(c) ==
  /\ pc = "absent" /\ c \in absent
  /\ slices' = [slices EXCEPT ![<<svc, c>>] = NoObject]
  /\ cluster' = c /\ absent' = absent \ {c} /\ pc' = "deleteDerived"
  /\ UNCHANGED <<env, imports, derived, desired, todo, existing,
                 svc, svcImport, clusterIds, derivedService, clusterIPs>>

(* A Service that is gone already is an error (NotFound).                  *)
DeleteDerivedService ==
  /\ pc = "deleteDerived"
  /\ \/ /\ derived[<<svc, cluster>>] # NoObject
        /\ derived' = [derived EXCEPT ![<<svc, cluster>>] = NoObject]
        /\ cluster' = NoObject /\ pc' = "absent"
        /\ UNCHANGED <<env, imports, slices, desired, todo, existing,
                       svc, svcImport, clusterIds, derivedService, clusterIPs, absent>>
     \/ derived[<<svc, cluster>>] = NoObject /\ EndService /\ UNCHANGED objects

(* updateServiceImport: IPs and ports, from the copy.                      *)
UpdateServiceImport ==
  /\ pc = "absent" /\ absent = {}
  /\ \E ports \in ExtractServicePorts(UNION {desired[svc][c] : c \in Clusters}) :
       LET import == [svcImport EXCEPT
             !.ips = clusterIPs,
             !.ports = IF PortsEqualIgnoreOrder(@, ports) THEN @ ELSE ports]
           updateRequired == \/ ~IPsEqualIgnoreOrder(svcImport.ips, clusterIPs)
                             \/ ~PortsEqualIgnoreOrder(svcImport.ports, ports)
       IN imports' = IF updateRequired /\ imports[svc] = svcImport
                     THEN [imports EXCEPT ![svc] = import] ELSE imports
  /\ EndService
  /\ UNCHANGED <<derived, slices>>

-----------------------------------------------------------------------------
(* Mutated form: a service that was not reconciled stays in the map.       *)
RequestFailsKept ==
  /\ errors < MaxErrors /\ errors' = errors + 1
  /\ svc # NoObject /\ pc' = "services" /\ todo' = todo \ {svc} /\ ServiceEnds
  /\ UNCHANGED <<cloud, objects, copies, desired, existing, changed>>

(* A request fails: reconcileService returns; when a ServiceImport is being*)
(* deleted, the loop goes on with the next.                                *)
RequestFails ==
  /\ errors < MaxErrors /\ errors' = errors + 1
  /\ \/ /\ svc # NoObject
        /\ pc' = "services" /\ todo' = todo \ {svc} /\ existing' = existing \ {svc}
        /\ ServiceEnds
     \/ /\ pc = "delete" /\ \E s \in existing : existing' = existing \ {s}
        /\ UNCHANGED <<pc, todo, service>>
  /\ UNCHANGED <<cloud, objects, copies, desired, changed>>

(* The controller is killed and started again.                             *)
Restart ==
  /\ pc # "idle" /\ errors < MaxErrors /\ errors' = errors + 1
  /\ RoundEnds /\ ServiceEnds
  /\ UNCHANGED <<cloud, objects, copies, changed>>

RoundStep ==
  \/ ListServices \/ DeleteImports \/ EndRound
  \/ \E s \in Svcs : GetServiceImport(s) \/ CreateServiceImport(s)
                     \/ ImportAlreadyExists(s) \/ DeleteImport(s)
  \/ \E c \in Clusters : GetDerivedService(c) \/ CreateDerivedService(c)
                         \/ DerivedAlreadyExists(c) \/ DeleteEndpointSlices(c)
  \/ GetCreatedImport \/ GetCreatedDerived \/ UpdateDerivedService
  \/ UpdateEndpointSlices \/ ListDerivedServices \/ DeleteDerivedService \/ UpdateServiceImport

Next ==
  \/ RoundStep \/ RequestFails \/ Restart
  \/ \E s \in Svcs : ObserveImport(s)
  \/ \E s \in Svcs, c \in Clusters : CloudChanges(s, c)
  \/ \E k \in Keys : ObserveDerived(k) \/ CollectDerived(k) \/ CollectSlice(k)

Spec == Init /\ [][Next]_vars

(* The ticker, the informers and the garbage collector never stop.         *)
Fairness ==
  /\ WF_vars(RoundStep)
  /\ \A s \in Svcs : WF_vars(ObserveImport(s))
  /\ \A k \in Keys : WF_vars(ObserveDerived(k)) /\ WF_vars(CollectDerived(k))
                     /\ WF_vars(CollectSlice(k))

FairSpec == Spec /\ Fairness

-----------------------------------------------------------------------------
EndpointsOf(s) == UNION {cloud[s][c] : c \in Clusters}
IPsOf(s) == [i \in Uids \cup {"None"} |->
  Cardinality({c \in Clusters : derived[<<s, c>>] # NoObject /\ derived[<<s, c>>].ip = i})]

(* What Cloud Map has is what the cluster has: a ServiceImport for every   *)
(* service with endpoints, a derived Service for every cluster that exports*)
(* it, with the ports and EndpointSlices of that cluster, and the          *)
(* ServiceImport lists their IPs and all ports.                            *)
InSync ==
  \A s \in Svcs :
    /\ (imports[s] # NoObject) <=> (EndpointsOf(s) # {})
    /\ imports[s] # NoObject => /\ imports[s].ips = IPsOf(s)
                                /\ Ids(imports[s].ports) = Ids(PortsOf(EndpointsOf(s)))
    /\ \A c \in Clusters :
         IF cloud[s][c] = {} THEN derived[<<s, c>>] = NoObject /\ slices[<<s, c>>] = NoObject
         ELSE /\ derived[<<s, c>>] # NoObject /\ slices[<<s, c>>] # NoObject
              /\ derived[<<s, c>>].owner = imports[s].uid
              /\ Ids(derived[<<s, c>>].ports) = Ids(PortsOf(cloud[s][c]))
              /\ slices[<<s, c>>] = [owner |-> derived[<<s, c>>].uid, eps |-> cloud[s][c]]

(* Whatever requests failed, wherever the controller was restarted and     *)
(* however far the copies lagged behind, the rounds end in InSync when     *)
(* Cloud Map stops changing.                                               *)
ImportsConverge == <>[]InSync

(* A round takes away only what had no endpoints when it listed the        *)
(* services: an error while a service is reconciled costs neither its      *)
(* ServiceImport nor, unless their owner is gone, the derived Services and *)
(* EndpointSlices of the clusters that export it.                          *)
RemovesOnlyAbsent ==
  /\ \A s \in Live(imports) : imports'[s] = NoObject => Exporting(s) = {}
  /\ \A k \in Live(derived) :
       derived'[k] = NoObject => k[2] \notin Exporting(k[1]) \/ Orphan(k)
  /\ \A k \in Live(slices) :
       slices'[k] = NoObject => k[2] \notin Exporting(k[1]) \/ OrphanSlice(k)

OnlyAbsentRemoved == [][RemovesOnlyAbsent]_vars

(* "clusters is the list of exporting clusters from which this service was *)
(* derived" (serviceimport_types.go:90).                                   *)
StatusFollows ==
  <>[](\A s \in Svcs : imports[s] # NoObject =>
         imports[s].clusters = {c \in Clusters : cloud[s][c] # {}})
=============================================================================
