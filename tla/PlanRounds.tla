----------------------------- MODULE PlanRounds -----------------------------
(***************************************************************************)
(* How handleUpdate of serviceexport_controller.go brings Cloud Map into   *)
(* agreement with the cluster: endpoints are extracted from EndpointSlices *)
(* and Service, instances are turned into endpoints, Plan.CalculateChanges *)
(* of pkg/model/plan.go compares the two lists, and the changes are written*)
(* as attributes, until there are none.                                    *)
(*                                                                         *)
(* A list of endpoints is a function from places (where an endpoint stands)*)
(* to endpoints, and a loop over it takes the places in any order.         *)
(* Requests are taken to succeed (ServiceExport has their failures).       *)
(***************************************************************************)
EXTENDS EndpointPlan, EndpointAttributes, Sequences

CONSTANTS KubeStates,               \* what a cluster may have: EndpointSlices and Service
          InitialClouds,            \* the instances that may be in Cloud Map at first
          ClusterId, ClusterSetId,  \* this cluster's
          Version,                  \* the controller's, an extra attribute
          MaxKubeChanges            \* bound: changes of the cluster's state

VARIABLES kube,                 \* EndpointSlices and Service
          cloud,                \* the instances: attributes by id
          current, desired,     \* Plan: the endpoints of Cloud Map, those of the cluster
          currentMap,           \* CalculateChanges: current endpoints that are not matched
          left,                 \* and the places of desired that are still to be visited
          changes,
          step,                 \* "list", "match", "apply" or "done"
          settled,              \* history: the cluster has not changed since a round's changes
          kubeChanges

planVars == <<current, desired, currentMap, left, changes>>
vars == <<kube, cloud, planVars, step, settled, kubeChanges>>

NoChanges == [create |-> {}, update |-> {}, delete |-> {}]

-----------------------------------------------------------------------------
(* From Kubernetes: every port of a slice with every address.              *)
EndpointPortToPort(port) ==
  [name |-> port.name, port |-> port.port, targetPort |-> "", protocol |-> port.protocol]

(* A target port is a number or a name.                                    *)
ServicePortToPort(port) ==
  [name |-> port.name, port |-> port.port, protocol |-> port.protocol,
   targetPort |-> IF port.targetName = "" THEN Itoa(port.target) ELSE port.targetName]

ZeroPort == [name |-> "", port |-> 0, targetPort |-> "", protocol |-> ""]

(* servicePortMap: the port of that name, or the zero value.               *)
ServicePort(service, name) ==
  LET named == {p \in service.ports : p.name = name}
  IN IF named = {} THEN ZeroPort ELSE ServicePortToPort(CHOOSE p \in named : TRUE)

ExtractServiceType(service) == IF service.clusterIP = "None" THEN "Headless" ELSE "ClusterSetIP"

EndpointIdFromIPAddressAndPort(address, port) == <<port.protocol, address, port.port>>

(* The places in the lists of slices: slice, port, endpoint and address.   *)
Places(slices) ==
  UNION {UNION {{<<s, p, e, a>> : a \in DOMAIN slices[s].endpoints[e].addresses} :
                  p \in DOMAIN slices[s].ports, e \in DOMAIN slices[s].endpoints} :
           s \in DOMAIN slices}

EndpointAt(k, place) ==
  LET slice == k.slices[place[1]]
      port == slice.ports[place[2]]
      endpoint == slice.endpoints[place[3]]
      ip == endpoint.addresses[place[4]]
  IN [id |-> EndpointIdFromIPAddressAndPort(ip, port), ip |-> ip,
      addressType |-> slice.addressType,
      endpointPort |-> EndpointPortToPort(port),
      servicePort |-> ServicePort(k.service, port.name),
      clusterId |-> ClusterId, clusterSetId |-> ClusterSetId,
      serviceType |-> ExtractServiceType(k.service),
      created |-> k.created, ready |-> endpoint.ready,
      hostname |-> endpoint.hostname, nodename |-> endpoint.nodename,
      attributes |-> [K8S_CONTROLLER |-> Version]]

ExtractEndpoints(k) == [place \in Places(k.slices) |-> EndpointAt(k, place)]

InList(list) == {list[place] : place \in DOMAIN list}
IdsOf(eps) == {e.id : e \in eps}

(* Slices of addresses (not FQDN) whose ports have numbers; in range, and  *)
(* with port names unique within a Service, as the API server validates.   *)
ASSUME KubeAssumption ==
  /\ 0 \in PortNumbers
  /\ \A k \in KubeStates :
       /\ k.created \in Times
       /\ \A p \in k.service.ports :
            /\ p.port \in PortNumbers
            /\ \A q \in k.service.ports : p.name = q.name => p = q
       /\ \A s \in DOMAIN k.slices :
            /\ k.slices[s].addressType \in {"IPv4", "IPv6"}
            /\ \A p \in DOMAIN k.slices[s].ports : k.slices[s].ports[p].port \in PortNumbers
            /\ \A e \in DOMAIN k.slices[s].endpoints : k.slices[s].endpoints[e].ready \in BOOLEAN
ASSUME RoundsAssumption == MaxKubeChanges \in Nat

(* No two endpoints have the same id.  Two ports of a Service with one     *)
(* target port, or an endpoint in two slices, break this.                  *)
Unique(list) == \A x, y \in DOMAIN list : list[x].id = list[y].id => x = y

(* From Cloud Map: the instances of the clusterset that can be converted,  *)
(* the others are skipped.                                                 *)
DiscoveredEndpoints ==
  LET inSet == {i \in DOMAIN cloud : Optional(cloud[i], "CLUSTERSET_ID") = ClusterSetId}
  IN {NewEndpointFromInstance(i, cloud[i]) : i \in {j \in inSet : IsEndpoint(cloud[j])}}

(* Mutated form: those of all clusters.                                    *)
GetEndpointsOfAll(endpoints) == endpoints

(* The endpoints of this cluster.                                          *)
GetEndpoints(endpoints) == {e \in endpoints : e.clusterId = ClusterId}

-----------------------------------------------------------------------------
(* currentMap: instances, and the endpoints made of them, have different   *)
(* ids.                                                                    *)
CurrentMap(cur) == [i \in {e.id : e \in cur} |-> CHOOSE e \in cur : e.id = i]

WithoutKey(m, k) == [i \in DOMAIN m \ {k} |-> m[i]]

(* Mutated form: the endpoints to create are forgotten.                    *)
HasUpdatesOnly(c) == c.update # {}

HasUpdates(c) == c.create # {} \/ c.update # {}

(* Mutated form: the endpoints to delete are forgotten.                    *)
HasDeletesNever(c) == FALSE

HasDeletes(c) == c.delete # {}
IsNone(c) == ~HasUpdates(c) /\ ~HasDeletes(c)

-----------------------------------------------------------------------------
Init == /\ kube \in KubeStates /\ cloud \in InitialClouds
        /\ current = {} /\ desired = <<>> /\ currentMap = <<>> /\ left = {}
        /\ changes = NoChanges /\ step = "list" /\ settled = FALSE /\ kubeChanges = 0

(* Pods or Service change; an event starts another reconciliation.         *)
KubeChanges == /\ kubeChanges < MaxKubeChanges /\ kubeChanges' = kubeChanges + 1
               /\ kube' \in KubeStates \ {kube}
               /\ step' = IF step = "done" THEN "list" ELSE step
               /\ settled' = FALSE
               /\ UNCHANGED <<cloud, planVars>>

(* The plan's two lists, and the start of CalculateChanges.                *)
StartPlan == /\ step = "list" /\ step' = "match"
             /\ current' = GetEndpoints(DiscoveredEndpoints)
             /\ desired' = ExtractEndpoints(kube)
             /\ currentMap' = CurrentMap(current') /\ left' = DOMAIN desired'
             /\ changes' = NoChanges
             /\ UNCHANGED <<kube, cloud, settled, kubeChanges>>

(* The loop over Desired.                                                  *)
Visit(place) == /\ step = "match" /\ place \in left /\ left' = left \ {place}
                /\ UNCHANGED <<kube, cloud, current, desired, step, settled, kubeChanges>>

(* Mutated form: a match is left in the map, to be deleted.                *)
MatchKept(place) ==
  LET e == desired[place] IN
  /\ Visit(place) /\ e.id \in DOMAIN currentMap
  /\ changes' = IF currentMap[e.id] = e THEN changes ELSE [changes EXCEPT !.update = @ \cup {e}]
  /\ UNCHANGED currentMap

(* An endpoint that matches one of the map is an update unless they are    *)
(* equal, and takes it out of the map.                                     *)
Match(place) ==
  LET e == desired[place] IN
  /\ Visit(place) /\ e.id \in DOMAIN currentMap
  /\ changes' = IF currentMap[e.id] = e THEN changes ELSE [changes EXCEPT !.update = @ \cup {e}]
  /\ currentMap' = WithoutKey(currentMap, e.id)

(* One that matches none is created.                                       *)
NoMatch(place) ==
  LET e == desired[place] IN
  /\ Visit(place) /\ e.id \notin DOMAIN currentMap
  /\ changes' = [changes EXCEPT !.create = @ \cup {e}]
  /\ UNCHANGED currentMap

(* What is left in the map is deleted, in no particular order.             *)
DeleteUnmatched == /\ step = "match" /\ left = {} /\ step' = "apply"
                   /\ changes' = [changes EXCEPT !.delete = InList(currentMap)]
                   /\ UNCHANGED <<kube, cloud, current, desired, currentMap, left,
                                  settled, kubeChanges>>

CalculateChanges ==
  (\E place \in DOMAIN desired : Match(place) \/ NoMatch(place)) \/ DeleteUnmatched

ForgetPlan == /\ current' = {} /\ desired' = <<>> /\ currentMap' = <<>> /\ left' = {}
              /\ changes' = NoChanges

(* RegisterEndpoints(Create and Update), then DeleteEndpoints(Delete).  Of *)
(* two endpoints with one id, either may be the one that is registered.    *)
Apply ==
  /\ step = "apply" /\ ~IsNone(changes) /\ step' = "list"
  /\ LET upserts == changes.create \cup changes.update
     IN \E written \in [IdsOf(upserts) -> upserts] :
          /\ \A i \in IdsOf(upserts) : written[i].id = i
          /\ cloud' = Over([i \in IdsOf(upserts) |-> GetCloudMapAttributes(written[i])],
                           Only(cloud, DOMAIN cloud \ IdsOf(changes.delete)))
  /\ ForgetPlan
  /\ settled' = (desired = ExtractEndpoints(kube))
  /\ UNCHANGED <<kube, kubeChanges>>

(* "no changes to export to Cloud Map"; a change of the cluster that came  *)
(* meanwhile has put the key back into the queue.                          *)
NothingToDo ==
  /\ step = "apply" /\ IsNone(changes) /\ ForgetPlan
  /\ step' = IF desired = ExtractEndpoints(kube) THEN "done" ELSE "list"
  /\ UNCHANGED <<kube, cloud, settled, kubeChanges>>

Next == StartPlan \/ CalculateChanges \/ Apply \/ NothingToDo \/ KubeChanges

Spec == Init /\ [][Next]_vars

-----------------------------------------------------------------------------
(* A map of EndpointPlan; fewer fields than an endpoint's are none.        *)
None == [id |-> <<>>]
Contents(eps, ids) == [i \in ids |-> IF i \in IdsOf(eps) THEN CHOOSE e \in eps : e.id = i ELSE None]

(* The loops of CalculateChanges compute the three sets of EndpointPlan,   *)
(* with desired contents, unless ids are repeated.                         *)
MeetsReference ==
  step = "apply" /\ Unique(desired) =>
    LET ids == IdsOf(current \cup InList(desired))
        cur == Contents(current, ids)
        des == Contents(InList(desired), ids)
    IN /\ changes.create = {des[i] : i \in Creates(cur, des, None)}
       /\ changes.update = {des[i] : i \in Updates(cur, des, None)}
       /\ changes.delete = {cur[i] : i \in Deletes(cur, des, None)}

(* A reconciliation that finds nothing to change leaves the instances of   *)
(* this cluster being its endpoints, in all their fields.                  *)
DoneMeansExported ==
  step = "done" => GetEndpoints(DiscoveredEndpoints) = InList(ExtractEndpoints(kube))

(* What is written is read back as it was: the round after a round's       *)
(* changes finds nothing to change, unless the cluster changed meanwhile   *)
(* or ids are repeated.  Otherwise reconciliations would register the same *)
(* endpoints for ever.                                                     *)
OneRoundSuffices == step = "apply" /\ settled /\ Unique(desired) => IsNone(changes)

(* With repeated ids they do: the first match is taken out of currentMap   *)
(* (plan.go:35), and the second endpoint is to be created although Cloud   *)
(* Map has it.  Nothing to do means that no ids were repeated.             *)
DoneMeansDistinct == step = "done" => Unique(ExtractEndpoints(kube))

(* Instances of other clusters and clustersets, and those that are no      *)
(* endpoints, are left alone unless they have the id of a desired endpoint.*)
OthersKept ==
  [][\A i \in DOMAIN cloud \ IdsOf(InList(desired)) :
       \/ i \in DOMAIN cloud' /\ cloud'[i] = cloud[i]
       \/ /\ IsEndpoint(cloud[i])
          /\ cloud[i]["CLUSTER_ID"] = ClusterId /\ cloud[i]["CLUSTERSET_ID"] = ClusterSetId]_vars
=============================================================================
