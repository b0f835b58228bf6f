-------------------------- MODULE PlanRoundsProofs --------------------------
(***************************************************************************)
(* What is written to Cloud Map is read back as it was; the loops of       *)
(* CalculateChanges compute what EndpointPlan says; and therefore a round  *)
(* of changes is enough, whatever a cluster has.                           *)
(***************************************************************************)
EXTENDS PlanRounds, TLAPS

IsPort(p) == /\ p = [name |-> p.name, port |-> p.port, targetPort |-> p.targetPort,
                     protocol |-> p.protocol]
             /\ p.port \in PortNumbers

(* The attributes of an instance that no field of an endpoint is made of.  *)
IsExtra(f) == f = [k \in DOMAIN f |-> f[k]] /\ DOMAIN f \cap Known = {}

(* An endpoint as extractEndpoints makes it (its endpoint port has no      *)
(* target port), with an IPv4 or IPv6 address.                             *)
IsExported(e) ==
  /\ e = [id |-> e.id, ip |-> e.ip, addressType |-> e.addressType,
          endpointPort |-> e.endpointPort, servicePort |-> e.servicePort,
          clusterId |-> e.clusterId, clusterSetId |-> e.clusterSetId,
          serviceType |-> e.serviceType, created |-> e.created, ready |-> e.ready,
          hostname |-> e.hostname, nodename |-> e.nodename, attributes |-> e.attributes]
  /\ e.addressType \in {"IPv4", "IPv6"}
  /\ IsPort(e.endpointPort) /\ e.endpointPort.targetPort = ""
  /\ IsPort(e.servicePort)
  /\ e.created \in Times /\ e.ready \in BOOLEAN
  /\ IsExtra(e.attributes)

(* A number is read back from its text.                                    *)
LEMMA ParsedItoa ==
  ASSUME NEW numbers \in {PortNumbers, Times}, NEW n \in numbers
  PROVE  Parses(Itoa(n), numbers) /\ Parsed(Itoa(n), numbers) = n
<1>1. Parses(Itoa(n), numbers)
  BY DEF Parses
<1>2. \A m \in numbers : Itoa(m) = Itoa(n) => m = n
  BY CodecAssumption DEF CodecAssumption
<1>3. QED
  BY <1>1, <1>2 DEF Parsed, Parses

(* The attribute that holds the address.                                   *)
IpKey(e) == IF e.addressType = "IPv4" THEN "AWS_INSTANCE_IPV4" ELSE "AWS_INSTANCE_IPV6"

FieldKeys == Required \cup {"HOSTNAME", "NODENAME"}

(* Which attributes are written, and which win.                            *)
LEMMA WrittenAttributes ==
  ASSUME NEW e, IsExported(e)
  PROVE  LET a == GetCloudMapAttributes(e) IN
         /\ DOMAIN a = FieldKeys \cup {IpKey(e)} \cup DOMAIN e.attributes
         /\ a[IpKey(e)] = e.ip
         /\ \A k \in FieldKeys : a[k] = FieldAttributes(e)[k]
         /\ \A k \in DOMAIN e.attributes : a[k] = e.attributes[k]
<1> DEFINE ip == [k \in IpAttr(e.addressType) |-> e.ip]
           inner == Over(ip, FieldAttributes(e))
           a == GetCloudMapAttributes(e)
<1>1. a = Over(e.attributes, inner)
  BY DEF GetCloudMapAttributes
<1>2. DOMAIN ip = {IpKey(e)} /\ ip[IpKey(e)] = e.ip
  <2>1. e.addressType \in {"IPv4", "IPv6"}
    BY DEF IsExported
  <2>2. IpAttr(e.addressType) = {IpKey(e)}
    BY <2>1 DEF IpAttr, IpKey
  <2>3. QED
    BY <2>2
<1>3. DOMAIN FieldAttributes(e) = FieldKeys
  BY DEF FieldAttributes, FieldKeys, Required
<1>4. IpKey(e) \notin FieldKeys
  BY DEF IpKey, FieldKeys, Required
<1>5. DOMAIN e.attributes \cap (FieldKeys \cup {IpKey(e)}) = {}
  BY DEF IsExported, IsExtra, IpKey, FieldKeys, Known
<1> HIDE DEF ip
<1>6. /\ DOMAIN inner = FieldKeys \cup {IpKey(e)}
      /\ inner[IpKey(e)] = e.ip
      /\ \A k \in FieldKeys : inner[k] = FieldAttributes(e)[k]
  BY <1>2, <1>3, <1>4 DEF Over
<1> HIDE DEF inner
<1>7. QED
  BY <1>1, <1>5, <1>6 DEF Over

(* The way through Cloud Map: the attributes written for an endpoint are   *)
(* those of an endpoint, and of that endpoint, in every field (types.go:92 *)
(* and 248).  Otherwise Plan would find a change in every reconciliation.  *)
THEOREM RoundTrip ==
  ASSUME NEW e, IsExported(e)
  PROVE  /\ IsEndpoint(GetCloudMapAttributes(e))
         /\ NewEndpointFromInstance(e.id, GetCloudMapAttributes(e)) = e
<1> DEFINE a == GetCloudMapAttributes(e)
           d == NewEndpointFromInstance(e.id, a)
<1>1. /\ DOMAIN a = FieldKeys \cup {IpKey(e)} \cup DOMAIN e.attributes
      /\ a[IpKey(e)] = e.ip
      /\ \A k \in FieldKeys : a[k] = FieldAttributes(e)[k]
      /\ \A k \in DOMAIN e.attributes : a[k] = e.attributes[k]
  BY WrittenAttributes
<1> HIDE DEF a
<1>2. /\ a["CLUSTER_ID"] = e.clusterId /\ a["CLUSTERSET_ID"] = e.clusterSetId
      /\ a["AWS_INSTANCE_PORT"] = Itoa(e.endpointPort.port)
      /\ a["ENDPOINT_PROTOCOL"] = e.endpointPort.protocol
      /\ a["ENDPOINT_PORT_NAME"] = e.endpointPort.name
      /\ a["SERVICE_PORT_NAME"] = e.servicePort.name
      /\ a["SERVICE_PORT"] = Itoa(e.servicePort.port)
      /\ a["SERVICE_TARGET_PORT"] = e.servicePort.targetPort
      /\ a["SERVICE_PROTOCOL"] = e.servicePort.protocol
      /\ a["SERVICE_TYPE"] = e.serviceType
      /\ a["SERVICE_EXPORT_CREATION_TIMESTAMP"] = Itoa(e.created)
      /\ a["READY"] = FormatBool(e.ready)
      /\ a["HOSTNAME"] = e.hostname /\ a["NODENAME"] = e.nodename
  BY <1>1 DEF FieldKeys, Required, FieldAttributes
<1>3. /\ IsPort(e.endpointPort) /\ e.endpointPort.targetPort = "" /\ IsPort(e.servicePort)
      /\ e.created \in Times /\ e.ready \in BOOLEAN
      /\ e.addressType \in {"IPv4", "IPv6"}
  BY DEF IsExported
<1>4. /\ Parses(Itoa(e.endpointPort.port), PortNumbers)
      /\ Parsed(Itoa(e.endpointPort.port), PortNumbers) = e.endpointPort.port
      /\ Parses(Itoa(e.servicePort.port), PortNumbers)
      /\ Parsed(Itoa(e.servicePort.port), PortNumbers) = e.servicePort.port
  BY <1>3, ParsedItoa DEF IsPort
<1>5. /\ Parses(Itoa(e.created), Times)
      /\ Parsed(Itoa(e.created), Times) = e.created
  BY <1>3, ParsedItoa
<1>6. /\ FormatBool(e.ready) \in TrueTexts \cup FalseTexts
      /\ (FormatBool(e.ready) \in TrueTexts) = e.ready
  <2>1. FormatBool(TRUE) = "true" /\ FormatBool(FALSE) = "false"
    BY DEF FormatBool
  <2>2. "true" \in TrueTexts /\ "false" \in FalseTexts /\ "false" \notin TrueTexts
    BY DEF TrueTexts, FalseTexts
  <2>3. CASE e.ready = TRUE
    BY <2>1, <2>2, <2>3, Zenon
  <2>4. CASE e.ready = FALSE
    <3>1. FormatBool(e.ready) = "false"
      BY <2>1, <2>4, Zenon
    <3>2. ("false" \in TrueTexts) = FALSE
      BY <2>2
    <3>3. (FormatBool(e.ready) \in TrueTexts) = FALSE
      BY <3>1, <3>2, Zenon
    <3>4. FormatBool(e.ready) \in TrueTexts \cup FalseTexts
      BY <3>1, <2>2
    <3>5. QED
      BY <3>3, <3>4, <2>4, Zenon
  <2>5. QED
    BY <1>3, <2>3, <2>4
<1>7. IsEndpoint(a)
  BY <1>1, <1>2, <1>4, <1>5, <1>6 DEF IsEndpoint, FieldKeys
<1>8. EndpointPortFromAttr(a) = e.endpointPort
  BY <1>2, <1>3, <1>4 DEF EndpointPortFromAttr, IsPort
<1>9. ServicePortFromAttr(a) = e.servicePort
  BY <1>2, <1>3, <1>4 DEF ServicePortFromAttr, IsPort
<1>10. Optional(a, "HOSTNAME") = e.hostname /\ Optional(a, "NODENAME") = e.nodename
  BY <1>1, <1>2 DEF Optional, FieldKeys
<1>11. Remaining(a) = e.attributes
  <2>1. /\ e.attributes = [k \in DOMAIN e.attributes |-> e.attributes[k]]
        /\ DOMAIN e.attributes \cap Known = {}
    BY DEF IsExported, IsExtra
  <2>2. FieldKeys \cup {IpKey(e)} \subseteq Known
    BY DEF FieldKeys, IpKey, Known
  <2>3. DOMAIN a \ Known = DOMAIN e.attributes
    BY <1>1, <2>1, <2>2
  <2>4. Remaining(a) = [k \in DOMAIN e.attributes |-> a[k]]
    BY <2>3 DEF Remaining, Only
  <2>5. QED
    BY <1>1, <2>1, <2>4
<1>12. /\ ("AWS_INSTANCE_IPV4" \in DOMAIN a) <=> (e.addressType = "IPv4")
       /\ ("AWS_INSTANCE_IPV6" \in DOMAIN a) <=> (e.addressType = "IPv6")
  <2>1. "AWS_INSTANCE_IPV4" \notin DOMAIN e.attributes /\ "AWS_INSTANCE_IPV6" \notin DOMAIN e.attributes
    BY DEF IsExported, IsExtra, Known
  <2>2. "AWS_INSTANCE_IPV4" \notin FieldKeys /\ "AWS_INSTANCE_IPV6" \notin FieldKeys
    BY DEF FieldKeys, Required
  <2>3. QED
    BY <1>1, <1>3, <2>1, <2>2 DEF IpKey
<1>13. /\ (IF "AWS_INSTANCE_IPV4" \in DOMAIN a THEN a["AWS_INSTANCE_IPV4"]
            ELSE Optional(a, "AWS_INSTANCE_IPV6")) = e.ip
       /\ (IF "AWS_INSTANCE_IPV4" \in DOMAIN a THEN "IPv4"
            ELSE IF "AWS_INSTANCE_IPV6" \in DOMAIN a THEN "IPv6" ELSE "") = e.addressType
  BY <1>1, <1>3, <1>12 DEF IpKey, Optional
<1>14. d = [id |-> e.id, ip |-> e.ip, addressType |-> e.addressType,
            endpointPort |-> e.endpointPort, servicePort |-> e.servicePort,
            clusterId |-> e.clusterId, clusterSetId |-> e.clusterSetId,
            serviceType |-> e.serviceType, created |-> e.created, ready |-> e.ready,
            hostname |-> e.hostname, nodename |-> e.nodename, attributes |-> e.attributes]
  BY <1>2, <1>5, <1>6, <1>8, <1>9, <1>10, <1>11, <1>13 DEF NewEndpointFromInstance
<1>15. d = e
  BY <1>14 DEF IsExported
<1>16. QED
  BY <1>7, <1>15 DEF a

-----------------------------------------------------------------------------
(* The endpoints of this cluster that Cloud Map has.                       *)
Own == GetEndpoints(DiscoveredEndpoints)

IsOwn(id, a) == /\ Optional(a, "CLUSTERSET_ID") = ClusterSetId /\ IsEndpoint(a)
                /\ NewEndpointFromInstance(id, a).clusterId = ClusterId

LEMMA OwnIs ==
  \A e : e \in Own <=>
    \E i \in DOMAIN cloud : IsOwn(i, cloud[i]) /\ e = NewEndpointFromInstance(i, cloud[i])
BY DEF Own, GetEndpoints, DiscoveredEndpoints, IsOwn

LEMMA NewEndpointId ==
  ASSUME NEW id, NEW a
  PROVE  NewEndpointFromInstance(id, a).id = id /\ NewEndpointFromInstance(id, a) # None
<1> DEFINE e == NewEndpointFromInstance(id, a)
<1>1. e.id = id BY DEF NewEndpointFromInstance
<1>2. "ip" \in DOMAIN e BY DEF NewEndpointFromInstance
<1>3. "ip" \notin DOMAIN None BY DEF None
<1> QED BY <1>1, <1>2, <1>3

LEMMA OwnUnique == \A d, e \in Own : d.id = e.id => d = e
BY OwnIs, NewEndpointId

(* A port of the Service or the zero value.                                *)
LEMMA ServicePortIs ==
  ASSUME NEW k \in KubeStates, NEW name PROVE IsPort(ServicePort(k.service, name))
<1> DEFINE named == {p \in k.service.ports : p.name = name}
<1>1. CASE named = {}
  BY <1>1, KubeAssumption DEF ServicePort, ZeroPort, IsPort, KubeAssumption
<1>2. CASE named # {}
  <2> DEFINE p == CHOOSE q \in named : TRUE
  <2>1. p \in k.service.ports BY <1>2
  <2>2. p.port \in PortNumbers BY <2>1, KubeAssumption DEF KubeAssumption
  <2>3. ServicePort(k.service, name) = ServicePortToPort(p) BY <1>2 DEF ServicePort
  <2> HIDE DEF p
  <2>4. IsPort(ServicePortToPort(p)) BY <2>2 DEF ServicePortToPort, IsPort
  <2> QED BY <2>3, <2>4
<1> HIDE DEF named
<1> QED BY <1>1, <1>2

(* extractEndpoints makes endpoints of this cluster that can be read back. *)
LEMMA ExtractedIsExported ==
  ASSUME NEW k \in KubeStates, NEW place \in DOMAIN ExtractEndpoints(k)
  PROVE  LET e == ExtractEndpoints(k)[place] IN
         IsExported(e) /\ e.clusterId = ClusterId /\ e.clusterSetId = ClusterSetId
<1> DEFINE slice == k.slices[place[1]]
           port == slice.ports[place[2]]
           endpoint == slice.endpoints[place[3]]
           e == ExtractEndpoints(k)[place]
<1>1. place \in Places(k.slices) /\ e = EndpointAt(k, place) BY DEF ExtractEndpoints
<1>2. /\ place[1] \in DOMAIN k.slices /\ place[2] \in DOMAIN slice.ports
      /\ place[3] \in DOMAIN slice.endpoints
  BY <1>1 DEF Places
<1>3. /\ slice.addressType \in {"IPv4", "IPv6"} /\ port.port \in PortNumbers
      /\ endpoint.ready \in BOOLEAN /\ k.created \in Times
  BY <1>2, KubeAssumption DEF KubeAssumption
<1>4. IsPort(EndpointPortToPort(port)) /\ EndpointPortToPort(port).targetPort = ""
  BY <1>3 DEF IsPort, EndpointPortToPort
<1>5. IsPort(ServicePort(k.service, port.name)) BY ServicePortIs
<1>6. /\ e = [id |-> e.id, ip |-> e.ip, addressType |-> e.addressType,
              endpointPort |-> e.endpointPort, servicePort |-> e.servicePort,
              clusterId |-> e.clusterId, clusterSetId |-> e.clusterSetId,
              serviceType |-> e.serviceType, created |-> e.created, ready |-> e.ready,
              hostname |-> e.hostname, nodename |-> e.nodename, attributes |-> e.attributes]
      /\ e.addressType = slice.addressType /\ e.endpointPort = EndpointPortToPort(port)
      /\ e.servicePort = ServicePort(k.service, port.name)
      /\ e.created = k.created /\ e.ready = endpoint.ready
      /\ e.attributes = [K8S_CONTROLLER |-> Version]
      /\ e.clusterId = ClusterId /\ e.clusterSetId = ClusterSetId
  BY <1>1 DEF EndpointAt
<1>7. IsExtra(e.attributes) BY <1>6 DEF IsExtra, Known, Required
<1> HIDE DEF e, slice, port, endpoint
<1>8. IsExported(e) /\ e.clusterId = ClusterId /\ e.clusterSetId = ClusterSetId
  BY <1>3, <1>4, <1>5, <1>6, <1>7 DEF IsExported
<1> QED BY <1>8 DEF e

(* The instance written for an exported endpoint of this cluster is it.    *)
LEMMA WrittenIsOwn ==
  ASSUME NEW e, IsExported(e), e.clusterId = ClusterId, e.clusterSetId = ClusterSetId
  PROVE  /\ IsOwn(e.id, GetCloudMapAttributes(e))
         /\ NewEndpointFromInstance(e.id, GetCloudMapAttributes(e)) = e
<1> DEFINE a == GetCloudMapAttributes(e)
<1>1. IsEndpoint(a) /\ NewEndpointFromInstance(e.id, a) = e BY RoundTrip
<1>2. "CLUSTERSET_ID" \in DOMAIN a BY <1>1 DEF IsEndpoint, Required
<1>3. NewEndpointFromInstance(e.id, a).clusterSetId = a["CLUSTERSET_ID"]
  BY DEF NewEndpointFromInstance
<1> QED BY <1>1, <1>2, <1>3 DEF IsOwn, Optional

-----------------------------------------------------------------------------
Planning == step \in {"match", "apply"}
VisitedIds == {desired[p].id : p \in DOMAIN desired \ left}

(* The plan is about the instances that are there, which only Apply        *)
(* changes, and about what the cluster has or had.                         *)
ListInv ==
  /\ kube \in KubeStates
  /\ step \in {"list", "match", "apply", "done"}
  /\ Planning => /\ current = Own
                 /\ \E k \in KubeStates : desired = ExtractEndpoints(k)
                 /\ left \subseteq DOMAIN desired

(* The loop of CalculateChanges, with repeated ids or without: a current   *)
(* endpoint is in the map until one with its id is visited, and a visited  *)
(* one is written unless it is among the current ones as it is.            *)
LoopInv ==
  Planning =>
    /\ DOMAIN currentMap = IdsOf(current) \ VisitedIds
    /\ \A i \in DOMAIN currentMap : currentMap[i] \in current /\ currentMap[i].id = i
    /\ changes = [create |-> changes.create, update |-> changes.update, delete |-> changes.delete]
    /\ changes.create \cup changes.update \subseteq InList(desired)
    /\ \A p \in DOMAIN desired \ left : desired[p] \in changes.create \cup changes.update \cup current
    /\ step = "apply" => left = {} /\ changes.delete = InList(currentMap)

(* A reconciliation that found nothing to do.                              *)
DoneInv == step = "done" => Own = InList(ExtractEndpoints(kube))

PlanInv == ListInv /\ LoopInv /\ DoneInv

LEMMA InitInv == Init => PlanInv
BY DEF Init, PlanInv, ListInv, LoopInv, DoneInv, Planning

(* Cloud Map as it was is the same set of endpoints.                       *)
LEMMA OwnUnchanged == UNCHANGED cloud => Own' = Own
BY DEF Own, GetEndpoints, DiscoveredEndpoints

LEMMA StartPlanInv == ASSUME PlanInv, StartPlan PROVE PlanInv'
<1> USE DEF StartPlan
<1>1. ListInv'
  BY OwnUnchanged DEF PlanInv, ListInv, Planning, Own
<1>2. VisitedIds' = {} BY DEF VisitedIds
<1>3. DOMAIN currentMap' = IdsOf(current') BY DEF CurrentMap, IdsOf
<1>4. \A i \in DOMAIN currentMap' : currentMap'[i] \in current' /\ currentMap'[i].id = i
  BY DEF CurrentMap
<1>5. LoopInv' BY <1>2, <1>3, <1>4 DEF LoopInv, NoChanges
<1> QED BY <1>1, <1>5 DEF PlanInv, DoneInv

LEMMA VisitInv ==
  ASSUME PlanInv, NEW p \in DOMAIN desired, Match(p) \/ NoMatch(p)
  PROVE  PlanInv'
<1> DEFINE e == desired[p]
<1>0. /\ Visit(p) /\ step = "match" /\ step' = "match" /\ p \in left /\ left' = left \ {p}
      /\ UNCHANGED <<kube, cloud, current, desired>>
  BY DEF Match, NoMatch, Visit
<1>1. ListInv' BY <1>0, OwnUnchanged DEF PlanInv, ListInv, Planning
<1>2. VisitedIds' = VisitedIds \cup {e.id} BY <1>0 DEF VisitedIds
<1>3. /\ DOMAIN currentMap' = DOMAIN currentMap \ {e.id}
      /\ \A i \in DOMAIN currentMap' : currentMap'[i] = currentMap[i]
  BY DEF Match, NoMatch, WithoutKey
<1>4. /\ DOMAIN currentMap = IdsOf(current) \ VisitedIds
      /\ \A i \in DOMAIN currentMap : currentMap[i] \in current /\ currentMap[i].id = i
      /\ changes = [create |-> changes.create, update |-> changes.update, delete |-> changes.delete]
      /\ changes.create \cup changes.update \subseteq InList(desired)
      /\ \A q \in DOMAIN desired \ left : desired[q] \in changes.create \cup changes.update \cup current
  BY <1>0 DEF PlanInv, LoopInv, Planning
<1>5. \/ changes' = changes /\ e \in current
      \/ changes' = [changes EXCEPT !.update = @ \cup {e}]
      \/ changes' = [changes EXCEPT !.create = @ \cup {e}]
  BY <1>4 DEF Match, NoMatch
<1>6. /\ changes' = [create |-> changes'.create, update |-> changes'.update, delete |-> changes'.delete]
      /\ changes'.create \cup changes'.update \subseteq changes.create \cup changes.update \cup {e}
      /\ changes.create \cup changes.update \subseteq changes'.create \cup changes'.update
      /\ e \in changes'.create \cup changes'.update \cup current
  <2>1. CASE changes' = changes /\ e \in current BY <2>1, <1>4
  <2>2. CASE changes' = [changes EXCEPT !.update = @ \cup {e}] BY <2>2, <1>4
  <2>3. CASE changes' = [changes EXCEPT !.create = @ \cup {e}] BY <2>3, <1>4
  <2> QED BY <1>5, <2>1, <2>2, <2>3
<1>7. e \in InList(desired) BY DEF InList
<1>8. InList(desired)' = InList(desired) BY <1>0 DEF InList
<1>9. LoopInv'
  <2>1. DOMAIN currentMap' = IdsOf(current') \ VisitedIds' BY <1>0, <1>2, <1>3, <1>4
  <2>2. \A i \in DOMAIN currentMap' : currentMap'[i] \in current' /\ currentMap'[i].id = i
    BY <1>0, <1>3, <1>4
  <2>3. changes'.create \cup changes'.update \subseteq InList(desired)' BY <1>4, <1>6, <1>7, <1>8
  <2>4. \A q \in DOMAIN desired' \ left' :
          desired'[q] \in changes'.create \cup changes'.update \cup current'
    BY <1>0, <1>4, <1>6
  <2> QED BY <1>0, <1>6, <2>1, <2>2, <2>3, <2>4 DEF LoopInv
<1> QED BY <1>0, <1>1, <1>9 DEF PlanInv, DoneInv

LEMMA DeleteUnmatchedInv == ASSUME PlanInv, DeleteUnmatched PROVE PlanInv'
<1> USE DEF DeleteUnmatched
<1>1. ListInv' BY OwnUnchanged DEF PlanInv, ListInv, Planning
<1>2. VisitedIds' = VisitedIds /\ InList(currentMap)' = InList(currentMap)
      /\ InList(desired)' = InList(desired)
  BY DEF VisitedIds, InList
<1>3. LoopInv BY DEF PlanInv
<1>4. LoopInv' BY <1>2, <1>3 DEF LoopInv, Planning
<1> QED BY <1>1, <1>4 DEF PlanInv, DoneInv

LEMMA NothingToDoInv == ASSUME PlanInv, NothingToDo PROVE PlanInv'
<1> USE DEF NothingToDo
<1>1. Own' = Own BY OwnUnchanged
<1>2. ListInv' BY DEF PlanInv, ListInv, Planning
<1>3. LoopInv' BY DEF LoopInv, Planning
<1>4. Own = InList(desired)
  <2>1. /\ current = Own /\ left = {} /\ DOMAIN currentMap = IdsOf(current) \ VisitedIds
        /\ \A p \in DOMAIN desired : desired[p] \in changes.create \cup changes.update \cup current
        /\ changes.delete = InList(currentMap)
    BY DEF PlanInv, ListInv, LoopInv, Planning
  <2>2. changes.create = {} /\ changes.update = {} /\ DOMAIN currentMap = {}
    BY <2>1 DEF IsNone, HasUpdates, HasDeletes, InList
  <2>3. InList(desired) \subseteq Own BY <2>1, <2>2 DEF InList
  <2>4. ASSUME NEW e \in Own PROVE e \in InList(desired)
    <3>1. e.id \in VisitedIds BY <2>1, <2>2 DEF IdsOf
    <3>2. PICK p \in DOMAIN desired : desired[p].id = e.id BY <3>1 DEF VisitedIds
    <3>3. desired[p] \in Own BY <2>1, <2>2
    <3>4. desired[p] = e BY <3>2, <3>3, OwnUnique
    <3> QED BY <3>4 DEF InList
  <2> QED BY <2>3, <2>4
<1>5. DoneInv' BY <1>1, <1>4 DEF DoneInv, InList
<1> QED BY <1>2, <1>3, <1>5 DEF PlanInv

LEMMA PlanStep == ASSUME PlanInv, [Next]_vars PROVE PlanInv'
<1>1. CASE Apply
  BY <1>1 DEF Apply, PlanInv, ListInv, LoopInv, DoneInv, Planning
<1>2. CASE KubeChanges
  <2> USE DEF KubeChanges, planVars
  <2>1. ListInv' BY <1>2, OwnUnchanged DEF PlanInv, ListInv, Planning
  <2>2. UNCHANGED <<VisitedIds, InList(desired), InList(currentMap)>> BY <1>2 DEF VisitedIds, InList
  <2>3. LoopInv' BY <1>2, <2>2 DEF PlanInv, LoopInv, Planning
  <2> QED BY <1>2, <2>1, <2>3 DEF PlanInv, ListInv, DoneInv
<1>3. CASE UNCHANGED vars
  <2> USE DEF vars, planVars
  <2>1. UNCHANGED <<VisitedIds, InList(desired), InList(currentMap), InList(ExtractEndpoints(kube))>>
    BY <1>3 DEF VisitedIds, InList
  <2>2. ListInv' /\ DoneInv' BY <1>3, <2>1, OwnUnchanged DEF PlanInv, ListInv, Planning, DoneInv
  <2>3. LoopInv' BY <1>3, <2>1 DEF PlanInv, LoopInv, Planning
  <2> QED BY <2>2, <2>3 DEF PlanInv
<1> QED
  BY <1>1, <1>2, <1>3, StartPlanInv, VisitInv, DeleteUnmatchedInv, NothingToDoInv
     DEF Next, CalculateChanges

THEOREM PlanInvariant == Spec => []PlanInv
BY InitInv, PlanStep, PTL DEF Spec

(* A reconciliation that finds nothing to change leaves the instances of   *)
(* this cluster being its endpoints, in all their fields, whatever else    *)
(* Cloud Map has and whether ids are repeated or not.                      *)
THEOREM PlanDoneMeansExported == Spec => []DoneMeansExported
<1>1. PlanInv => DoneMeansExported BY DEF PlanInv, DoneInv, DoneMeansExported, Own
<1> QED BY <1>1, PlanInvariant, PTL

(* Of two visited endpoints with one id, the second is to be created.      *)
RepeatInv ==
  Planning /\ changes.create = {} =>
    \A p, q \in DOMAIN desired \ left : desired[p].id = desired[q].id => p = q
DistinctInv == step = "done" => Unique(ExtractEndpoints(kube))

LEMMA RepeatStep ==
  ASSUME PlanInv, RepeatInv, DistinctInv, [Next]_vars PROVE RepeatInv' /\ DistinctInv'
<1>1. CASE \E p \in DOMAIN desired : Match(p) \/ NoMatch(p)
  <2>1. PICK p \in DOMAIN desired : Match(p) \/ NoMatch(p) BY <1>1
  <2>2. /\ step = "match" /\ step' = "match" /\ p \in left /\ left' = left \ {p} /\ desired' = desired
        /\ Planning
    BY <2>1 DEF Match, NoMatch, Visit, Planning
  <2>3. /\ DOMAIN currentMap \cap VisitedIds = {}
        /\ changes = [create |-> changes.create, update |-> changes.update, delete |-> changes.delete]
    BY <2>2 DEF PlanInv, LoopInv
  <2>4. CASE Match(p)
    <3>1. changes'.create = changes.create BY <2>3, <2>4 DEF Match
    <3>2. \A q \in DOMAIN desired \ left : desired[q].id # desired[p].id
      BY <2>3, <2>4 DEF Match, VisitedIds
    <3> QED BY <2>2, <3>1, <3>2 DEF RepeatInv, DistinctInv
  <2>5. CASE NoMatch(p)
    <3>1. changes'.create # {} BY <2>3, <2>5 DEF NoMatch
    <3> QED BY <2>2, <3>1 DEF RepeatInv, DistinctInv
  <2> QED BY <2>1, <2>4, <2>5
<1>2. CASE DeleteUnmatched
  <2>1. changes'.create = changes.create BY <1>2 DEF DeleteUnmatched, PlanInv, LoopInv, Planning
  <2> QED BY <1>2, <2>1 DEF DeleteUnmatched, RepeatInv, DistinctInv, Planning
<1>3. CASE StartPlan BY <1>3 DEF StartPlan, RepeatInv, DistinctInv
<1>4. CASE Apply BY <1>4 DEF Apply, RepeatInv, DistinctInv, Planning
<1>5. CASE NothingToDo
  <2>1. Planning /\ left = {} /\ changes.create = {}
    BY <1>5 DEF NothingToDo, IsNone, HasUpdates, PlanInv, LoopInv, Planning
  <2>2. Unique(desired) BY <2>1 DEF RepeatInv, Unique
  <2> QED BY <1>5, <2>2 DEF NothingToDo, RepeatInv, DistinctInv, Planning
<1>6. CASE KubeChanges BY <1>6 DEF KubeChanges, planVars, RepeatInv, DistinctInv, Planning
<1>7. CASE UNCHANGED vars
  BY <1>7 DEF vars, planVars, RepeatInv, DistinctInv, Planning
<1> QED BY <1>1, <1>2, <1>3, <1>4, <1>5, <1>6, <1>7 DEF Next, CalculateChanges

(* Reconciliations of endpoints with repeated ids never find nothing to do.*)
THEOREM PlanDoneMeansDistinct == Spec => []DoneMeansDistinct
<1>1. Init => RepeatInv /\ DistinctInv BY DEF Init, RepeatInv, DistinctInv, Planning
<1>2. PlanInv /\ RepeatInv /\ DistinctInv /\ [Next]_vars => RepeatInv' /\ DistinctInv'
  BY RepeatStep
<1>3. DistinctInv => DoneMeansDistinct BY DEF DistinctInv, DoneMeansDistinct
<1> QED BY <1>1, <1>2, <1>3, PlanInvariant, PTL DEF Spec

(* What Apply makes of Cloud Map.                                          *)
Upserts == changes.create \cup changes.update

LEMMA ApplyCloud ==
  ASSUME PlanInv, Apply
  PROVE  \E written :
           /\ \A i \in IdsOf(Upserts) : written[i] \in Upserts /\ written[i].id = i
           /\ DOMAIN cloud' = IdsOf(Upserts) \cup (DOMAIN cloud \ DOMAIN currentMap)
           /\ \A i \in IdsOf(Upserts) : cloud'[i] = GetCloudMapAttributes(written[i])
           /\ \A i \in DOMAIN cloud \ (IdsOf(Upserts) \cup DOMAIN currentMap) : cloud'[i] = cloud[i]
<1>1. IdsOf(changes.delete) = DOMAIN currentMap
  BY DEF Apply, PlanInv, LoopInv, Planning, IdsOf, InList
<1>2. PICK written \in [IdsOf(Upserts) -> Upserts] :
        /\ \A i \in IdsOf(Upserts) : written[i].id = i
        /\ cloud' = Over([i \in IdsOf(Upserts) |-> GetCloudMapAttributes(written[i])],
                         Only(cloud, DOMAIN cloud \ IdsOf(changes.delete)))
  BY DEF Apply, Upserts
<1> DEFINE new == [i \in IdsOf(Upserts) |-> GetCloudMapAttributes(written[i])]
           kept == Only(cloud, DOMAIN cloud \ IdsOf(changes.delete))
<1>3. /\ DOMAIN kept = DOMAIN cloud \ DOMAIN currentMap
      /\ \A i \in DOMAIN kept : kept[i] = cloud[i]
  BY <1>1 DEF Only
<1>4. /\ DOMAIN new = IdsOf(Upserts)
      /\ \A i \in DOMAIN new : new[i] = GetCloudMapAttributes(written[i])
  OBVIOUS
<1> HIDE DEF new, kept
<1>5. /\ DOMAIN cloud' = DOMAIN new \cup DOMAIN kept
      /\ \A i \in DOMAIN cloud' : cloud'[i] = IF i \in DOMAIN new THEN new[i] ELSE kept[i]
  BY <1>2 DEF Over, new, kept
<1> QED BY <1>2, <1>3, <1>4, <1>5

(* Instances of other clusters and clustersets, and those that are no      *)
(* endpoints, are left alone unless they have the id of a desired endpoint.*)
THEOREM PlanOthersKept == Spec => OthersKept
<1> DEFINE Kept == \A i \in DOMAIN cloud \ IdsOf(InList(desired)) :
              \/ i \in DOMAIN cloud' /\ cloud'[i] = cloud[i]
              \/ /\ IsEndpoint(cloud[i])
                 /\ cloud[i]["CLUSTER_ID"] = ClusterId /\ cloud[i]["CLUSTERSET_ID"] = ClusterSetId
<1>1. ASSUME PlanInv, Next PROVE Kept
  <2>1. CASE UNCHANGED cloud BY <2>1
  <2>2. CASE Apply
    <3> SUFFICES ASSUME NEW i \in DOMAIN cloud \ IdsOf(InList(desired)),
                        ~(i \in DOMAIN cloud' /\ cloud'[i] = cloud[i])
                 PROVE  /\ IsEndpoint(cloud[i]) /\ cloud[i]["CLUSTER_ID"] = ClusterId
                        /\ cloud[i]["CLUSTERSET_ID"] = ClusterSetId
      OBVIOUS
    <3>1. i \notin IdsOf(Upserts)
      BY <1>1, <2>2 DEF Apply, PlanInv, LoopInv, Planning, Upserts, IdsOf
    <3>2. i \in DOMAIN currentMap BY <1>1, <2>2, <3>1, ApplyCloud
    <3>3. currentMap[i] \in Own /\ currentMap[i].id = i
      BY <1>1, <2>2, <3>2 DEF Apply, PlanInv, ListInv, LoopInv, Planning
    <3>4. IsOwn(i, cloud[i]) BY <3>3, OwnIs, NewEndpointId
    <3>5. NewEndpointFromInstance(i, cloud[i]).clusterId = cloud[i]["CLUSTER_ID"]
      BY DEF NewEndpointFromInstance
    <3>6. "CLUSTERSET_ID" \in DOMAIN cloud[i] BY <3>4 DEF IsOwn, IsEndpoint, Required
    <3> QED BY <3>4, <3>5, <3>6 DEF IsOwn, Optional
  <2> QED
    BY <1>1, <2>1, <2>2
       DEF Next, StartPlan, CalculateChanges, Match, NoMatch, Visit, DeleteUnmatched, NothingToDo,
           KubeChanges
<1> HIDE DEF Kept
<1>2. PlanInv /\ [Next]_vars => [Kept]_vars BY <1>1
<1>3. Spec => [][Kept]_vars BY <1>2, PlanInvariant, PTL DEF Spec
<1> QED BY <1>3 DEF OthersKept, Kept

-----------------------------------------------------------------------------
(* What the loop has written exactly, when no id is repeated.              *)
Visited(P(_)) == {desired[p] : p \in {q \in DOMAIN desired \ left : P(desired[q])}}
IsNew(e) == e.id \notin IdsOf(current)
IsChanged(e) == e.id \in IdsOf(current) /\ e \notin current
ExactInv == Planning /\ Unique(desired) => /\ changes.create = Visited(IsNew)
                                           /\ changes.update = Visited(IsChanged)

(* The round after a round's changes: Cloud Map has what the cluster has,  *)
(* and this is what the plan is made of.                                   *)
SettledInv ==
  settled =>
    /\ Unique(ExtractEndpoints(kube)) => Own = InList(ExtractEndpoints(kube))
    /\ Planning => desired = ExtractEndpoints(kube)

LEMMA ExactVisit ==
  ASSUME PlanInv, ExactInv, NEW p \in DOMAIN desired, Match(p) \/ NoMatch(p)
  PROVE  ExactInv'
<1> DEFINE e == desired[p]
<1>0. SUFFICES ASSUME Unique(desired) PROVE ExactInv'
  BY DEF ExactInv, Match, NoMatch, Visit
<1>1. /\ step = "match" /\ p \in left /\ left' = left \ {p}
      /\ UNCHANGED <<current, desired>>
  BY DEF Match, NoMatch, Visit
<1>2. Planning BY <1>1 DEF Planning
<1>3. /\ changes.create = Visited(IsNew) /\ changes.update = Visited(IsChanged)
      /\ DOMAIN currentMap = IdsOf(current) \ VisitedIds
      /\ \A i \in DOMAIN currentMap : currentMap[i] \in current /\ currentMap[i].id = i
      /\ changes = [create |-> changes.create, update |-> changes.update, delete |-> changes.delete]
      /\ current = Own
  BY <1>0, <1>2 DEF ExactInv, PlanInv, LoopInv, ListInv
<1>4. e.id \notin VisitedIds BY <1>0, <1>1 DEF Unique, VisitedIds
<1>5. /\ Visited(IsNew)' = Visited(IsNew) \cup {d \in {e} : IsNew(d)}
      /\ Visited(IsChanged)' = Visited(IsChanged) \cup {d \in {e} : IsChanged(d)}
  BY <1>1 DEF Visited, IsNew, IsChanged
<1>6. CASE Match(p)
  <2>1. e.id \in IdsOf(current) BY <1>3, <1>6 DEF Match
  <2>2. e \in current <=> currentMap[e.id] = e BY <1>3, <1>6, OwnUnique DEF Match
  <2>3. changes'.create = changes.create
        /\ changes'.update = changes.update \cup (IF e \in current THEN {} ELSE {e})
    BY <1>3, <1>6, <2>2 DEF Match
  <2>4. {d \in {e} : IsNew(d)} = {} BY <2>1 DEF IsNew
  <2>5. {d \in {e} : IsChanged(d)} = IF e \in current THEN {} ELSE {e} BY <2>1 DEF IsChanged
  <2> QED BY <1>3, <1>5, <2>3, <2>4, <2>5 DEF ExactInv
<1>7. CASE NoMatch(p)
  <2>1. e.id \notin IdsOf(current) BY <1>3, <1>4, <1>7 DEF NoMatch
  <2>2. changes'.create = changes.create \cup {e} /\ changes'.update = changes.update
    BY <1>3, <1>7 DEF NoMatch
  <2> QED BY <1>3, <1>5, <2>1, <2>2 DEF ExactInv, IsNew, IsChanged
<1> QED BY <1>6, <1>7

LEMMA ExactStep == ASSUME PlanInv, ExactInv, [Next]_vars PROVE ExactInv'
<1>1. CASE StartPlan
  BY <1>1 DEF StartPlan, ExactInv, NoChanges, Visited
<1>2. CASE DeleteUnmatched
  <2>1. Planning /\ UNCHANGED <<Visited(IsNew), Visited(IsChanged), Unique(desired)>>
    BY <1>2 DEF DeleteUnmatched, Visited, IsNew, IsChanged, Planning, Unique
  <2>2. changes'.create = changes.create /\ changes'.update = changes.update
    BY <1>2, <2>1 DEF DeleteUnmatched, PlanInv, LoopInv
  <2> QED BY <2>1, <2>2 DEF ExactInv
<1>3. CASE Apply \/ NothingToDo
  BY <1>3 DEF Apply, NothingToDo, ExactInv, Planning
<1>4. CASE KubeChanges \/ UNCHANGED vars
  <2>1. /\ UNCHANGED <<Visited(IsNew), Visited(IsChanged), Unique(desired), changes>>
        /\ Planning' => Planning
    BY <1>4 DEF KubeChanges, vars, planVars, Visited, IsNew, IsChanged, Planning, Unique
  <2> QED BY <2>1 DEF ExactInv
<1> QED BY <1>1, <1>2, <1>3, <1>4, ExactVisit DEF Next, CalculateChanges

(* The round's changes make Cloud Map what the plan desired.               *)
LEMMA ApplyReaches == ASSUME PlanInv, Unique(desired), Apply PROVE Own' = InList(desired)
<1>1. /\ current = Own /\ left = {} /\ DOMAIN currentMap = IdsOf(current) \ VisitedIds
      /\ Upserts \subseteq InList(desired)
      /\ \A p \in DOMAIN desired : desired[p] \in Upserts \cup current
      /\ Planning
  BY DEF Apply, PlanInv, ListInv, LoopInv, Planning, Upserts
<1>2. PICK k \in KubeStates : desired = ExtractEndpoints(k) BY <1>1 DEF PlanInv, ListInv
<1>3. \A e \in InList(desired) :
        IsOwn(e.id, GetCloudMapAttributes(e)) /\ NewEndpointFromInstance(e.id, GetCloudMapAttributes(e)) = e
  BY <1>2, ExtractedIsExported, WrittenIsOwn DEF InList
<1>4. \A d, e \in InList(desired) : d.id = e.id => d = e
  BY DEF Unique, InList
<1>5. IdsOf(InList(desired)) = VisitedIds BY <1>1 DEF IdsOf, InList, VisitedIds
<1>6. PICK written :
        /\ \A i \in IdsOf(Upserts) : written[i] \in Upserts /\ written[i].id = i
        /\ DOMAIN cloud' = IdsOf(Upserts) \cup (DOMAIN cloud \ DOMAIN currentMap)
        /\ \A i \in IdsOf(Upserts) : cloud'[i] = GetCloudMapAttributes(written[i])
        /\ \A i \in DOMAIN cloud \ (IdsOf(Upserts) \cup DOMAIN currentMap) : cloud'[i] = cloud[i]
  BY ApplyCloud
<1>7. \A e : e \in Own' <=>
        \E i \in DOMAIN cloud' : IsOwn(i, cloud'[i]) /\ e = NewEndpointFromInstance(i, cloud'[i])
  BY DEF Own, GetEndpoints, DiscoveredEndpoints, IsOwn
<1>8. ASSUME NEW e \in Own' PROVE e \in InList(desired)
  <2>1. PICK i \in DOMAIN cloud' : IsOwn(i, cloud'[i]) /\ e = NewEndpointFromInstance(i, cloud'[i])
    BY <1>7
  <2>2. CASE i \in IdsOf(Upserts) BY <1>1, <1>3, <1>6, <2>1, <2>2
  <2>3. CASE i \notin IdsOf(Upserts)
    <3>1. e \in Own /\ e.id = i /\ i \notin DOMAIN currentMap
      BY <1>6, <2>1, <2>3, OwnIs, NewEndpointId
    <3>2. PICK d \in InList(desired) : d.id = i BY <1>1, <1>5, <3>1 DEF IdsOf
    <3>3. d \in Own BY <1>1, <2>3, <3>2 DEF IdsOf, InList
    <3> QED BY <3>1, <3>2, <3>3, OwnUnique
  <2> QED BY <2>2, <2>3
<1>9. ASSUME NEW e \in InList(desired) PROVE e \in Own'
  <2>1. CASE e.id \in IdsOf(Upserts)
    <3>1. /\ cloud'[e.id] = GetCloudMapAttributes(e) /\ e.id \in DOMAIN cloud'
      BY <1>1, <1>4, <1>6, <2>1
    <3> QED BY <1>3, <1>7, <3>1
  <2>2. CASE e.id \notin IdsOf(Upserts)
    <3>1. e \in Own BY <1>1, <2>2 DEF IdsOf, InList
    <3>2. PICK i \in DOMAIN cloud : IsOwn(i, cloud[i]) /\ e = NewEndpointFromInstance(i, cloud[i])
      BY <3>1, OwnIs
    <3>3. i = e.id BY <3>2, NewEndpointId
    <3>4. e.id \notin DOMAIN currentMap BY <1>1, <1>5 DEF IdsOf
    <3> QED BY <1>6, <1>7, <2>2, <3>2, <3>3, <3>4
  <2> QED BY <2>1, <2>2
<1> QED BY <1>8, <1>9

LEMMA SettledStep == ASSUME PlanInv, SettledInv, [Next]_vars PROVE SettledInv'
<1>1. CASE Apply
  <2>1. kube' = kube /\ ~Planning' BY <1>1 DEF Apply, Planning
  <2>2. settled' => desired = ExtractEndpoints(kube) BY <1>1, Zenon DEF Apply
  <2> QED BY <1>1, <2>1, <2>2, ApplyReaches DEF SettledInv
<1>2. CASE KubeChanges BY <1>2 DEF KubeChanges, SettledInv
<1>3. CASE StartPlan
  BY <1>3, OwnUnchanged DEF StartPlan, SettledInv, InList
<1>4. CASE CalculateChanges \/ NothingToDo \/ UNCHANGED vars
  <2>1. UNCHANGED <<cloud, kube, settled>> /\ (Planning' => Planning /\ desired' = desired)
    BY <1>4 DEF CalculateChanges, Match, NoMatch, Visit, DeleteUnmatched, NothingToDo, vars, planVars,
                Planning
  <2>2. UNCHANGED <<Own, InList(ExtractEndpoints(kube))>> BY <2>1, OwnUnchanged DEF InList
  <2> QED BY <2>1, <2>2 DEF SettledInv
<1> QED BY <1>1, <1>2, <1>3, <1>4 DEF Next

RoundInv == PlanInv /\ ExactInv /\ SettledInv

LEMMA RoundInvariant == Spec => []RoundInv
<1>1. Init => RoundInv BY InitInv DEF Init, RoundInv, ExactInv, SettledInv, Planning
<1>2. RoundInv /\ [Next]_vars => RoundInv' BY PlanStep, ExactStep, SettledStep DEF RoundInv
<1> QED BY <1>1, <1>2, PTL DEF Spec

(* What is written is read back as it was: the round after a round's       *)
(* changes finds nothing to change, unless ids are repeated.               *)
THEOREM PlanOneRoundSuffices == Spec => []OneRoundSuffices
<1>1. ASSUME RoundInv, step = "apply", settled, Unique(desired) PROVE IsNone(changes)
  <2>1. /\ current = InList(desired) /\ left = {}
        /\ changes.create = Visited(IsNew) /\ changes.update = Visited(IsChanged)
        /\ DOMAIN currentMap = IdsOf(current) \ VisitedIds /\ changes.delete = InList(currentMap)
    BY <1>1 DEF RoundInv, PlanInv, ListInv, LoopInv, ExactInv, SettledInv, Planning
  <2>2. changes.create = {} /\ changes.update = {}
    BY <2>1 DEF Visited, IsNew, IsChanged, IdsOf, InList
  <2>3. DOMAIN currentMap = {} BY <2>1 DEF IdsOf, InList, VisitedIds
  <2> QED BY <2>1, <2>2, <2>3 DEF IsNone, HasUpdates, HasDeletes, InList
<1>2. RoundInv => OneRoundSuffices BY <1>1 DEF OneRoundSuffices
<1> QED BY <1>2, RoundInvariant, PTL

(* The loops compute the three sets of EndpointPlan, unless ids are        *)
(* repeated.                                                               *)
THEOREM PlanMeetsReference == Spec => []MeetsReference
<1>1. ASSUME RoundInv, step = "apply", Unique(desired) PROVE MeetsReference
  <2> DEFINE ids == IdsOf(current \cup InList(desired))
             cur == Contents(current, ids)
             des == Contents(InList(desired), ids)
  <2>1. /\ current = Own /\ left = {} /\ Planning
        /\ changes.create = Visited(IsNew) /\ changes.update = Visited(IsChanged)
        /\ DOMAIN currentMap = IdsOf(current) \ VisitedIds /\ changes.delete = InList(currentMap)
        /\ \A i \in DOMAIN currentMap : currentMap[i] \in current /\ currentMap[i].id = i
    BY <1>1 DEF RoundInv, PlanInv, ListInv, LoopInv, ExactInv, Planning
  <2>2. \A e \in current : e # None BY <2>1, OwnIs, NewEndpointId
  <2>3. PICK k \in KubeStates : desired = ExtractEndpoints(k)
    BY <1>1, <2>1 DEF RoundInv, PlanInv, ListInv
  <2>4. \A e \in InList(desired) : e # None
    BY <2>3, ExtractedIsExported, WrittenIsOwn, NewEndpointId DEF InList
  <2>5. \A d, e \in current : d.id = e.id => d = e BY <2>1, OwnUnique
  <2>6. \A d, e \in InList(desired) : d.id = e.id => d = e
    BY <1>1 DEF Unique, InList
  <2>7. /\ DOMAIN des = ids
        /\ \A e \in current : e.id \in ids /\ cur[e.id] = e
        /\ \A i \in ids \ IdsOf(current) : cur[i] = None
        /\ \A e \in InList(desired) : e.id \in ids /\ des[e.id] = e
        /\ \A i \in ids \ IdsOf(InList(desired)) : des[i] = None
    BY <2>5, <2>6 DEF Contents, IdsOf
  <2> HIDE DEF cur, des
  <2>8. \A i \in ids : /\ des[i] # None <=> i \in IdsOf(InList(desired))
                       /\ cur[i] # None <=> i \in IdsOf(current)
    BY <2>2, <2>4, <2>7 DEF IdsOf
  <2>9. changes.create = {des[i] : i \in Creates(cur, des, None)}
    <3>1. \A i : i \in Creates(cur, des, None)
                   <=> \E e \in InList(desired) : IsNew(e) /\ e.id = i
      BY <2>7, <2>8 DEF Creates, IsNew, IdsOf
    <3>2. changes.create = {e \in InList(desired) : IsNew(e)} BY <2>1 DEF Visited, InList
    <3>3. \A e \in changes.create : e.id \in Creates(cur, des, None) /\ des[e.id] = e
      BY <2>7, <3>1, <3>2
    <3>4. ASSUME NEW i \in Creates(cur, des, None) PROVE des[i] \in changes.create
      <4>1. PICK e \in InList(desired) : IsNew(e) /\ e.id = i BY <3>1
      <4> QED BY <2>7, <3>2, <4>1
    <3> QED BY <3>3, <3>4
  <2>10. changes.update = {des[i] : i \in Updates(cur, des, None)}
    <3>1. \A e \in InList(desired) : e.id \in IdsOf(current) => (e \in current <=> cur[e.id] = e)
      BY <2>7 DEF IdsOf
    <3>2. \A i : i \in Updates(cur, des, None)
                   <=> \E e \in InList(desired) : IsChanged(e) /\ e.id = i
      BY <2>7, <2>8, <3>1 DEF Updates, IsChanged, IdsOf
    <3>3. changes.update = {e \in InList(desired) : IsChanged(e)} BY <2>1 DEF Visited, InList
    <3>4. \A e \in changes.update : e.id \in Updates(cur, des, None) /\ des[e.id] = e
      BY <2>7, <3>2, <3>3
    <3>5. ASSUME NEW i \in Updates(cur, des, None) PROVE des[i] \in changes.update
      <4>1. PICK e \in InList(desired) : IsChanged(e) /\ e.id = i BY <3>2
      <4> QED BY <2>7, <3>3, <4>1
    <3> QED BY <3>4, <3>5
  <2>11. changes.delete = {cur[i] : i \in Deletes(cur, des, None)}
    <3>0. VisitedIds = IdsOf(InList(desired)) /\ IdsOf(current) \subseteq ids
      BY <2>1 DEF IdsOf, InList, VisitedIds
    <3>1. Deletes(cur, des, None) = DOMAIN currentMap BY <2>1, <2>7, <2>8, <3>0 DEF Deletes
    <3>2. \A i \in DOMAIN currentMap : currentMap[i] = cur[i] BY <2>1, <2>7
    <3> QED BY <2>1, <3>1, <3>2 DEF InList
  <2> QED BY <2>9, <2>10, <2>11 DEF MeetsReference, cur, des
<1>2. RoundInv => MeetsReference BY <1>1 DEF MeetsReference
<1> QED BY <1>2, RoundInvariant, PTL
=============================================================================
