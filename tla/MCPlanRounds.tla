---------------------------- MODULE MCPlanRounds ----------------------------
(***************************************************************************)
(* Model checking of PlanRounds: slices of both address types with up to   *)
(* two ports, a Service that knows one or both, and Cloud Map with         *)
(* instances that are not this cluster's to write.                         *)
(***************************************************************************)
EXTENDS PlanRounds, TLC

MCItoa(n) == ToString(n)

Port(name, port) == [name |-> name, port |-> port, protocol |-> "TCP"]
TargetPort(name, port, target, targetName) ==
  [name |-> name, port |-> port, protocol |-> "TCP", target |-> target, targetName |-> targetName]

Slice(addressType, addresses, ports, ready) ==
  [addressType |-> addressType, ports |-> ports,
   endpoints |-> << [addresses |-> addresses, ready |-> ready,
                     hostname |-> "h", nodename |-> ""] >>]

SlicePorts == {<< Port("http", 8080) >>, << Port("http", 8080), Port("dns", 53) >>}
ServicePorts == {{TargetPort("http", 80, 8080, "")},
                 {TargetPort("http", 80, 0, "web"), TargetPort("dns", 53, 53, "")}}
SliceLists ==
  {<<>>} \cup {<< Slice("IPv4", a, p, r) >> :
                 a \in {<< "10.0.0.1" >>, << "10.0.0.1", "10.0.0.2" >>}, p \in SlicePorts, r \in BOOLEAN}
         \cup {<< Slice("IPv6", << "fd00::1" >>, p, TRUE), Slice("IPv4", << "10.0.0.2" >>, p, r) >> :
                 p \in SlicePorts, r \in BOOLEAN}

(* One more, of a Service with two ports that have one target port.        *)
SharedTarget ==
  [slices |-> << Slice("IPv4", << "10.0.0.1" >>, << Port("http", 8080), Port("dns", 8080) >>, TRUE) >>,
   created |-> 0,
   service |-> [clusterIP |-> "172.20.0.1",
                ports |-> {TargetPort("http", 80, 8080, ""), TargetPort("dns", 53, 8080, "")}]]

MCKubeStates ==
  [slices : SliceLists, created : {0, 7},
   service : [clusterIP : {"None", "172.20.0.1"}, ports : ServicePorts]] \cup {SharedTarget}

(* An instance of another cluster, one of another cluster whose pods have  *)
(* the same addresses, one of another clusterset, and one of an older      *)
(* controller, which gave no SERVICE_TYPE.                                 *)
Example == GetCloudMapAttributes(
  ExtractEndpoints([slices |-> << Slice("IPv4", << "10.0.0.1" >>, << Port("http", 8080) >>, TRUE) >>,
                    created |-> 0,
                    service |-> [clusterIP |-> "172.20.0.1", ports |-> {}]])[<<1, 1, 1, 1>>])
Strays ==
  (<<"TCP", "10.9.0.1", 8080>> :> Over([CLUSTER_ID |-> "other"], Example)) @@
  (<<"TCP", "10.0.0.2", 8080>> :> Over([CLUSTER_ID |-> "other"], Example)) @@
  (<<"TCP", "10.9.0.2", 8080>> :> Over([CLUSTERSET_ID |-> "other"], Example)) @@
  (<<"TCP", "10.0.0.1", 8080>> :> Only(Example, DOMAIN Example \ {"SERVICE_TYPE"}))
MCInitialClouds == {<< >>, Strays}
=============================================================================
