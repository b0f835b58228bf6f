---------------------- MODULE CloudMapReconcilerProofs ----------------------
(***************************************************************************)
(* What holds of CloudMapReconciler for any services, clusters, endpoints  *)
(* and bounds: its types, and that a round takes away only what had no     *)
(* endpoints when it listed the services.                                  *)
(***************************************************************************)
EXTENDS CloudMapReconciler, TLAPS

ServiceSteps == {"getImport", "clusters", "getDerived", "derived", "slices",
                 "absent", "deleteDerived"}
ClusterSteps == {"getDerived", "derived", "slices", "deleteDerived"}

(* The steps of reconcileService have a service, those of a cluster's turn *)
(* a cluster.                                                              *)
PlaceInv == /\ pc \in ServiceSteps <=> svc # NoObject
            /\ pc \in ClusterSteps => cluster \in Clusters

(* A service that has endpoints leaves existingImportsMap before its turn  *)
(* is over, so that the map holds none when deletion begins.               *)
ExistingInv ==
  /\ \A s \in existing : Exporting(s) # {} => s \in todo \cup {svc}
  /\ pc = "delete" => todo = {}

(* Only clusters without endpoints have their derived Service deleted.     *)
AbsentInv == /\ \A c \in absent : svc # NoObject /\ c \notin Exporting(svc)
             /\ pc = "deleteDerived" => cluster \notin Exporting(svc)

ImportInv == TypeOK /\ PlaceInv /\ ExistingInv /\ AbsentInv

-----------------------------------------------------------------------------
(* What the constructors make of values of the right types.                *)
LEMMA NewUidType == ASSUME FreshUids # {} PROVE NewUid \in Uids
BY DEF NewUid, FreshUids

LEMMA ServicePortsType ==
  ASSUME NEW eps \in SUBSET Endpoints, NEW ports \in ExtractServicePorts(eps)
  PROVE  ports \in SUBSET Ports
BY DEF ExtractServicePorts, PortsOf, Endpoints

LEMMA NoIPsType == NoIPs \in [Uids \cup {"None"} -> Nat]
BY DEF NoIPs

LEMMA ImportStructType ==
  ASSUME FreshUids # {}, NEW first \in Endpoints, NEW ports \in SUBSET Ports,
         NEW clusters \in SUBSET Clusters
  PROVE  CreateServiceImportStruct(first, ports, clusters) \in ServiceImports
BY NewUidType, NoIPsType
   DEF CreateServiceImportStruct, ServiceTypetoServiceImportType, ServiceImports, Types

LEMMA DerivedStructType ==
  ASSUME FreshUids # {}, NEW import \in ServiceImports, NEW ports \in SUBSET Ports
  PROVE  CreateDerivedServiceStruct(import, ports) \in DerivedServices
BY NewUidType DEF CreateDerivedServiceStruct, ServiceImports, DerivedServices

LEMMA WithPortsType ==
  ASSUME NEW d \in DerivedServices, NEW ports \in SUBSET Ports
  PROVE  [d EXCEPT !.ports = ports] \in DerivedServices
BY DEF DerivedServices

LEMMA SliceType ==
  ASSUME NEW u \in Uids, NEW eps \in SUBSET Endpoints
  PROVE  [owner |-> u, eps |-> eps] \in EndpointSlices
BY DEF EndpointSlices

LEMMA UpdatedImportType ==
  ASSUME NEW import \in ServiceImports, NEW ips \in [Uids \cup {"None"} -> Nat],
         NEW ports \in SUBSET Ports
  PROVE  [import EXCEPT !.ips = ips,
                        !.ports = IF PortsEqualIgnoreOrder(@, ports) THEN @ ELSE ports]
           \in ServiceImports
<1>1. \A x \in SUBSET Ports : [import EXCEPT !.ips = ips, !.ports = x] \in ServiceImports
  BY DEF ServiceImports
<1>2. import.ports \in SUBSET Ports BY DEF ServiceImports
<1> QED BY <1>1, <1>2

LEMMA DesiredType ==
  ASSUME TypeOK, NEW s \in Svcs
  PROVE  /\ \A c \in Clusters : desired[s][c] \in SUBSET Endpoints
         /\ UNION {desired[s][c] : c \in Clusters} \in SUBSET Endpoints
         /\ Exporting(s) \in SUBSET Clusters
<1>1. \A c \in Clusters : desired[s][c] \in SUBSET Endpoints
  BY ImportAssumption DEF TypeOK, RoundTypeOK
<1> QED BY <1>1 DEF Exporting

LEMMA NothingType == Nothing \in [Svcs -> [Clusters -> Exports]]
BY ImportAssumption DEF Nothing

-----------------------------------------------------------------------------
(* The objects in the API server.                                          *)
LEMMA ObjectStep == ASSUME ImportInv, Next PROVE ObjectTypeOK'
<1> SUFFICES ASSUME TypeOK, PlaceInv PROVE ObjectTypeOK' BY DEF ImportInv
<1>0. ObjectTypeOK /\ ServiceTypeOK BY DEF TypeOK
<1> USE <1>0 DEF ObjectTypeOK, env, objects, copies
<1>1. ASSUME NEW s \in Svcs, CreateServiceImport(s) PROVE ObjectTypeOK'
  <2> DEFINE eps == UNION {desired[s][c] : c \in Clusters}
  <2>1. PICK first \in eps, ports \in ExtractServicePorts(eps) :
           imports' = [imports EXCEPT ![s] = CreateServiceImportStruct(first, ports, Exporting(s))]
    BY <1>1 DEF CreateServiceImport
  <2>2. eps \in SUBSET Endpoints /\ Exporting(s) \in SUBSET Clusters BY DesiredType
  <2>3. ports \in SUBSET Ports BY <2>2, ServicePortsType
  <2>4. CreateServiceImportStruct(first, ports, Exporting(s)) \in ServiceImports
    BY <1>1, <2>2, <2>3, ImportStructType DEF CreateServiceImport
  <2> QED BY <1>1, <2>1, <2>4 DEF CreateServiceImport
<1>2. ASSUME NEW s \in Svcs, DeleteImport(s) PROVE ObjectTypeOK'
  BY <1>2 DEF DeleteImport
<1>3. ASSUME NEW c \in Clusters, CreateDerivedService(c) PROVE ObjectTypeOK'
  <2>1. svc \in Svcs /\ svcImport \in ServiceImports
    BY <1>3 DEF CreateDerivedService, ServiceSteps, ServiceTypeOK, PlaceInv
  <2>2. PICK ports \in ExtractServicePorts(desired[svc][c]) :
           derived' = [derived EXCEPT ![<<svc, c>>] = CreateDerivedServiceStruct(svcImport, ports)]
    BY <1>3 DEF CreateDerivedService
  <2>3. ports \in SUBSET Ports BY <2>1, <2>2, DesiredType, ServicePortsType
  <2>4. CreateDerivedServiceStruct(svcImport, ports) \in DerivedServices
    BY <1>3, <2>1, <2>3, DerivedStructType DEF CreateDerivedService
  <2> QED BY <1>3, <2>2, <2>4 DEF CreateDerivedService
<1>4. CASE UpdateDerivedService
  <2> USE DEF UpdateDerivedService
  <2>1. svc \in Svcs /\ cluster \in Clusters /\ derivedService \in DerivedServices
    BY <1>4 DEF ServiceSteps, ClusterSteps, ServiceTypeOK, PlaceInv
  <2>2. \A ports \in ExtractServicePorts(desired[svc][cluster]) :
          [derivedService EXCEPT !.ports = ports] \in DerivedServices
    BY <2>1, DesiredType, ServicePortsType, WithPortsType
  <2> QED BY <1>4, <2>2
<1>5. CASE UpdateEndpointSlices
  <2> USE DEF UpdateEndpointSlices
  <2>1. svc \in Svcs /\ cluster \in Clusters /\ derivedService \in DerivedServices
    BY <1>5 DEF ServiceSteps, ClusterSteps, ServiceTypeOK, PlaceInv
  <2>2. desired[svc][cluster] \in SUBSET Endpoints BY <2>1, DesiredType
  <2>3. \A d \in DerivedServices : d.uid \in Uids BY DEF DerivedServices
  <2>4. \A s \in EndpointSlices : s.owner \in Uids BY DEF EndpointSlices
  <2>5. slices[<<svc, cluster>>] \in EndpointSlices \cup {NoObject}
    BY <2>1 DEF Keys
  <2>6. \A u \in Uids : [owner |-> u, eps |-> desired[svc][cluster]] \in EndpointSlices
    BY <2>2, SliceType
  <2> QED BY <1>5, <2>1, <2>3, <2>4, <2>5, <2>6
<1>6. ASSUME NEW c \in Clusters, DeleteEndpointSlices(c) PROVE ObjectTypeOK'
  BY <1>6 DEF DeleteEndpointSlices
<1>7. CASE DeleteDerivedService
  BY <1>7 DEF DeleteDerivedService, EndService, ServiceEnds
<1>8. CASE UpdateServiceImport
  <2> USE DEF UpdateServiceImport
  <2>1. svc \in Svcs /\ svcImport \in ServiceImports /\ clusterIPs \in [Uids \cup {"None"} -> Nat]
    BY <1>8 DEF ServiceSteps, ServiceTypeOK, PlaceInv
  <2>2. ASSUME NEW ports \in ExtractServicePorts(UNION {desired[svc][c] : c \in Clusters})
        PROVE  [svcImport EXCEPT !.ips = clusterIPs,
                                 !.ports = IF PortsEqualIgnoreOrder(@, ports) THEN @ ELSE ports]
                 \in ServiceImports
    BY <2>1, DesiredType, ServicePortsType, UpdatedImportType
  <2> QED BY <1>8, <2>2
<1>9. ASSUME NEW k \in Keys, CollectDerived(k) PROVE ObjectTypeOK'
  BY <1>9 DEF CollectDerived, Live
<1>10. ASSUME NEW k \in Keys, CollectSlice(k) PROVE ObjectTypeOK'
  BY <1>10 DEF CollectSlice, Live
<1>11. CASE \/ ListServices \/ DeleteImports \/ EndRound \/ GetCreatedImport
            \/ GetCreatedDerived \/ ListDerivedServices \/ RequestFails \/ Restart
            \/ \E s \in Svcs : \/ GetServiceImport(s) \/ ImportAlreadyExists(s)
                               \/ ObserveImport(s)
            \/ \E c \in Clusters : GetDerivedService(c) \/ DerivedAlreadyExists(c)
            \/ \E s \in Svcs, c \in Clusters : CloudChanges(s, c)
            \/ \E k \in Keys : ObserveDerived(k)
  BY <1>11
     DEF ListServices, Live, DeleteImports, EndRound, RoundEnds, GetServiceImport,
         WithImport, ImportAlreadyExists, GetDerivedService, WithDerived,
         DerivedAlreadyExists, EndService, ServiceEnds, GetCreatedImport,
         GetCreatedDerived, ListDerivedServices, RequestFails, Restart, ObserveImport,
         CloudChanges, ObserveDerived
<1> HIDE DEF ObjectTypeOK
<1> QED BY <1>1, <1>2, <1>3, <1>4, <1>5, <1>6, <1>7, <1>8, <1>9, <1>10, <1>11
           DEF Next, RoundStep

(* What goes on around the controller.                                     *)
LEMMA EnvStep == ASSUME ImportInv, Next PROVE EnvTypeOK'
<1>0. EnvTypeOK /\ ObjectTypeOK BY DEF ImportInv, TypeOK
<1> USE <1>0, ImportAssumption DEF EnvTypeOK, ObjectTypeOK, env, copies
<1>1. ASSUME NEW s \in Svcs, NEW c \in Clusters, CloudChanges(s, c) PROVE EnvTypeOK'
  BY <1>1 DEF CloudChanges
<1>2. ASSUME NEW s \in Svcs, ObserveImport(s) PROVE EnvTypeOK'
  BY <1>2 DEF ObserveImport
<1>3. ASSUME NEW k \in Keys, ObserveDerived(k) PROVE EnvTypeOK'
  BY <1>3 DEF ObserveDerived
<1>4. CASE RequestFails
  BY <1>4 DEF RequestFails, ServiceEnds
<1>5. CASE Restart
  BY <1>5 DEF Restart, RoundEnds, ServiceEnds
<1>6. CASE \/ ListServices \/ DeleteImports \/ EndRound \/ GetCreatedImport
           \/ GetCreatedDerived \/ UpdateDerivedService \/ UpdateEndpointSlices
           \/ ListDerivedServices \/ DeleteDerivedService \/ UpdateServiceImport
           \/ \E s \in Svcs : \/ GetServiceImport(s) \/ CreateServiceImport(s)
                              \/ ImportAlreadyExists(s) \/ DeleteImport(s)
           \/ \E c \in Clusters : \/ GetDerivedService(c) \/ CreateDerivedService(c)
                                  \/ DerivedAlreadyExists(c) \/ DeleteEndpointSlices(c)
           \/ \E k \in Keys : CollectDerived(k) \/ CollectSlice(k)
  BY <1>6
     DEF ListServices, Live, DeleteImports, EndRound, RoundEnds, GetServiceImport,
         WithImport, CreateServiceImport, ImportAlreadyExists, DeleteImport,
         GetDerivedService, WithDerived, CreateDerivedService, DerivedAlreadyExists,
         EndService, ServiceEnds, DeleteEndpointSlices, GetCreatedImport,
         GetCreatedDerived, UpdateDerivedService, UpdateEndpointSlices,
         ListDerivedServices, DeleteDerivedService, UpdateServiceImport, CollectDerived,
         CollectSlice
<1> HIDE DEF EnvTypeOK, ObjectTypeOK
<1> QED BY <1>1, <1>2, <1>3, <1>4, <1>5, <1>6 DEF Next, RoundStep

(* The variables of the round.                                             *)
LEMMA RoundOK == ASSUME ImportInv, Next PROVE RoundTypeOK'
<1>0. RoundTypeOK /\ EnvTypeOK BY DEF ImportInv, TypeOK
<1> USE <1>0, NothingType DEF RoundTypeOK, EnvTypeOK, env
<1>1. CASE \/ ListServices \/ DeleteImports \/ EndRound \/ GetCreatedImport
           \/ GetCreatedDerived \/ UpdateDerivedService \/ UpdateEndpointSlices
           \/ ListDerivedServices \/ DeleteDerivedService \/ UpdateServiceImport
           \/ RequestFails \/ Restart
           \/ \E s \in Svcs : \/ GetServiceImport(s) \/ CreateServiceImport(s) \/ ImportAlreadyExists(s)
                              \/ DeleteImport(s) \/ ObserveImport(s)
           \/ \E c \in Clusters : \/ GetDerivedService(c) \/ CreateDerivedService(c)
                                  \/ DerivedAlreadyExists(c) \/ DeleteEndpointSlices(c)
           \/ \E s \in Svcs, c \in Clusters : CloudChanges(s, c)
           \/ \E k \in Keys : ObserveDerived(k) \/ CollectDerived(k) \/ CollectSlice(k)
  BY <1>1
     DEF ListServices, Live, DeleteImports, EndRound, RoundEnds, GetServiceImport,
         WithImport, CreateServiceImport, ImportAlreadyExists, DeleteImport,
         GetDerivedService, WithDerived, CreateDerivedService, DerivedAlreadyExists,
         EndService, ServiceEnds, DeleteEndpointSlices, GetCreatedImport,
         GetCreatedDerived, UpdateDerivedService, UpdateEndpointSlices,
         ListDerivedServices, DeleteDerivedService, UpdateServiceImport, RequestFails,
         Restart, ObserveImport, CloudChanges, ObserveDerived, CollectDerived,
         CollectSlice
<1> HIDE DEF RoundTypeOK, EnvTypeOK
<1> QED BY <1>1 DEF Next, RoundStep

(* The variables of reconcileService.                                      *)
LEMMA ServiceStep == ASSUME ImportInv, Next PROVE ServiceTypeOK'
<1>1. ServiceTypeOK /\ RoundTypeOK /\ EnvTypeOK /\ PlaceInv BY DEF ImportInv, TypeOK
<1>a. \A s \in Svcs : Exporting(s) \subseteq Clusters BY DEF Exporting
<1> USE <1>1, NoIPsType DEF ServiceTypeOK, env, service
<1>b. ASSUME EndService PROVE ServiceTypeOK' BY <1>b DEF EndService, ServiceEnds
<1>2. ASSUME NEW s \in Svcs, GetServiceImport(s) PROVE ServiceTypeOK'
  <2>1. seenImports[s] \in ServiceImports BY <1>2 DEF GetServiceImport, EnvTypeOK
  <2> QED BY <1>2, <1>a, <2>1, ImportAssumption DEF GetServiceImport, WithImport
<1>3. ASSUME NEW s \in Svcs, CreateServiceImport(s) PROVE ServiceTypeOK'
  BY <1>3, <1>a DEF CreateServiceImport
<1>4. CASE GetCreatedImport
  <2>1. svc \in Svcs BY <1>4 DEF GetCreatedImport, PlaceInv, ServiceSteps
  <2>2. CASE /\ seenImports[svc] # NoObject /\ WithImport(seenImports[svc])
             /\ UNCHANGED <<svc, clusterIds>>
    <3>1. seenImports[svc] \in ServiceImports BY <2>1, <2>2 DEF EnvTypeOK
    <3> QED BY <2>2, <3>1, ImportAssumption DEF WithImport
  <2> QED BY <1>b, <1>4, <2>2 DEF GetCreatedImport
<1>5. ASSUME NEW c \in Clusters, GetDerivedService(c) PROVE ServiceTypeOK'
  <2>1. svc \in Svcs BY <1>5 DEF GetDerivedService, PlaceInv, ServiceSteps
  <2>2. seenDerived[<<svc, c>>] \in DerivedServices
    BY <1>5, <2>1 DEF GetDerivedService, EnvTypeOK, Keys
  <2> QED BY <1>5, <2>2, ImportAssumption DEF GetDerivedService, WithDerived
<1>6. ASSUME NEW s \in Svcs, ImportAlreadyExists(s) PROVE ServiceTypeOK'
  BY <1>6 DEF ImportAlreadyExists
<1>7. ASSUME NEW c \in Clusters, CreateDerivedService(c) PROVE ServiceTypeOK'
  BY <1>7 DEF CreateDerivedService
<1>8. ASSUME NEW c \in Clusters, DerivedAlreadyExists(c) PROVE ServiceTypeOK'
  BY <1>b, <1>8 DEF DerivedAlreadyExists
<1>9. CASE GetCreatedDerived
  <2>1. svc \in Svcs /\ cluster \in Clusters
    BY <1>9 DEF GetCreatedDerived, PlaceInv, ServiceSteps, ClusterSteps
  <2>2. CASE /\ seenDerived[<<svc, cluster>>] # NoObject
             /\ WithDerived(seenDerived[<<svc, cluster>>]) /\ UNCHANGED <<clusterIds, cluster>>
    <3>1. seenDerived[<<svc, cluster>>] \in DerivedServices
      BY <2>1, <2>2 DEF EnvTypeOK, Keys
    <3> QED BY <1>9, <2>2, <3>1, ImportAssumption DEF WithDerived, GetCreatedDerived
  <2> QED BY <1>b, <1>9, <2>2 DEF GetCreatedDerived
<1>10. CASE UpdateDerivedService
  <2> USE DEF UpdateDerivedService
  <2>1. svc \in Svcs /\ cluster \in Clusters /\ derivedService \in DerivedServices
    BY <1>10 DEF ServiceSteps, ClusterSteps, PlaceInv
  <2>2. \A ports \in ExtractServicePorts(desired[svc][cluster]) :
          [derivedService EXCEPT !.ports = ports] \in DerivedServices
    <3>1. desired[svc][cluster] \in SUBSET Endpoints BY <2>1, DesiredType DEF ImportInv
    <3> QED BY <2>1, <3>1, ServicePortsType, WithPortsType
  <2> QED BY <1>b, <1>10, <2>2, ImportAssumption
<1>11. CASE UpdateEndpointSlices
  <2>1. derivedService.ip \in Uids \cup {"None"}
    BY <1>11 DEF UpdateEndpointSlices, DerivedServices
  <2> QED BY <1>11, <2>1 DEF UpdateEndpointSlices
<1>12. CASE ListDerivedServices
  BY <1>12 DEF ListDerivedServices
<1>13. ASSUME NEW c \in Clusters, DeleteEndpointSlices(c) PROVE ServiceTypeOK'
  BY <1>13 DEF DeleteEndpointSlices
<1>14. CASE DeleteDerivedService
  BY <1>14 DEF DeleteDerivedService, EndService, ServiceEnds
<1>15. CASE UpdateServiceImport \/ RequestFails \/ Restart
  BY <1>15
     DEF UpdateServiceImport, EndService, ServiceEnds, RequestFails, Restart, RoundEnds
<1>16. CASE \/ ListServices \/ DeleteImports \/ EndRound
            \/ \E s \in Svcs : DeleteImport(s) \/ ObserveImport(s)
            \/ \E s \in Svcs, c \in Clusters : CloudChanges(s, c)
            \/ \E k \in Keys : ObserveDerived(k) \/ CollectDerived(k) \/ CollectSlice(k)
  BY <1>16
     DEF ListServices, Live, DeleteImports, EndRound, RoundEnds, DeleteImport,
         ObserveImport, CloudChanges, ObserveDerived, CollectDerived, CollectSlice
<1> HIDE DEF ServiceTypeOK
<1> QED BY <1>2, <1>3, <1>4, <1>5, <1>6, <1>7, <1>8, <1>9, <1>10, <1>11, <1>12, <1>13,
           <1>14, <1>15, <1>16 DEF Next, RoundStep

(* Where the round is.                                                     *)
LEMMA PlaceStep == ASSUME ImportInv, Next PROVE PlaceInv'
<1>0. PlaceInv /\ RoundTypeOK /\ ServiceTypeOK BY DEF ImportInv, TypeOK
<1>a. NoObject \notin Svcs BY ImportAssumption
<1> USE <1>0, <1>a DEF PlaceInv, ServiceSteps, ClusterSteps, env, service
<1>1. CASE \/ ListServices \/ DeleteImports \/ EndRound
           \/ \E s \in Svcs : DeleteImport(s)
  BY <1>1 DEF ListServices, Live, DeleteImports, EndRound, RoundEnds, DeleteImport
<1>2. CASE \E s \in Svcs : \/ GetServiceImport(s) \/ CreateServiceImport(s)
                           \/ ImportAlreadyExists(s)
  BY <1>2 DEF GetServiceImport, WithImport, CreateServiceImport, ImportAlreadyExists
<1>3. CASE GetCreatedImport
  BY <1>3 DEF GetCreatedImport, WithImport, EndService, ServiceEnds
<1>4. CASE \E c \in Clusters : \/ GetDerivedService(c) \/ CreateDerivedService(c)
                               \/ DerivedAlreadyExists(c) \/ DeleteEndpointSlices(c)
  BY <1>4
     DEF GetDerivedService, WithDerived, CreateDerivedService, DerivedAlreadyExists,
         EndService, ServiceEnds, DeleteEndpointSlices
<1>5. CASE GetCreatedDerived \/ UpdateDerivedService \/ UpdateEndpointSlices
  BY <1>5
     DEF GetCreatedDerived, WithDerived, EndService, ServiceEnds, UpdateDerivedService,
         UpdateEndpointSlices
<1>6. CASE ListDerivedServices \/ DeleteDerivedService \/ UpdateServiceImport
  BY <1>6
     DEF ListDerivedServices, DeleteDerivedService, EndService, ServiceEnds,
         UpdateServiceImport
<1>7. CASE RequestFails
  BY <1>7 DEF RequestFails, ServiceEnds
<1>8. CASE Restart
  BY <1>8 DEF Restart, RoundEnds, ServiceEnds
<1>9. CASE \/ \E s \in Svcs : ObserveImport(s)
           \/ \E s \in Svcs, c \in Clusters : CloudChanges(s, c)
           \/ \E k \in Keys : ObserveDerived(k) \/ CollectDerived(k) \/ CollectSlice(k)
  BY <1>9
     DEF ObserveImport, CloudChanges, ObserveDerived, CollectDerived, Live, CollectSlice
<1> HIDE DEF PlaceInv
<1> QED BY <1>1, <1>2, <1>3, <1>4, <1>5, <1>6, <1>7, <1>8, <1>9 DEF Next, RoundStep

(* What is left to be deleted.                                             *)
LEMMA ExistingStep == ASSUME ImportInv, Next PROVE ExistingInv'
<1>0. ExistingInv /\ PlaceInv /\ RoundTypeOK /\ EnvTypeOK BY DEF ImportInv, TypeOK
<1>a. NoObject \notin Svcs BY ImportAssumption
<1> USE <1>0, <1>a DEF ExistingInv, PlaceInv, Exporting, RoundTypeOK, EnvTypeOK,
        ServiceSteps, env, service
<1>1. CASE ListServices
  BY <1>1 DEF ListServices, Live
<1>2. CASE DeleteImports
  BY <1>2 DEF DeleteImports
<1>3. CASE EndRound \/ \E s \in Svcs : DeleteImport(s)
  BY <1>3 DEF EndRound, RoundEnds, DeleteImport
<1>4. CASE \E s \in Svcs : \/ GetServiceImport(s) \/ CreateServiceImport(s)
                           \/ ImportAlreadyExists(s)
  BY <1>4 DEF GetServiceImport, WithImport, CreateServiceImport, ImportAlreadyExists
<1>5. CASE GetCreatedImport
  BY <1>5 DEF GetCreatedImport, WithImport, EndService, ServiceEnds
<1>b. ASSUME EndService PROVE ExistingInv' BY <1>b DEF EndService, ServiceEnds
<1>c. ASSUME UNCHANGED <<pc, desired, todo, existing, svc>> PROVE ExistingInv' BY <1>c
<1>d. ASSUME UNCHANGED <<desired, todo, existing, svc>>, pc' # "delete" PROVE ExistingInv'
  BY <1>d
<1> HIDE DEF ExistingInv, Exporting
<1>6. CASE \E c \in Clusters : \/ GetDerivedService(c) \/ CreateDerivedService(c)
                               \/ DerivedAlreadyExists(c) \/ DeleteEndpointSlices(c)
  BY <1>6, <1>b, <1>d
     DEF GetDerivedService, WithDerived, CreateDerivedService, DerivedAlreadyExists,
         DeleteEndpointSlices
<1>7. CASE GetCreatedDerived \/ UpdateDerivedService \/ UpdateEndpointSlices
  BY <1>7, <1>b, <1>d
     DEF GetCreatedDerived, WithDerived, UpdateDerivedService, UpdateEndpointSlices
<1>8. CASE ListDerivedServices
  BY <1>8, <1>d DEF ListDerivedServices
<1>9. CASE DeleteDerivedService \/ UpdateServiceImport
  BY <1>9, <1>b, <1>d DEF DeleteDerivedService, UpdateServiceImport
<1> USE DEF ExistingInv, Exporting
<1>10. CASE RequestFails
  BY <1>10 DEF RequestFails, ServiceEnds
<1>11. CASE Restart
  BY <1>11 DEF Restart, RoundEnds, ServiceEnds
<1>12. CASE \/ \E s \in Svcs : ObserveImport(s)
            \/ \E s \in Svcs, c \in Clusters : CloudChanges(s, c)
            \/ \E k \in Keys : ObserveDerived(k) \/ CollectDerived(k) \/ CollectSlice(k)
  BY <1>12
     DEF ObserveImport, CloudChanges, ObserveDerived, CollectDerived, Live, CollectSlice
<1> HIDE DEF ExistingInv, Exporting, PlaceInv
<1> QED BY <1>1, <1>2, <1>3, <1>4, <1>5, <1>6, <1>7, <1>8, <1>9, <1>10, <1>11, <1>12
           DEF Next, RoundStep

(* The clusters whose derived Service is deleted.                          *)
LEMMA AbsentStep == ASSUME ImportInv, Next PROVE AbsentInv'
<1>0. AbsentInv /\ PlaceInv /\ RoundTypeOK /\ ServiceTypeOK BY DEF ImportInv, TypeOK
<1>a. NoObject \notin Svcs BY ImportAssumption
<1> USE <1>0, <1>a DEF AbsentInv, PlaceInv, Exporting, RoundTypeOK, ServiceTypeOK,
        ServiceSteps, env, service
<1>1. CASE ListServices
  BY <1>1 DEF ListServices, Live
<1>2. CASE DeleteImports
  BY <1>2 DEF DeleteImports
<1>3. CASE EndRound \/ \E s \in Svcs : DeleteImport(s)
  BY <1>3 DEF EndRound, RoundEnds, DeleteImport
<1>4. CASE \E s \in Svcs : \/ GetServiceImport(s) \/ CreateServiceImport(s)
                           \/ ImportAlreadyExists(s)
  BY <1>4 DEF GetServiceImport, WithImport, CreateServiceImport, ImportAlreadyExists
<1>5. CASE GetCreatedImport
  BY <1>5 DEF GetCreatedImport, WithImport, EndService, ServiceEnds
<1>6. CASE \E c \in Clusters : \/ GetDerivedService(c) \/ CreateDerivedService(c)
                               \/ DerivedAlreadyExists(c) \/ DeleteEndpointSlices(c)
  BY <1>6
     DEF GetDerivedService, WithDerived, CreateDerivedService, DerivedAlreadyExists,
         EndService, ServiceEnds, DeleteEndpointSlices
<1>7. CASE GetCreatedDerived \/ UpdateDerivedService \/ UpdateEndpointSlices
  BY <1>7
     DEF GetCreatedDerived, WithDerived, EndService, ServiceEnds, UpdateDerivedService,
         UpdateEndpointSlices
<1>8. CASE ListDerivedServices
  BY <1>8 DEF ListDerivedServices
<1>9. CASE DeleteDerivedService \/ UpdateServiceImport
  BY <1>9 DEF DeleteDerivedService, EndService, ServiceEnds, UpdateServiceImport
<1>10. CASE RequestFails
  BY <1>10 DEF RequestFails, ServiceEnds
<1>11. CASE Restart
  BY <1>11 DEF Restart, RoundEnds, ServiceEnds
<1>12. CASE \/ \E s \in Svcs : ObserveImport(s)
            \/ \E s \in Svcs, c \in Clusters : CloudChanges(s, c)
            \/ \E k \in Keys : ObserveDerived(k) \/ CollectDerived(k) \/ CollectSlice(k)
  BY <1>12
     DEF ObserveImport, CloudChanges, ObserveDerived, CollectDerived, Live, CollectSlice
<1> HIDE DEF AbsentInv, Exporting, PlaceInv
<1> QED BY <1>1, <1>2, <1>3, <1>4, <1>5, <1>6, <1>7, <1>8, <1>9, <1>10, <1>11, <1>12
           DEF Next, RoundStep

-----------------------------------------------------------------------------
LEMMA InitInv == Init => ImportInv
<1> SUFFICES ASSUME Init PROVE ImportInv OBVIOUS
<1>1. imports = [s \in Svcs |-> NoObject] /\ seenImports = imports BY DEF Init
<1>2. derived = [k \in Keys |-> NoObject] /\ seenDerived = derived BY DEF Init
<1>3. slices = [k \in Keys |-> NoObject] BY DEF Init
<1>4. cloud = Nothing /\ desired = Nothing /\ changed = 0 /\ errors = 0 BY DEF Init
<1>5. pc = "idle" /\ todo = {} /\ existing = {} BY DEF Init
<1>6. svc = NoObject /\ svcImport = NoObject /\ clusterIds = {} /\ cluster = NoObject
  BY DEF Init
<1>7. derivedService = NoObject /\ clusterIPs = NoIPs /\ absent = {} BY DEF Init
<1>8. ObjectTypeOK BY <1>1, <1>2, <1>3 DEF ObjectTypeOK
<1>9. EnvTypeOK BY <1>1, <1>2, <1>4, NothingType, ImportAssumption DEF EnvTypeOK
<1>10. RoundTypeOK BY <1>4, <1>5, NothingType DEF RoundTypeOK
<1>11. ServiceTypeOK BY <1>5, <1>6, <1>7, NoIPsType DEF ServiceTypeOK
<1>12. PlaceInv BY <1>5, <1>6 DEF PlaceInv, ServiceSteps, ClusterSteps
<1>13. ExistingInv /\ AbsentInv BY <1>5, <1>7 DEF ExistingInv, AbsentInv
<1> QED BY <1>8, <1>9, <1>10, <1>11, <1>12, <1>13 DEF ImportInv, TypeOK

LEMMA StutterInv == ImportInv /\ UNCHANGED vars => ImportInv'
<1> SUFFICES ASSUME ImportInv, UNCHANGED vars PROVE ImportInv' OBVIOUS
<1> USE DEF ImportInv, TypeOK, vars, objects, copies, service
<1>1. ObjectTypeOK' BY DEF ObjectTypeOK
<1>2. EnvTypeOK' BY DEF EnvTypeOK
<1>3. RoundTypeOK' BY DEF RoundTypeOK
<1>4. ServiceTypeOK' BY DEF ServiceTypeOK
<1>5. PlaceInv' BY DEF PlaceInv
<1>6. ExistingInv' BY DEF ExistingInv, Exporting
<1>7. AbsentInv' BY DEF AbsentInv, Exporting
<1> QED BY <1>1, <1>2, <1>3, <1>4, <1>5, <1>6, <1>7

(* The invariant the others follow from.                                   *)
THEOREM ImportInvariant == Spec => []ImportInv
<1>1. ImportInv /\ [Next]_vars => ImportInv'
  <2> SUFFICES ASSUME ImportInv, Next PROVE ImportInv' BY StutterInv
  <2>1. TypeOK' BY ObjectStep, EnvStep, RoundOK, ServiceStep DEF TypeOK
  <2> QED BY <2>1, PlaceStep, ExistingStep, AbsentStep DEF ImportInv
<1> QED BY <1>1, InitInv, PTL DEF Spec

(* Whatever the order of the requests, the reconciler holds objects of the *)
(* right kinds, and goes on only with a ServiceImport and a derived Service*)
(* it has got (the nil checks of reconcileService).                        *)
THEOREM ImportTypeCorrect == Spec => []TypeOK
<1>1. ImportInv => TypeOK BY DEF ImportInv
<1> QED BY <1>1, ImportInvariant, PTL

-----------------------------------------------------------------------------
(* The steps that remove objects, and why each may.                        *)
LEMMA RemovalStep == ASSUME ImportInv, Next PROVE RemovesOnlyAbsent
<1> USE DEF RemovesOnlyAbsent, Live, objects
<1>0. ObjectTypeOK /\ PlaceInv /\ ExistingInv /\ AbsentInv /\ NoObject \notin Svcs
  BY ImportAssumption DEF ImportInv, TypeOK
<1>a. \A o \in ServiceImports \cup DerivedServices \cup EndpointSlices : o # NoObject
  BY ImportAssumption
<1>b. ASSUME UNCHANGED objects PROVE RemovesOnlyAbsent BY <1>b
<1>1. ASSUME NEW s \in Svcs, DeleteImport(s) PROVE RemovesOnlyAbsent
  <2>1. s \in existing /\ todo = {} /\ svc = NoObject
    BY <1>0, <1>1 DEF DeleteImport, ExistingInv, PlaceInv, ServiceSteps
  <2>2. Exporting(s) = {} BY <1>0, <2>1 DEF ExistingInv
  <2> QED BY <1>0, <1>1, <2>2 DEF DeleteImport, ObjectTypeOK
<1>2. ASSUME NEW c \in Clusters, DeleteEndpointSlices(c) PROVE RemovesOnlyAbsent
  <2>1. c \notin Exporting(svc) BY <1>0, <1>2 DEF DeleteEndpointSlices, AbsentInv
  <2> QED BY <1>0, <1>2, <2>1 DEF DeleteEndpointSlices, ObjectTypeOK
<1>3. CASE DeleteDerivedService
  <2>1. cluster \notin Exporting(svc) BY <1>0, <1>3 DEF DeleteDerivedService, AbsentInv
  <2> QED BY <1>0, <1>3, <2>1 DEF DeleteDerivedService, ObjectTypeOK
<1>4. ASSUME NEW k \in Keys, CollectDerived(k) PROVE RemovesOnlyAbsent
  BY <1>0, <1>4 DEF CollectDerived, ObjectTypeOK
<1>5. ASSUME NEW k \in Keys, CollectSlice(k) PROVE RemovesOnlyAbsent
  BY <1>0, <1>5 DEF CollectSlice, ObjectTypeOK
(* The other steps that write objects.                                     *)
<1>6. ASSUME NEW s \in Svcs, CreateServiceImport(s) PROVE RemovesOnlyAbsent
  <2>1. \A o \in Svcs : o # s => imports'[o] = imports[o]
    BY <1>0, <1>6 DEF CreateServiceImport, ObjectTypeOK
  <2> QED BY <1>0, <1>6, <2>1 DEF CreateServiceImport, ObjectTypeOK
<1>7. ASSUME NEW c \in Clusters, CreateDerivedService(c) PROVE RemovesOnlyAbsent
  <2>1. \A k \in Keys : k # <<svc, c>> => derived'[k] = derived[k]
    BY <1>0, <1>7 DEF CreateDerivedService, ObjectTypeOK
  <2> QED BY <1>0, <1>7, <2>1 DEF CreateDerivedService, ObjectTypeOK
<1>8. CASE UpdateDerivedService
  <2>1. /\ svc \in Svcs /\ cluster \in Clusters /\ derivedService \in DerivedServices
        /\ desired[svc][cluster] \in SUBSET Endpoints
    BY <1>8, DesiredType
       DEF UpdateDerivedService, ImportInv, TypeOK, ServiceTypeOK, PlaceInv,
           ServiceSteps, ClusterSteps
  <2>2. \A ports \in ExtractServicePorts(desired[svc][cluster]) :
          [derivedService EXCEPT !.ports = ports] # NoObject
    BY <2>1, <1>a, ServicePortsType, WithPortsType
  <2>3. UNCHANGED <<imports, slices>> BY <1>8 DEF UpdateDerivedService, EndService
  <2>4. \A k \in Keys : derived[k] # NoObject => derived'[k] # NoObject
    BY <1>0, <1>8, <2>2 DEF UpdateDerivedService, ObjectTypeOK
  <2> QED BY <2>3, <2>4, <1>0 DEF ObjectTypeOK
<1>9. CASE UpdateEndpointSlices
  <2>1. UNCHANGED <<imports, derived>> BY <1>9 DEF UpdateEndpointSlices
  <2>2. \A k \in Keys : slices[k] # NoObject => slices'[k] # NoObject
    <3>1. /\ svc \in Svcs /\ cluster \in Clusters /\ derivedService \in DerivedServices
          /\ desired[svc][cluster] \in SUBSET Endpoints
      BY <1>9, DesiredType
         DEF UpdateEndpointSlices, ImportInv, TypeOK, ServiceTypeOK, PlaceInv,
             ServiceSteps,
             ClusterSteps
    <3>2. \A u \in Uids : [owner |-> u, eps |-> desired[svc][cluster]] # NoObject
      BY <3>1, <1>a, SliceType
    <3>3. \A d \in DerivedServices : d.uid \in Uids BY DEF DerivedServices
    <3>4. \A s \in EndpointSlices : s.owner \in Uids BY DEF EndpointSlices
    <3> QED BY <1>0, <1>9, <3>1, <3>2, <3>3, <3>4 DEF UpdateEndpointSlices, ObjectTypeOK
  <2> QED BY <2>1, <2>2, <1>0 DEF ObjectTypeOK
<1>10. CASE UpdateServiceImport
  <2>1. /\ svc \in Svcs /\ svcImport \in ServiceImports
        /\ clusterIPs \in [Uids \cup {"None"} -> Nat]
        /\ UNION {desired[svc][c] : c \in Clusters} \in SUBSET Endpoints
    BY <1>10, DesiredType
       DEF UpdateServiceImport, ImportInv, TypeOK, ServiceTypeOK, PlaceInv, ServiceSteps
  <2>2. \A ports \in ExtractServicePorts(UNION {desired[svc][c] : c \in Clusters}) :
          [svcImport EXCEPT !.ips = clusterIPs,
                            !.ports = IF PortsEqualIgnoreOrder(@, ports) THEN @ ELSE ports] # NoObject
    BY <2>1, <1>a, ServicePortsType, UpdatedImportType
  <2>3. UNCHANGED <<derived, slices>> BY <1>10 DEF UpdateServiceImport
  <2>4. \A s \in Svcs : imports[s] # NoObject => imports'[s] # NoObject
    BY <1>0, <1>10, <2>2 DEF UpdateServiceImport, ObjectTypeOK
  <2> QED BY <2>3, <2>4, <1>0 DEF ObjectTypeOK
<1>11. CASE \/ ListServices \/ DeleteImports \/ EndRound \/ GetCreatedImport
            \/ GetCreatedDerived \/ ListDerivedServices \/ RequestFails \/ Restart
            \/ \E s \in Svcs : \/ GetServiceImport(s) \/ ImportAlreadyExists(s)
                               \/ ObserveImport(s)
            \/ \E c \in Clusters : GetDerivedService(c) \/ DerivedAlreadyExists(c)
            \/ \E s \in Svcs, c \in Clusters : CloudChanges(s, c)
            \/ \E k \in Keys : ObserveDerived(k)
  <2>1. UNCHANGED objects
    BY <1>11
       DEF ListServices, DeleteImports, EndRound, GetServiceImport, WithImport,
           ImportAlreadyExists, GetDerivedService, WithDerived, DerivedAlreadyExists,
           GetCreatedImport, GetCreatedDerived, ListDerivedServices, RequestFails, Restart,
           ObserveImport, CloudChanges, ObserveDerived
  <2> QED BY <1>b, <2>1
<1> HIDE DEF RemovesOnlyAbsent
<1> QED BY <1>1, <1>2, <1>3, <1>4, <1>5, <1>6, <1>7, <1>8, <1>9, <1>10, <1>11
           DEF Next, RoundStep

(* A round takes away only what had no endpoints when it listed the        *)
(* services, or what the garbage collector finds without an owner, whatever*)
(* requests failed before.                                                 *)
THEOREM ImportOnlyAbsentRemoved == Spec => OnlyAbsentRemoved
<1>1. ImportInv /\ [Next]_vars => [RemovesOnlyAbsent]_vars BY RemovalStep
<1> QED BY <1>1, ImportInvariant, PTL DEF Spec, OnlyAbsentRemoved
=============================================================================
