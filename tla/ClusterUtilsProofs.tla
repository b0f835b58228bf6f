------------------------- MODULE ClusterUtilsProofs -------------------------
(***************************************************************************)
(* What holds of ClusterUtils for any values, changes, exports and restarts:*)
(* its types, that no endpoint is registered without ids, and that an      *)
(* export that is gone has left no instance.                               *)
(***************************************************************************)
EXTENDS ClusterUtils, FiniteSetTheorems, TLAPS

(* The values that property n may show anywhere in the system: those it has*)
(* had, and none.                                                          *)
Had(n) == given[n] \cup {NoValue}

(* Every copy, list and instance holds values the properties have had.     *)
KnownInv ==
  /\ \A n \in Names :
       /\ props[n] \in Had(n) /\ seenProps[n] \in Had(n)
       /\ copy[n] \in Had(n) /\ client[n] \in Had(n)
       /\ inst[n] \in Had(n)
       /\ \A t \in Handlers : rest[t][n] \in Had(n)
       /\ IsFiniteSet(given[n])
  /\ clusterId \in Had("ClusterId")

(* A key is in the queue, a worker or the mapping function at work only    *)
(* when the exporter's copy is valid, and a valid copy remains valid.      *)
CopyInv ==
  queued \/ tpc["worker"] # "idle" \/ tpc["properties"] = "load" => IsValid(copy)

(* The instance has both ids, and only the worker changes it.              *)
InstInv == /\ inst # NoProperties => IsValid(inst)
           /\ found \in {inst, NoProperties}

(* The export is held from the moment its endpoint may be registered until *)
(* the worker releases it.                                                 *)
HeldInv ==
  /\ tpc["worker"] = "plan" => export \in {"held", "deleting"}
  /\ tpc["worker"] \in {"getToDelete", "delete", "release"} => export = "deleting"

(* No property has had more than one value.                                *)
OneValue == \A n \in Names : \A v, w \in given[n] : v = w

(* Then handleDelete has found the instance, if there is one.              *)
ReleaseInv ==
  OneValue => /\ export \in {"absent", "new"} => inst = NoProperties
              /\ tpc["worker"] = "release" => found = inst

ClusterInv == TypeOK /\ KnownInv /\ CopyInv /\ InstInv /\ HeldInv /\ ReleaseInv

-----------------------------------------------------------------------------
(* Finite sets with at most one element.                                   *)
LEMMA AtMostOne ==
  ASSUME NEW S, IsFiniteSet(S), ~(Cardinality(S) > 1)
  PROVE  \A v, w \in S : v = w
<1>1. Cardinality(S) \in Nat BY FS_CardinalityType
<1>2. CASE Cardinality(S) = 0 BY <1>2, FS_EmptySet
<1>3. CASE Cardinality(S) = 1 BY <1>3, FS_Singleton
<1> QED BY <1>1, <1>2, <1>3

LEMMA NotRenamed == ASSUME KnownInv, ~Renamed PROVE OneValue
BY AtMostOne DEF KnownInv, Renamed, OneValue

(* The goroutines: handlers of events, of which the one for properties is  *)
(* special, and the worker.                                                *)
LEMMA Goroutines ==
  /\ "exports" \in Handlers /\ "properties" \in Handlers /\ "worker" \in Threads
  /\ \A t \in Handlers : t \in Threads /\ t # "worker"
  /\ \A t \in Threads : t \in Handlers \/ t = "worker"
  /\ \A t \in {"exports"} \cup Watches : t \in Handlers /\ t # "properties"
BY ClusterAssumption DEF Handlers, Kinds, Threads

LEMMA NoPropertiesType == NoProperties \in Properties
BY DEF NoProperties, Properties

LEMMA InitInv == ASSUME Init PROVE ClusterInv
<1> USE ClusterAssumption DEF Init
<1>1. TypeOK
  <2>1. tpc \in [Threads -> {"idle"}] /\ tpc["worker"] = "idle" BY Goroutines
  <2>2. /\ rest \in [Handlers -> Properties] /\ events \in [Kinds -> BOOLEAN]
        /\ queued \in BOOLEAN /\ given \in [Names -> SUBSET Values]
    BY NoPropertiesType
  <2>3. /\ props \in Properties /\ seenProps \in Properties
        /\ copy \in Properties /\ client \in Properties
        /\ found \in Properties /\ inst \in Properties
    BY NoPropertiesType
  <2>4. /\ export \in {"absent", "new", "held", "deleting"}
        /\ clusterId \in Values \cup {NoValue}
        /\ changes \in 0..MaxChanges /\ exports \in 0..MaxExports /\ restarts \in 0..MaxRestarts
    OBVIOUS
  <2> HIDE DEF Init
  <2> QED BY <2>1, <2>2, <2>3, <2>4 DEF TypeOK
<1> USE Goroutines DEF Names, NoProperties
<1>2. KnownInv BY FS_EmptySet DEF KnownInv, Had
<1>3. CopyInv BY DEF CopyInv
<1>4. InstInv /\ HeldInv /\ ReleaseInv BY DEF InstInv, HeldInv, ReleaseInv
<1> QED BY <1>1, <1>2, <1>3, <1>4 DEF ClusterInv

-----------------------------------------------------------------------------
(* Types, and the histories of the values.                                 *)
LEMMA GetServiceType ==
  ASSUME TypeOK, NEW at, GetService(at)
  PROVE  client' \in Properties /\ found' \in Properties /\ queued' \in BOOLEAN
BY NoPropertiesType DEF TypeOK, GetService, Requeue, Properties

LEMMA TypeStep == ASSUME ClusterInv, Next PROVE TypeOK'
<1> USE ClusterAssumption, Goroutines DEF TypeOK, Properties, Goto, bounds, cloud
<1> SUFFICES ASSUME TypeOK, CopyInv PROVE TypeOK' BY DEF ClusterInv
<1>1. ASSUME NEW t \in Handlers, HandleEvent(t) PROVE TypeOK'
  <2>1. /\ tpc' = [tpc EXCEPT ![t] = "filter"]
        /\ rest' = rest \/ rest' = [rest EXCEPT ![t] = seenProps]
        /\ events' \in [Kinds -> BOOLEAN]
    BY <1>1 DEF HandleEvent, GetClusterProperties, Load
  <2>2. /\ tpc' \in [Threads -> {"idle", "filter", "load", "getToUpdate", "getToDelete",
                                 "update", "plan", "delete", "release"}]
        /\ tpc'["worker"] = tpc["worker"] /\ rest' \in [Handlers -> Properties]
    BY <2>1
  <2> QED BY <1>1, <2>1, <2>2 DEF HandleEvent
<1>2. ASSUME NEW t \in Handlers, Assign(t) PROVE TypeOK'
  BY <1>2 DEF Assign, Names
<1>3. ASSUME NEW t \in Handlers, DropEvent(t) PROVE TypeOK'
  BY <1>3 DEF DropEvent, Loaded
<1>7. ASSUME NEW t \in Handlers, EnqueueExport(t) PROVE TypeOK'
  BY <1>7 DEF EnqueueExport, Loaded
<1>8. CASE MapProperty
  BY <1>8 DEF MapProperty, Loaded, Load
<1>9. CASE EnqueueAllExports
  BY <1>9 DEF EnqueueAllExports, Loaded
<1>10. CASE Reconcile
  BY <1>10 DEF Reconcile
<1>11. CASE GotClusterProperties
  BY <1>11 DEF GotClusterProperties, CopyInv, IsValid, Names
<1>12. CASE HandleUpdate
  BY <1>12, GetServiceType DEF HandleUpdate, GetService, Requeue
<1>13. CASE RegisterEndpoints
  BY <1>13 DEF RegisterEndpoints, NoProperties
<1>14. CASE HandleDelete
  BY <1>14, GetServiceType DEF HandleDelete, GetService, Requeue
<1>15. CASE DeleteEndpoints
  BY <1>15 DEF DeleteEndpoints, NoProperties
<1>16. ASSUME NEW n \in Names, NEW v \in Values \cup {NoValue}, SetProperty(n, v) PROVE TypeOK'
  BY <1>16 DEF SetProperty
<1>17. ASSUME NEW n \in Names, ObserveProperty(n) PROVE TypeOK'
  BY <1>17 DEF ObserveProperty
<1>18. CASE CreateExport
  <2>1. events' = [events EXCEPT !["exports"] = TRUE] /\ export' = "new"
    BY <1>18 DEF CreateExport
  <2>2. exports' \in 0..MaxExports
    BY <1>18 DEF CreateExport
  <2> QED BY <1>18, <2>1, <2>2 DEF CreateExport
<1>19. CASE DeleteExport
  BY <1>19 DEF DeleteExport
<1>20. CASE Resync
  BY <1>20 DEF Resync, AllEvents
<1>21. CASE Restart
  <2>1. tpc' \in [Threads -> {"idle"}] /\ tpc'["worker"] = "idle" BY <1>21 DEF Restart
  <2>2. /\ rest' \in [Handlers -> Properties] /\ events' \in [Kinds -> BOOLEAN]
        /\ queued' \in BOOLEAN /\ given' \in [Names -> SUBSET Values]
    BY <1>21, NoPropertiesType DEF Restart, AllEvents
  <2>3. /\ props' \in Properties /\ seenProps' \in Properties
        /\ copy' \in Properties /\ client' \in Properties
        /\ found' \in Properties /\ inst' \in Properties
    BY <1>21, NoPropertiesType DEF Restart
  <2>4. /\ export' \in {"absent", "new", "held", "deleting"}
        /\ clusterId' \in Values \cup {NoValue}
        /\ changes' \in 0..MaxChanges /\ exports' \in 0..MaxExports
        /\ restarts' \in 0..MaxRestarts
    BY <1>21 DEF Restart
  <2> QED BY <2>1, <2>2, <2>3, <2>4
<1> QED BY <1>1, <1>2, <1>3, <1>7, <1>8, <1>9, <1>10, <1>11, <1>12,
           <1>13, <1>14, <1>15, <1>16, <1>17, <1>18, <1>19, <1>20, <1>21
        DEF Next, ExportsStep, PropertiesStep, WorkerStep

LEMMA KnownStep == ASSUME ClusterInv, Next PROVE KnownInv'
<1> USE Goroutines
        DEF TypeOK, Properties, KnownInv, Had, Names, Goto, bounds, cloud, NoProperties
<1> SUFFICES ASSUME TypeOK, KnownInv PROVE KnownInv' BY DEF ClusterInv
<1>1. ASSUME NEW t \in {"exports"} \cup Watches, ExportsStep(t) PROVE KnownInv'
  BY <1>1 DEF ExportsStep, EnqueueExport,
              HandleEvent, GetClusterProperties, Load, Assign, DropEvent, Loaded
<1>2. CASE PropertiesStep
  BY <1>2 DEF PropertiesStep, MapProperty, EnqueueAllExports,
              HandleEvent, GetClusterProperties, Load, Assign, DropEvent, Loaded
<1>3. CASE Reconcile
  BY <1>3 DEF Reconcile
<1>4. CASE GotClusterProperties
  BY <1>4 DEF GotClusterProperties
<1>5. CASE HandleUpdate
  BY <1>5 DEF HandleUpdate, GetService, Requeue
<1>6. CASE RegisterEndpoints
  BY <1>6 DEF RegisterEndpoints
<1>7. CASE HandleDelete
  BY <1>7 DEF HandleDelete, GetService, Requeue
<1>8. CASE DeleteEndpoints
  BY <1>8 DEF DeleteEndpoints
<1>9. ASSUME NEW n \in Names, NEW v \in Values \cup {NoValue}, SetProperty(n, v)
      PROVE  KnownInv'
  <2>1. /\ props' = [props EXCEPT ![n] = v]
        /\ given' = [given EXCEPT ![n] = given[n] \cup ({v} \ {NoValue})]
        /\ UNCHANGED <<seenProps, copy, client, inst, rest, clusterId>>
    BY <1>9 DEF SetProperty
  <2>2. \A k \in Names : given[k] \subseteq given'[k] /\ IsFiniteSet(given'[k])
    <3>1. IsFiniteSet(given[n] \cup ({v} \ {NoValue}))
      <4>1. CASE v = NoValue
        <5>1. given[n] \cup ({v} \ {NoValue}) = given[n]
          BY <4>1
        <5> QED BY <5>1
      <4>2. CASE v # NoValue
        <5>1. given[n] \cup ({v} \ {NoValue}) = given[n] \cup {v}
          BY <4>2
        <5> QED BY <5>1, FS_AddElement
      <4> QED BY <4>1, <4>2
    <3> QED BY <2>1, <3>1
  <2>3. v \in given'[n] \cup {NoValue}
    BY <2>1
  <2> QED BY <2>1, <2>2, <2>3
<1>10. ASSUME NEW n \in Names, ObserveProperty(n) PROVE KnownInv'
  BY <1>10 DEF ObserveProperty
<1>11. CASE CreateExport \/ DeleteExport \/ Resync
  BY <1>11 DEF CreateExport, DeleteExport, Resync
<1>12. CASE Restart
  BY <1>12 DEF Restart
<1> QED BY <1>1, <1>2, <1>3, <1>4, <1>5, <1>6, <1>7, <1>8, <1>9, <1>10, <1>11, <1>12
        DEF Next, WorkerStep

LEMMA CopyStep == ASSUME ClusterInv, Next PROVE CopyInv'
<1> USE Goroutines
        DEF TypeOK, Properties, CopyInv, IsValid, Names, Goto, bounds, cloud, NoProperties
<1> SUFFICES ASSUME TypeOK, CopyInv PROVE CopyInv' BY DEF ClusterInv
<1>1. ASSUME NEW t \in {"exports"} \cup Watches, ExportsStep(t) PROVE CopyInv'
  BY <1>1 DEF ExportsStep, EnqueueExport,
              HandleEvent, GetClusterProperties, Load, Assign, DropEvent, Loaded
<1>2. CASE PropertiesStep
  BY <1>2 DEF PropertiesStep, MapProperty, EnqueueAllExports,
              HandleEvent, GetClusterProperties, Load, Assign, DropEvent, Loaded
<1>3. CASE Reconcile
  BY <1>3 DEF Reconcile
<1>4. CASE GotClusterProperties
  BY <1>4 DEF GotClusterProperties
<1>5. CASE HandleUpdate
  BY <1>5 DEF HandleUpdate, GetService, Requeue
<1>6. CASE RegisterEndpoints
  BY <1>6 DEF RegisterEndpoints
<1>7. CASE HandleDelete
  BY <1>7 DEF HandleDelete, GetService, Requeue
<1>8. CASE DeleteEndpoints
  BY <1>8 DEF DeleteEndpoints
<1>9. ASSUME NEW n \in Names, NEW v \in Values \cup {NoValue}, SetProperty(n, v)
      PROVE  CopyInv'
  BY <1>9 DEF SetProperty
<1>10. ASSUME NEW n \in Names, ObserveProperty(n) PROVE CopyInv'
  BY <1>10 DEF ObserveProperty
<1>11. CASE CreateExport \/ DeleteExport \/ Resync
  BY <1>11 DEF CreateExport, DeleteExport, Resync
<1>12. CASE Restart
  BY <1>12 DEF Restart
<1> QED BY <1>1, <1>2, <1>3, <1>4, <1>5, <1>6, <1>7, <1>8, <1>9, <1>10, <1>11, <1>12
        DEF Next, WorkerStep

LEMMA InstStep == ASSUME ClusterInv, Next PROVE InstInv'
<1> USE Goroutines DEF TypeOK, CopyInv, InstInv, Goto, bounds, cloud
<1> SUFFICES ASSUME TypeOK, CopyInv, InstInv PROVE InstInv' BY DEF ClusterInv
<1>1. ASSUME NEW t \in {"exports"} \cup Watches, ExportsStep(t) PROVE InstInv'
  BY <1>1 DEF ExportsStep, EnqueueExport,
              HandleEvent, GetClusterProperties, Load, Assign, DropEvent, Loaded
<1>2. CASE PropertiesStep
  BY <1>2 DEF PropertiesStep, MapProperty, EnqueueAllExports,
              HandleEvent, GetClusterProperties, Load, Assign, DropEvent, Loaded
<1>3. CASE Reconcile
  BY <1>3 DEF Reconcile
<1>4. CASE GotClusterProperties
  BY <1>4 DEF GotClusterProperties
<1>5. CASE HandleUpdate
  BY <1>5 DEF HandleUpdate, GetService, Requeue
<1>6. CASE RegisterEndpoints
  BY <1>6 DEF RegisterEndpoints
<1>7. CASE HandleDelete
  BY <1>7 DEF HandleDelete, GetService, Requeue
<1>8. CASE DeleteEndpoints
  BY <1>8 DEF DeleteEndpoints
<1>9. ASSUME NEW n \in Names, NEW v \in Values \cup {NoValue}, SetProperty(n, v)
      PROVE  InstInv'
  BY <1>9 DEF SetProperty
<1>10. ASSUME NEW n \in Names, ObserveProperty(n) PROVE InstInv'
  BY <1>10 DEF ObserveProperty
<1>11. CASE CreateExport \/ DeleteExport \/ Resync
  BY <1>11 DEF CreateExport, DeleteExport, Resync
<1>12. CASE Restart
  BY <1>12 DEF Restart
<1> QED BY <1>1, <1>2, <1>3, <1>4, <1>5, <1>6, <1>7, <1>8, <1>9, <1>10, <1>11, <1>12
        DEF Next, WorkerStep

LEMMA HeldStep == ASSUME ClusterInv, Next PROVE HeldInv'
<1> USE Goroutines DEF TypeOK, HeldInv, Goto, bounds, cloud
<1> SUFFICES ASSUME TypeOK, HeldInv PROVE HeldInv' BY DEF ClusterInv
<1>1. ASSUME NEW t \in {"exports"} \cup Watches, ExportsStep(t) PROVE HeldInv'
  BY <1>1 DEF ExportsStep, EnqueueExport,
              HandleEvent, GetClusterProperties, Load, Assign, DropEvent, Loaded
<1>2. CASE PropertiesStep
  BY <1>2 DEF PropertiesStep, MapProperty, EnqueueAllExports,
              HandleEvent, GetClusterProperties, Load, Assign, DropEvent, Loaded
<1>3. CASE Reconcile
  BY <1>3 DEF Reconcile
<1>4. CASE GotClusterProperties
  BY <1>4 DEF GotClusterProperties
<1>5. CASE HandleUpdate
  BY <1>5 DEF HandleUpdate, GetService, Requeue
<1>6. CASE RegisterEndpoints
  BY <1>6 DEF RegisterEndpoints
<1>7. CASE HandleDelete
  BY <1>7 DEF HandleDelete, GetService, Requeue
<1>8. CASE DeleteEndpoints
  BY <1>8 DEF DeleteEndpoints
<1>9. ASSUME NEW n \in Names, NEW v \in Values \cup {NoValue}, SetProperty(n, v)
      PROVE  HeldInv'
  BY <1>9 DEF SetProperty
<1>10. ASSUME NEW n \in Names, ObserveProperty(n) PROVE HeldInv'
  BY <1>10 DEF ObserveProperty
<1>11. CASE CreateExport \/ DeleteExport \/ Resync
  BY <1>11 DEF CreateExport, DeleteExport, Resync
<1>12. CASE Restart
  BY <1>12 DEF Restart
<1> QED BY <1>1, <1>2, <1>3, <1>4, <1>5, <1>6, <1>7, <1>8, <1>9, <1>10, <1>11, <1>12
        DEF Next, WorkerStep

(* With one value each, an instance has the ids the client and the worker  *)
(* use, so that handleDelete finds it.                                     *)
LEMMA FoundToDelete ==
  ASSUME ClusterInv, OneValue, HandleDelete, tpc'["worker"] = "release"
  PROVE  found' = inst
<1>1. tpc["worker"] = "delete" /\ clusterId # NoValue
  BY ClusterAssumption DEF HandleDelete, ClusterInv, TypeOK
<1>2. PICK loaded :
        /\ loaded = IF IsValid(client) THEN client
                    ELSE [n \in Names |-> IF seenProps[n] # NoValue THEN seenProps[n] ELSE client[n]]
        /\ IsValid(loaded)
        /\ found' = IF inst["ClusterSetId"] = loaded["ClusterSetId"] /\ inst["ClusterId"] = clusterId
                    THEN inst ELSE NoProperties
  BY <1>1, Goroutines DEF HandleDelete, GetService, Requeue, Goto, ClusterInv, TypeOK
<1>3. \A n \in Names : loaded[n] \in given[n]
  BY <1>2 DEF IsValid, ClusterInv, KnownInv, Had, Names
<1>4. CASE inst # NoProperties
  <2>1. \A n \in Names : inst[n] \in given[n]
    BY <1>4 DEF ClusterInv, InstInv, IsValid, KnownInv, Had, Names
  <2>2. clusterId \in given["ClusterId"]
    BY <1>1 DEF ClusterInv, KnownInv, Had, Names
  <2>3. inst["ClusterSetId"] = loaded["ClusterSetId"] /\ inst["ClusterId"] = clusterId
    BY <1>3, <2>1, <2>2 DEF OneValue, Names
  <2> QED BY <1>2, <2>3
<1> QED BY <1>2, <1>4

(* The properties' histories only grow.                                    *)
LEMMA OneValueBefore == ASSUME TypeOK, Next, OneValue' PROVE OneValue
<1> USE DEF TypeOK, bounds
<1>1. given' = given \/ \E n \in Names, v \in Values \cup {NoValue} : SetProperty(n, v)
  BY DEF Next, ExportsStep, PropertiesStep, WorkerStep, EnqueueExport, MapProperty,
         EnqueueAllExports, HandleEvent, Assign, DropEvent, Reconcile, GotClusterProperties,
         HandleUpdate, RegisterEndpoints, HandleDelete, DeleteEndpoints, ObserveProperty,
         CreateExport, DeleteExport, Resync, Restart
<1>2. \A n \in Names : given[n] \subseteq given'[n] BY <1>1 DEF SetProperty
<1> QED BY <1>2 DEF OneValue

LEMMA ReleaseStep == ASSUME ClusterInv, Next PROVE ReleaseInv'
<1> SUFFICES ASSUME OneValue'
             PROVE  /\ export' \in {"absent", "new"} => inst' = NoProperties
                    /\ tpc'["worker"] = "release" => found' = inst'
  BY DEF ReleaseInv
<1> DEFINE Goal == /\ export' \in {"absent", "new"} => inst' = NoProperties
                   /\ tpc'["worker"] = "release" => found' = inst'
<1>0. OneValue BY OneValueBefore DEF ClusterInv
<1>a. /\ export \in {"absent", "new"} => inst = NoProperties
      /\ tpc["worker"] = "release" => found = inst
  BY <1>0 DEF ClusterInv, ReleaseInv
<1>b. TypeOK /\ HeldInv BY DEF ClusterInv
<1> USE Goroutines, <1>a, <1>b DEF TypeOK, HeldInv, Goto, bounds, cloud
<1>1. ASSUME NEW t \in {"exports"} \cup Watches, ExportsStep(t) PROVE Goal
  BY <1>1 DEF ExportsStep, EnqueueExport,
              HandleEvent, GetClusterProperties, Load, Assign, DropEvent, Loaded
<1>2. CASE PropertiesStep
  BY <1>2 DEF PropertiesStep, MapProperty, EnqueueAllExports,
              HandleEvent, GetClusterProperties, Load, Assign, DropEvent, Loaded
<1>3. CASE Reconcile
  BY <1>3 DEF Reconcile
<1>4. CASE GotClusterProperties
  BY <1>4 DEF GotClusterProperties
<1>5. CASE HandleUpdate
  BY <1>5 DEF HandleUpdate, GetService, Requeue
<1>6. CASE RegisterEndpoints
  BY <1>6 DEF RegisterEndpoints
<1>7. CASE HandleDelete
  BY <1>7, <1>0, FoundToDelete DEF HandleDelete
<1>8. CASE DeleteEndpoints
  BY <1>8 DEF DeleteEndpoints
<1>9. ASSUME NEW n \in Names, NEW v \in Values \cup {NoValue}, SetProperty(n, v) PROVE Goal
  BY <1>9 DEF SetProperty
<1>10. ASSUME NEW n \in Names, ObserveProperty(n) PROVE Goal
  BY <1>10 DEF ObserveProperty
<1>11. CASE CreateExport \/ DeleteExport \/ Resync
  BY <1>11 DEF CreateExport, DeleteExport, Resync
<1>12. CASE Restart
  BY <1>12 DEF Restart
<1> QED BY <1>1, <1>2, <1>3, <1>4, <1>5, <1>6, <1>7, <1>8, <1>9, <1>10, <1>11, <1>12
        DEF Next, WorkerStep

-----------------------------------------------------------------------------
LEMMA StutterInv == ASSUME ClusterInv, UNCHANGED vars PROVE ClusterInv'
BY DEF ClusterInv, TypeOK, KnownInv, Had, CopyInv, IsValid, InstInv, HeldInv, OneValue,
       ReleaseInv, vars

THEOREM ClusterInvariant == Spec => []ClusterInv
<1>1. Init => ClusterInv BY InitInv
<1>2. ClusterInv /\ [Next]_vars => ClusterInv'
  BY TypeStep, KnownStep, CopyStep, InstStep, HeldStep, ReleaseStep, StutterInv
     DEF ClusterInv
<1> QED BY <1>1, <1>2, PTL DEF Spec

(* The worker always has a cluster id, and every variable its type.        *)
THEOREM ClusterTypeCorrect == Spec => []TypeOK
BY ClusterInvariant, PTL DEF ClusterInv

(* The worker never meets properties that are not loaded: the error return *)
(* of its own GetClusterProperties (serviceexport_controller.go:88) is dead*)
(* code once a key has been enqueued.                                      *)
THEOREM WorkerHasProperties == Spec => [](tpc["worker"] # "idle" => IsValid(copy))
<1>1. ClusterInv => (tpc["worker"] # "idle" => IsValid(copy))
  BY DEF ClusterInv, CopyInv
<1> QED BY <1>1, ClusterInvariant, PTL

(* No endpoint is ever registered without the ids of cluster and clusterset*)
(* (serviceexport_controller.go:265, types.go:257).                        *)
THEOREM ClusterNeverUnidentified == Spec => []NeverUnidentified
<1>1. ClusterInv => NeverUnidentified
  BY DEF ClusterInv, InstInv, IsValid, NeverUnidentified
<1> QED BY <1>1, ClusterInvariant, PTL

(* An export that is gone has left no instance, unless a property got a    *)
(* second value: "perform cloudmap resource cleanup on delete" (utils.go:24)*)
(* holds across any number of changes, exports and restarts.               *)
THEOREM ClusterCleanedUp == Spec => []CleanedUp
<1>1. ClusterInv => CleanedUp
  BY NotRenamed DEF ClusterInv, ReleaseInv, CleanedUp
<1> QED BY <1>1, ClusterInvariant, PTL
=============================================================================
