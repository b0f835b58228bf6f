--------------------------- MODULE EndpointSlices ---------------------------
(***************************************************************************)
(* pkg/controllers/multicluster: updateEndpointSlices of                   *)
(* cloudmap_controller.go with the plan of endpointslice_plan.go, for the  *)
(* derived Service of one cluster, and the rounds the importer makes.      *)
(*                                                                         *)
(* The plan works on pointers: the lists of changes hold names of slices,  *)
(* heap holds the objects they point to, slices the ones of the API server.*)
(* The list is read when the last round's changes are in it (rounds are two*)
(* seconds apart).                                                         *)
(*                                                                         *)
(* Abstracted: an endpoint is its IP address, by which the plan compares   *)
(* endpoints; a port is its id (protocol and number) and its name; a list  *)
(* of ports is the set of them, no two with one id.                        *)
(***************************************************************************)
EXTENDS Naturals, FiniteSets, Sequences, SequencesExt

CONSTANTS Ips,
          PortLists,            \* lists of ports: sets of records [id, name]
          Names,                \* bound: names of slices
          NoSlice,              \* no slice of that name
          MaxEndpointsPerSlice, \* 100 in the code
          MaxChanges,           \* bound: changes of the Cloud Map service
          MaxErrors             \* bound: requests that fail

ASSUME SliceAssumption ==
  /\ IsFiniteSet(Ips) /\ IsFiniteSet(Names)
  /\ MaxEndpointsPerSlice \in Nat \ {0} /\ MaxChanges \in Nat /\ MaxErrors \in Nat
  /\ NoSlice \notin [eps : SUBSET Ips, ports : PortLists]

VARIABLES
  cloud,       \* what Cloud Map has of the cluster: IPs and ports
  slices,      \* the EndpointSlices in the API server
  pc,          \* "idle" between two rounds, "plan", "apply"
  desired,     \* the plan's Desired: IPs and ports
  want,        \* desiredEndpoints: IPs that are not in a slice yet
  current,     \* the plan's Current: pointers still to be trimmed
  heap,        \* the objects pointed to
  changes,     \* EndpointSliceChanges
  listed,      \* how many slices the plan was made for: length of Current
  changed, errors

vars == <<cloud, slices, pc, desired, want, current, heap, changes, listed,
          changed, errors>>

Slices == [eps : SUBSET Ips, ports : PortLists]
Endpoints == [ips : SUBSET Ips, ports : PortLists]
ChangeLists == [create : Seq(Names), update : Seq(Names),
                delete : Seq(Names), unmodified : Seq(Names)]
NoChanges == [create |-> <<>>, update |-> <<>>, delete |-> <<>>, unmodified |-> <<>>]
Existing == {n \in Names : slices[n] # NoSlice}

SlicesTypeOK ==
  /\ cloud \in Endpoints /\ desired \in Endpoints /\ want \in SUBSET Ips
  /\ slices \in [Names -> Slices \cup {NoSlice}] /\ heap \in [Names -> Slices \cup {NoSlice}]
  /\ pc \in {"idle", "plan", "apply"}
  /\ current \in Seq(Names)
  /\ changes \in ChangeLists
  /\ listed \in Nat
  /\ changed \in 0..MaxChanges /\ errors \in 0..MaxErrors

Init ==
  /\ cloud \in [ips : {{}}, ports : PortLists]
  /\ slices = [n \in Names |-> NoSlice] /\ heap = slices
  /\ pc = "idle" /\ desired = cloud /\ want = {} /\ current = <<>> /\ changes = NoChanges
  /\ listed = 0
  /\ changed = 0 /\ errors = 0

(* The exporting cluster changes its endpoints (external).                 *)
CloudChanges ==
  /\ changed < MaxChanges /\ changed' = changed + 1
  /\ cloud' \in Endpoints /\ cloud' # cloud
  /\ UNCHANGED <<slices, pc, desired, want, current, heap, changes, listed, errors>>

-----------------------------------------------------------------------------
(* The loop over the items appends the address of its variable, which, in  *)
(* Go 1.19, is one variable for all iterations: after the loop every       *)
(* pointer is to the last item.                                            *)
Pointers(items) == [i \in DOMAIN items |-> Last(items)]

(* List the slices, which come in any order, and set up the plan.          *)
ListSlices ==
  /\ pc = "idle" /\ cloud.ips # {}
  /\ pc' = "plan"
  /\ desired' = cloud /\ want' = cloud.ips
  /\ \E items \in SetToSeqs(Existing) : current' = Pointers(items)
  /\ heap' = slices /\ changes' = NoChanges /\ listed' = Cardinality(Existing)
  /\ UNCHANGED <<cloud, slices, changed, errors>>

(* A cluster without endpoints: its derived Service goes away, and the     *)
(* slices with it.                                                         *)
DeleteDerivedServiceAndEndpointSlices ==
  /\ pc = "idle" /\ cloud.ips = {}
  /\ slices' = [n \in Names |-> NoSlice]
  /\ UNCHANGED <<cloud, pc, desired, want, current, heap, changes, listed, changed, errors>>

(* Mutated form: ports are not compared.                                   *)
PortsAlwaysEqual(a, b) == TRUE

Ids(ports) == {p.id : p \in ports}

(* A port whose name alone differs counts as equal.                        *)
PortsEqualIgnoreOrder(a, b) == Ids(a) = Ids(b)

(* trimSlices, one slice: keep the endpoints that are wanted and not in a  *)
(* slice yet.  A slice that keeps none is marked for deletion as it is.    *)
TrimSlice ==
  /\ pc = "plan" /\ current # <<>>
  /\ current' = Tail(current)
  /\ LET p == Head(current)
         kept == heap[p].eps \cap want
         trimmed == [eps |-> kept,
                     ports |-> IF PortsEqualIgnoreOrder(desired.ports, heap[p].ports)
                               THEN heap[p].ports ELSE desired.ports]
         kind == CASE kept = {} -> "delete"
                   [] kept # {} /\ trimmed # heap[p] -> "update"
                   [] OTHER -> "unmodified"
     IN /\ want' = want \ kept
        /\ changes' = [changes EXCEPT ![kind] = Append(@, p)]
        /\ heap' = IF kind = "delete" THEN heap ELSE [heap EXCEPT ![p] = trimmed]
  /\ UNCHANGED <<cloud, slices, pc, desired, listed, changed, errors>>

(* Mutated form: one too many.                                             *)
RoomInSliceOffByOne(eps) == MaxEndpointsPerSlice + 1 - Cardinality(eps)

RoomInSlice(eps) == MaxEndpointsPerSlice - Cardinality(eps)

(* Mutated form: a slice that is reused keeps its ports.                   *)
NeedsPortUpdateIfNew(kind) == kind = "create"

(* A reused or a new slice has no ports, or those of other endpoints.      *)
NeedsPortUpdate(kind) == kind \in {"delete", "create"}

(* The names the API server may generate for a new slice.                  *)
FreeNames == {n \in Names \ Existing : ~Contains(changes.create, n)}

(* getOrCreateUnfilledEndpointSlice: the slice to fill, the list it is in, *)
(* its place there and the endpoints it has.  First a slice that is updated*)
(* anyway, then one marked for deletion, whose endpoints are cleared, then *)
(* an unmodified one with room for all, then a new one.                    *)
UnfilledSlice ==
  LET room(n) == RoomInSlice(heap[n].eps) > 0
      roomForAll(n) == RoomInSlice(heap[n].eps) >= Cardinality(want)
      u == SelectInSeq(changes.update, room)
      m == SelectInSeq(changes.unmodified, roomForAll)
      slice(kind, at, n, eps) == [kind |-> kind, at |-> at, name |-> n, eps |-> eps]
  IN CASE u # 0 -> LET n == changes.update[u] IN slice("update", u, n, heap[n].eps)
       [] u = 0 /\ changes.delete # <<>> -> slice("delete", 1, Head(changes.delete), {})
       [] u = 0 /\ changes.delete = <<>> /\ m # 0 ->
            LET n == changes.unmodified[m] IN slice("unmodified", m, n, heap[n].eps)
       [] OTHER ->
            slice("create", 0, CHOOSE n \in FreeNames : TRUE, {})

(* One iteration of the loop that adds new endpoints.  The inner loop goes *)
(* through a map, in any order, until the slice is full.                   *)
FillSlice ==
  /\ pc = "plan" /\ current = <<>> /\ want # {}
  /\ LET s == UnfilledSlice
     IN \E added \in SUBSET want :
          /\ \/ Cardinality(added) = RoomInSlice(s.eps)
             \/ added = want /\ Cardinality(want) < RoomInSlice(s.eps)
          /\ s.kind = "create" => FreeNames # {}
          /\ want' = want \ added
          /\ heap' = [heap EXCEPT ![s.name] =
               [eps |-> s.eps \cup added,
                ports |-> IF NeedsPortUpdate(s.kind) THEN desired.ports ELSE @.ports]]
          /\ changes' =
               CASE s.kind = "create" -> [changes EXCEPT !.create = Append(@, s.name)]
                 [] s.kind = "update" -> changes
                 [] OTHER -> [changes EXCEPT ![s.kind] = RemoveAt(@, s.at),
                                             !.update = Append(@, s.name)]
  /\ UNCHANGED <<cloud, slices, pc, desired, current, listed, changed, errors>>

Planned ==
  /\ pc = "plan" /\ current = <<>> /\ want = {}
  /\ pc' = "apply"
  /\ UNCHANGED <<cloud, slices, desired, want, current, heap, changes, listed, changed, errors>>

-----------------------------------------------------------------------------
(* The rest of updateEndpointSlices: update, delete, create, in this order.*)
EndRound == /\ pc' = "idle" /\ changes' = NoChanges /\ listed' = 0
            /\ heap' = [n \in Names |-> NoSlice]
            /\ desired' = [desired EXCEPT !.ips = {}]

UpdateSlice ==
  /\ pc = "apply" /\ changes.update # <<>>
  /\ LET n == Head(changes.update) IN slices' = [slices EXCEPT ![n] = heap[n]]
  /\ changes' = [changes EXCEPT !.update = Tail(@)]
  /\ UNCHANGED <<pc, desired, heap, listed>>

(* Deleting a slice twice is an error (NotFound), which ends the round.    *)
DeleteSlice ==
  /\ pc = "apply" /\ changes.update = <<>> /\ changes.delete # <<>>
  /\ LET n == Head(changes.delete)
     IN IF slices[n] = NoSlice
        THEN EndRound /\ UNCHANGED slices
        ELSE /\ slices' = [slices EXCEPT ![n] = NoSlice]
             /\ changes' = [changes EXCEPT !.delete = Tail(@)]
             /\ UNCHANGED <<pc, desired, heap, listed>>

CreateSlice ==
  /\ pc = "apply" /\ changes.update = <<>> /\ changes.delete = <<>> /\ changes.create # <<>>
  /\ LET n == Head(changes.create) IN slices' = [slices EXCEPT ![n] = heap[n]]
  /\ changes' = [changes EXCEPT !.create = Tail(@)]
  /\ UNCHANGED <<pc, desired, heap, listed>>

Applied == /\ pc = "apply"
           /\ changes.update = <<>> /\ changes.delete = <<>> /\ changes.create = <<>>
           /\ EndRound
           /\ UNCHANGED slices

ApplyStep == /\ UpdateSlice \/ DeleteSlice \/ CreateSlice \/ Applied
             /\ UNCHANGED <<cloud, want, current, changed, errors>>

(* A request fails, or the controller is restarted: the rest of the round  *)
(* is not made.                                                            *)
RequestFails ==
  /\ pc = "apply" /\ errors < MaxErrors /\ errors' = errors + 1
  /\ EndRound
  /\ UNCHANGED <<cloud, slices, want, current, changed>>

RoundStep == ListSlices \/ DeleteDerivedServiceAndEndpointSlices
             \/ TrimSlice \/ FillSlice \/ Planned \/ ApplyStep

Next == CloudChanges \/ RoundStep \/ RequestFails

Spec == Init /\ [][Next]_vars

(* The importer's ticker never stops; nothing else has to happen.          *)
FairSpec == Spec /\ WF_vars(RoundStep)

-----------------------------------------------------------------------------
Listed == UNION {slices[n].eps : n \in Existing}

(* The slices have the endpoints of d, each once, and ports of their ids.  *)
Import(d) ==
  /\ Listed = d.ips
  /\ \A n, m \in Existing : n # m => slices[n].eps \cap slices[m].eps = {}
  /\ \A n \in Existing : Ids(slices[n].ports) = Ids(d.ports)

(* A slice never has more endpoints than maxEndpointsPerSlice.             *)
WithinCapacity ==
  \A n \in Existing : Cardinality(slices[n].eps) <= MaxEndpointsPerSlice

(* A round ends at the first request that fails (cloudmap_controller.go:  *)
(* 262), after some slices were updated, deleted or created.  Whatever the *)
(* rounds before have left, a round that found at most one slice and made  *)
(* all its requests leaves what it was to import, in as many slices as it  *)
(* takes.  (With two slices, the pointers go wrong: OnlyUndesiredRemoved.) *)
RoundCompletes ==
  pc = "apply" /\ changes.update \o changes.delete \o changes.create = <<>>
    /\ listed <= 1 => Import(desired)

(* "the EndpointSlice IP addresses match those of the nginx-demo Endpoints"*)
(* (docs/index.md:524): as long as the endpoints fit one slice, the rounds *)
(* end up with exactly them, each once, and with ports of their ids        *)
(* (utils.go:126; a slice that stays does not take over a new name of a    *)
(* port), although the round after the last change may fail.               *)
SlicesConverge ==
  [](Cardinality(cloud.ips) <= MaxEndpointsPerSlice) => <>[]Import(cloud)

(* "remove all undesired existing endpoints in slices"                     *)
(* (endpointslice_plan.go:88): a round does not take a desired endpoint out*)
(* of the slices.                                                          *)
OnlyUndesiredRemoved == [][desired.ips \cap Listed \subseteq Listed']_vars
=============================================================================
