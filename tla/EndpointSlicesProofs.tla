------------------------ MODULE EndpointSlicesProofs ------------------------
(***************************************************************************)
(* The rounds of EndpointSlices keep every slice within its capacity, for  *)
(* any number of endpoints, slices, changes and failed requests.           *)
(***************************************************************************)
EXTENDS EndpointSlices, FiniteSetTheorems, WellFoundedInduction, TLAPS

(* An object holds no more than fits.                                      *)
Within(s) == s # NoSlice => Cardinality(s.eps) <= MaxEndpointsPerSlice

(* The pointers of a list are to slices.                                   *)
Points(list) == \A i \in 1..Len(list) : heap[list[i]] # NoSlice

PlanInv ==
  /\ \A n \in Names : Within(slices[n]) /\ Within(heap[n])
  /\ Points(current)
  /\ Points(changes.create) /\ Points(changes.update)
  /\ Points(changes.delete) /\ Points(changes.unmodified)
  /\ pc # "plan" => current = <<>>

(* WithinCapacity is not inductive: what a round writes comes from the     *)
(* plan's objects, which have to be within capacity, and be there, too.    *)
CapacityInv == SlicesTypeOK /\ PlanInv

-----------------------------------------------------------------------------
(* A set of natural numbers has its minimum: what SelectInSeq selects is a *)
(* place in the list.                                                      *)
LEMMA MinInSet ==
  ASSUME NEW S \in SUBSET Nat, S # {}
  PROVE  Min(S) \in S
<1> DEFINE R == {ss \in Nat \X Nat : ss[1] < ss[2]}
<1>1. IsWellFoundedOn(R, Nat)
  BY NatLessThanWellFounded DEF OpToRel
<1>2. \A x, y \in Nat : x < y => <<x, y>> \in R
  OBVIOUS
<1> HIDE DEF R
<1>3. PICK x \in S : \A y \in S : ~(<<y, x>> \in R)
  BY <1>1, WFMin
<1>4. ASSUME NEW y \in S PROVE x <= y
  <2>1. x \in Nat /\ y \in Nat
    OBVIOUS
  <2>2. ~(y < x)
    BY <1>2, <1>3, <2>1
  <2> QED BY <2>1, <2>2
<1> QED BY <1>4 DEF Min

(* The endpoints of a slice are a finite set.                              *)
LEMMA SliceFinite ==
  ASSUME NEW E \in SUBSET Ips
  PROVE  IsFiniteSet(E) /\ Cardinality(E) \in Nat
BY SliceAssumption, FS_Subset, FS_CardinalityType

(* Adding no more than the room keeps a slice within its capacity.         *)
LEMMA FilledWithin ==
  ASSUME NEW E \in SUBSET Ips, NEW A \in SUBSET Ips,
         Cardinality(A) <= RoomInSlice(E)
  PROVE  Cardinality(E \cup A) <= MaxEndpointsPerSlice
<1>1. IsFiniteSet(E) /\ Cardinality(E) \in Nat /\ IsFiniteSet(A) /\ Cardinality(A) \in Nat
  BY SliceFinite
<1>2. E \cap A \in SUBSET Ips
  OBVIOUS
<1>3. Cardinality(E \cap A) \in Nat
  BY <1>2, SliceFinite
<1>4. Cardinality(E \cup A) = Cardinality(E) + Cardinality(A) - Cardinality(E \cap A)
  BY <1>1, FS_Union
<1> QED BY <1>1, <1>3, <1>4, SliceAssumption DEF RoomInSlice

(* The pointers that the loop collects are to slices that exist.           *)
LEMMA PointersExist ==
  ASSUME NEW items \in SetToSeqs(Existing)
  PROVE  /\ Pointers(items) \in Seq(Names)
         /\ \A i \in 1..Len(Pointers(items)) : Pointers(items)[i] \in Existing
<1> DEFINE k == Cardinality(Existing)
<1>1. k \in Nat
  <2>1. Existing \in SUBSET Names
    BY DEF Existing
  <2> QED BY <2>1, SliceAssumption, FS_Subset, FS_CardinalityType
<1>2. items \in [1..k -> Existing]
  BY DEF SetToSeqs
<1> HIDE DEF k
<1>3. DOMAIN items = 1..k /\ Len(items) = k
  BY <1>1, <1>2
<1>4. ASSUME NEW i \in 1..k PROVE Last(items) \in Existing
  BY <1>1, <1>2, <1>3 DEF Last
<1>5. Pointers(items) \in [1..k -> Existing]
  BY <1>3, <1>4 DEF Pointers
<1>6. Pointers(items) \in Seq(Existing) /\ Len(Pointers(items)) = k
  BY <1>1, <1>5
<1>7. Existing \subseteq Names
  BY DEF Existing
<1>8. Pointers(items) \in [1..k -> Names]
  BY <1>5, <1>7
<1> QED BY <1>1, <1>5, <1>6, <1>8

(* Appending a name to a list.                                             *)
LEMMA AppendNames ==
  ASSUME NEW list \in Seq(Names), NEW n \in Names
  PROVE  /\ Append(list, n) \in Seq(Names)
         /\ \A i \in 1..Len(Append(list, n)) :
              Append(list, n)[i] = n \/ \E j \in 1..Len(list) : Append(list, n)[i] = list[j]
OBVIOUS

(* Taking the first name off a list.                                       *)
LEMMA TailNames ==
  ASSUME NEW list \in Seq(Names), list # <<>>
  PROVE  /\ Head(list) \in Names /\ Tail(list) \in Seq(Names)
         /\ \E j \in 1..Len(list) : Head(list) = list[j]
         /\ \A i \in 1..Len(Tail(list)) : \E j \in 1..Len(list) : Tail(list)[i] = list[j]
<1>1. Len(list) \in Nat \ {0} /\ Head(list) = list[1] /\ Len(Tail(list)) = Len(list) - 1
  OBVIOUS
<1>2. \A i \in 1..Len(Tail(list)) : Tail(list)[i] = list[i + 1] /\ i + 1 \in 1..Len(list)
  BY <1>1
<1> QED BY <1>1, <1>2

(* Taking any name out of a list.                                          *)
LEMMA RemoveNames ==
  ASSUME NEW list \in Seq(Names), NEW k \in 1..Len(list)
  PROVE  /\ RemoveAt(list, k) \in Seq(Names)
         /\ \A i \in 1..Len(RemoveAt(list, k)) :
              \E j \in 1..Len(list) : RemoveAt(list, k)[i] = list[j]
<1> DEFINE a == SubSeq(list, 1, k - 1)
           b == SubSeq(list, k + 1, Len(list))
<1>1. /\ a \in Seq(Names) /\ Len(a) = k - 1
      /\ \A i \in 1..(k - 1) : a[i] = list[i]
  OBVIOUS
<1>2. /\ b \in Seq(Names) /\ Len(b) = Len(list) - k
      /\ \A i \in 1..(Len(list) - k) : b[i] = list[k + i]
  OBVIOUS
<1>3. RemoveAt(list, k) = a \o b
  BY DEF RemoveAt
<1> HIDE DEF a, b
<1>4. RemoveAt(list, k) \in Seq(Names) /\ Len(RemoveAt(list, k)) = Len(list) - 1
  BY <1>1, <1>2, <1>3
<1>5. ASSUME NEW i \in 1..Len(RemoveAt(list, k))
      PROVE  \E j \in 1..Len(list) : RemoveAt(list, k)[i] = list[j]
  <2>1. CASE i <= k - 1
    BY <1>1, <1>2, <1>3, <1>4, <2>1
  <2>2. CASE i > k - 1
    <3>1. RemoveAt(list, k)[i] = b[i - (k - 1)]
      BY <1>1, <1>2, <1>3, <1>4, <2>2
    <3>2. b[i - (k - 1)] = list[i + 1] /\ i + 1 \in 1..Len(list)
      <4> DEFINE m == i - (k - 1)
      <4>1. m \in 1..(Len(list) - k) /\ k + m = i + 1 /\ i + 1 \in 1..Len(list)
        BY <1>4, <2>2
      <4>2. b[m] = list[k + m]
        BY <1>2, <4>1
      <4> QED BY <4>1, <4>2
    <3> QED BY <3>1, <3>2
  <2> QED BY <2>1, <2>2
<1> QED BY <1>4, <1>5

(* The lists of the plan.                                                  *)
LEMMA ListsTyped ==
  ASSUME SlicesTypeOK
  PROVE  /\ current \in Seq(Names)
         /\ changes.create \in Seq(Names) /\ changes.update \in Seq(Names)
         /\ changes.delete \in Seq(Names) /\ changes.unmodified \in Seq(Names)
BY DEF SlicesTypeOK, ChangeLists

-----------------------------------------------------------------------------
(* Before the first round there is no slice and no pointer.                *)
LEMMA CapacityInit == Init => CapacityInv
<1> SUFFICES ASSUME Init PROVE CapacityInv
  OBVIOUS
<1>1. SlicesTypeOK
  BY SliceAssumption DEF Init, SlicesTypeOK, Endpoints, NoChanges, ChangeLists
<1>2. PlanInv
  BY DEF Init, PlanInv, Within, Points, NoChanges
<1> QED BY <1>1, <1>2 DEF CapacityInv

(* The list of pointers is to slices that were just read.                  *)
LEMMA ListPreserves == CapacityInv /\ ListSlices => CapacityInv'
<1> SUFFICES ASSUME CapacityInv, ListSlices PROVE CapacityInv'
  OBVIOUS
<1>1. PICK items \in SetToSeqs(Existing) : current' = Pointers(items)
  BY DEF ListSlices
<1>2. /\ current' \in Seq(Names)
      /\ \A i \in 1..Len(current') : current'[i] \in Existing
  BY <1>1, PointersExist
<1>3. SlicesTypeOK'
  <2>1. Existing \in SUBSET Names
    BY DEF Existing
  <2>2. Cardinality(Existing) \in Nat
    BY <2>1, SliceAssumption, FS_Subset, FS_CardinalityType
  <2> QED BY <1>2, <2>2
          DEF CapacityInv, SlicesTypeOK, ListSlices, Endpoints, NoChanges, ChangeLists
<1>4. PlanInv'
  BY <1>2 DEF CapacityInv, PlanInv, ListSlices, Within, Points, NoChanges, Existing
<1> QED BY <1>3, <1>4 DEF CapacityInv

(* Trimming makes a slice smaller, and moves its pointer to another list.  *)
LEMMA TrimPreserves == CapacityInv /\ TrimSlice => CapacityInv'
<1> SUFFICES ASSUME CapacityInv, TrimSlice PROVE CapacityInv'
  OBVIOUS
<1> DEFINE p == Head(current)
           kept == heap[p].eps \cap want
           trimmed == [eps |-> kept,
                       ports |-> IF PortsEqualIgnoreOrder(desired.ports, heap[p].ports)
                                 THEN heap[p].ports ELSE desired.ports]
<1>1. /\ p \in Names /\ heap[p] # NoSlice /\ heap[p] \in Slices
      /\ current' \in Seq(Names)
      /\ \A i \in 1..Len(current') : \E j \in 1..Len(current) : current'[i] = current[j]
  <2>1. current \in Seq(Names) /\ current # <<>> /\ current' = Tail(current)
    BY ListsTyped DEF CapacityInv, TrimSlice
  <2>2. p \in Names /\ \E j \in 1..Len(current) : p = current[j]
    BY <2>1, TailNames
  <2>3. heap[p] # NoSlice
    BY <2>2 DEF CapacityInv, PlanInv, Points
  <2>4. heap[p] \in Slices
    BY <2>2, <2>3 DEF CapacityInv, SlicesTypeOK
  <2> QED BY <2>1, <2>2, <2>3, <2>4, TailNames
<1>2. trimmed \in Slices /\ trimmed # NoSlice /\ Within(trimmed)
  <2>1. trimmed \in Slices
    BY <1>1 DEF Slices, CapacityInv, SlicesTypeOK, Endpoints
  <2>2. heap[p].eps \in SUBSET Ips /\ Cardinality(heap[p].eps) <= MaxEndpointsPerSlice
    BY <1>1 DEF Slices, CapacityInv, PlanInv, Within
  <2>3. Cardinality(kept) <= Cardinality(heap[p].eps)
    BY <2>2, SliceFinite, FS_Intersection
  <2>4. Cardinality(kept) \in Nat /\ Cardinality(heap[p].eps) \in Nat
    BY <2>2, SliceFinite
  <2> QED BY <2>1, <2>2, <2>3, <2>4, SliceAssumption DEF Slices, Within
<1>3. /\ want' = want \ kept
      /\ \/ changes' = [changes EXCEPT !.delete = Append(@, p)] /\ heap' = heap
         \/ /\ changes' = [changes EXCEPT !.update = Append(@, p)]
            /\ heap' = [heap EXCEPT ![p] = trimmed]
         \/ /\ changes' = [changes EXCEPT !.unmodified = Append(@, p)]
            /\ heap' = [heap EXCEPT ![p] = trimmed]
  BY DEF TrimSlice
<1> HIDE DEF trimmed, kept
<1>4. /\ heap' \in [Names -> Slices \cup {NoSlice}]
      /\ \A n \in Names : heap[n] # NoSlice => heap'[n] # NoSlice
      /\ \A n \in Names : Within(heap'[n])
  BY <1>1, <1>2, <1>3 DEF CapacityInv, SlicesTypeOK, PlanInv
<1>5. /\ changes' \in ChangeLists
      /\ Points(changes.create)' /\ Points(changes.update)'
      /\ Points(changes.delete)' /\ Points(changes.unmodified)'
  <2> DEFINE grown(new, old) == new = old \/ new = Append(old, p)
  <2>1. /\ changes' \in ChangeLists
        /\ grown(changes'.create, changes.create)
        /\ grown(changes'.update, changes.update)
        /\ grown(changes'.delete, changes.delete)
        /\ grown(changes'.unmodified, changes.unmodified)
    <3>1. p \in Names /\ changes \in ChangeLists
      BY <1>1 DEF CapacityInv, SlicesTypeOK
    <3> HIDE DEF p
    <3>2. /\ Append(changes.delete, p) \in Seq(Names)
          /\ Append(changes.update, p) \in Seq(Names)
          /\ Append(changes.unmodified, p) \in Seq(Names)
      BY <3>1, AppendNames DEF ChangeLists
    <3>3. CASE changes' = [changes EXCEPT !.delete = Append(@, p)]
      BY <3>1, <3>2, <3>3 DEF ChangeLists
    <3>4. CASE changes' = [changes EXCEPT !.update = Append(@, p)]
      BY <3>1, <3>2, <3>4 DEF ChangeLists
    <3>5. CASE changes' = [changes EXCEPT !.unmodified = Append(@, p)]
      BY <3>1, <3>2, <3>5 DEF ChangeLists
    <3> QED BY <1>3, <3>3, <3>4, <3>5
  <2>2. /\ Points(changes.create) /\ Points(changes.update)
        /\ Points(changes.delete) /\ Points(changes.unmodified)
    BY DEF CapacityInv, PlanInv
  <2>3. ASSUME NEW l \in Seq(Names), NEW k, k = l \/ k = Append(l, p),
               \A i \in 1..Len(l) : heap[l[i]] # NoSlice
        PROVE  \A i \in 1..Len(k) : heap'[k[i]] # NoSlice
    <3>1. \A i \in 1..Len(l) : l[i] \in Names /\ heap'[l[i]] # NoSlice
      BY <1>4, <2>3
    <3>2. heap'[p] # NoSlice
      BY <1>1, <1>4
    <3> QED BY <1>1, <2>3, <3>1, <3>2, AppendNames
  <2> QED BY <2>1, <2>2, <2>3, ListsTyped DEF Points, CapacityInv
<1>6. Points(current)'
  <2>1. \A i \in 1..Len(current) : current[i] \in Names /\ heap[current[i]] # NoSlice
    BY ListsTyped DEF CapacityInv, PlanInv, Points
  <2> QED BY <1>1, <1>4, <2>1 DEF Points
<1>7. SlicesTypeOK'
  BY <1>1, <1>3, <1>4, <1>5 DEF CapacityInv, SlicesTypeOK, TrimSlice
<1>8. PlanInv'
  BY <1>4, <1>5, <1>6 DEF CapacityInv, PlanInv, TrimSlice
<1> QED BY <1>7, <1>8 DEF CapacityInv

(* What SelectInSeq selects, if anything, is a place in the list.          *)
LEMMA Selected ==
  ASSUME NEW list \in Seq(Names), NEW T(_), SelectInSeq(list, T) # 0
  PROVE  SelectInSeq(list, T) \in 1..Len(list)
<1> DEFINE I == {i \in 1..Len(list) : T(list[i])}
<1>1. I # {} /\ SelectInSeq(list, T) = Min(I)
  BY DEF SelectInSeq
<1>2. I \in SUBSET Nat
  OBVIOUS
<1> QED BY <1>1, <1>2, MinInSet

(* The slice to be filled is there or new, and its name is in the list it  *)
(* is taken from.                                                          *)
LEMMA UnfilledFacts ==
  ASSUME CapacityInv, UnfilledSlice.kind = "create" => FreeNames # {}
  PROVE  LET s == UnfilledSlice
         IN /\ s.kind \in {"create", "update", "delete", "unmodified"}
            /\ s.name \in Names /\ s.eps \in SUBSET Ips
            /\ s.kind # "create" => heap[s.name] \in Slices /\ heap[s.name] # NoSlice
            /\ s.kind = "delete" => s.at \in 1..Len(changes.delete)
            /\ s.kind = "unmodified" => s.at \in 1..Len(changes.unmodified)
<1> DEFINE room(n) == RoomInSlice(heap[n].eps) > 0
           roomForAll(n) == RoomInSlice(heap[n].eps) >= Cardinality(want)
           u == SelectInSeq(changes.update, room)
           m == SelectInSeq(changes.unmodified, roomForAll)
           s == UnfilledSlice
           record(kind, at, n, eps) == [kind |-> kind, at |-> at, name |-> n, eps |-> eps]
<1>1. /\ changes.update \in Seq(Names) /\ changes.delete \in Seq(Names)
      /\ changes.unmodified \in Seq(Names)
  BY ListsTyped DEF CapacityInv
<1>2. u # 0 => u \in 1..Len(changes.update)
  BY <1>1, Selected
<1>3. m # 0 => m \in 1..Len(changes.unmodified)
  BY <1>1, Selected
<1>4. \A n \in Names : heap[n] # NoSlice => heap[n] \in Slices /\ heap[n].eps \in SUBSET Ips
  BY DEF CapacityInv, SlicesTypeOK, Slices
<1>5. \/ u # 0 /\ s = record("update", u, changes.update[u], heap[changes.update[u]].eps)
      \/ changes.delete # <<>> /\ s = record("delete", 1, Head(changes.delete), {})
      \/ /\ m # 0
         /\ s = record("unmodified", m, changes.unmodified[m], heap[changes.unmodified[m]].eps)
      \/ s = record("create", 0, CHOOSE n \in FreeNames : TRUE, {})
  BY DEF UnfilledSlice
<1>6. s.kind = "create" => FreeNames # {}
  OBVIOUS
<1> HIDE DEF u, m, s
<1>7. CASE u # 0 /\ s = record("update", u, changes.update[u], heap[changes.update[u]].eps)
  <2>1. changes.update[u] \in Names /\ heap[changes.update[u]] # NoSlice
    BY <1>1, <1>2, <1>7 DEF CapacityInv, PlanInv, Points
  <2> QED BY <1>4, <1>7, <2>1 DEF s
<1>8. CASE changes.delete # <<>> /\ s = record("delete", 1, Head(changes.delete), {})
  <2>1. /\ Head(changes.delete) \in Names /\ heap[Head(changes.delete)] # NoSlice
        /\ 1 \in 1..Len(changes.delete)
    <3>1. 1 \in 1..Len(changes.delete) /\ Head(changes.delete) = changes.delete[1]
      BY <1>1, <1>8
    <3> QED BY <1>1, <3>1 DEF CapacityInv, PlanInv, Points
  <2> QED BY <1>4, <1>8, <2>1 DEF s
<1>9. CASE /\ m # 0
           /\ s = record("unmodified", m, changes.unmodified[m], heap[changes.unmodified[m]].eps)
  <2>1. changes.unmodified[m] \in Names /\ heap[changes.unmodified[m]] # NoSlice
    BY <1>1, <1>3, <1>9 DEF CapacityInv, PlanInv, Points
  <2> QED BY <1>3, <1>4, <1>9, <2>1 DEF s
<1>10. CASE s = record("create", 0, CHOOSE n \in FreeNames : TRUE, {})
  <2>1. (CHOOSE n \in FreeNames : TRUE) \in Names
    BY <1>6, <1>10 DEF FreeNames
  <2> QED BY <1>10, <2>1 DEF s
<1> QED BY <1>5, <1>7, <1>8, <1>9, <1>10

(* Filling stops when the slice is full.                                   *)
LEMMA FillPreserves == CapacityInv /\ FillSlice => CapacityInv'
<1> SUFFICES ASSUME CapacityInv, FillSlice PROVE CapacityInv'
  OBVIOUS
<1> DEFINE s == UnfilledSlice
<1>1. PICK added \in SUBSET want :
        /\ \/ Cardinality(added) = RoomInSlice(s.eps)
           \/ added = want /\ Cardinality(want) < RoomInSlice(s.eps)
        /\ s.kind = "create" => FreeNames # {}
        /\ want' = want \ added
        /\ heap' = [heap EXCEPT ![s.name] =
             [eps |-> s.eps \cup added,
              ports |-> IF NeedsPortUpdate(s.kind) THEN desired.ports ELSE @.ports]]
        /\ changes' =
             CASE s.kind = "create" -> [changes EXCEPT !.create = Append(@, s.name)]
               [] s.kind = "update" -> changes
               [] OTHER -> [changes EXCEPT ![s.kind] = RemoveAt(@, s.at),
                                           !.update = Append(@, s.name)]
  BY DEF FillSlice
<1>2. /\ s.kind \in {"create", "update", "delete", "unmodified"}
      /\ s.name \in Names /\ s.eps \in SUBSET Ips
      /\ s.kind # "create" => heap[s.name] \in Slices /\ heap[s.name] # NoSlice
      /\ s.kind = "delete" => s.at \in 1..Len(changes.delete)
      /\ s.kind = "unmodified" => s.at \in 1..Len(changes.unmodified)
  BY <1>1, UnfilledFacts
<1>3. added \in SUBSET Ips /\ want \in SUBSET Ips /\ desired.ports \in PortLists
  BY DEF CapacityInv, SlicesTypeOK, Endpoints
<1> HIDE DEF s
<1> DEFINE filled == [eps |-> s.eps \cup added,
                      ports |-> IF NeedsPortUpdate(s.kind) THEN desired.ports
                                                           ELSE heap[s.name].ports]
<1>4. filled \in Slices /\ filled # NoSlice
  <2>1. filled.ports \in PortLists
    BY <1>2, <1>3 DEF NeedsPortUpdate, Slices
  <2> QED BY <1>2, <1>3, <2>1, SliceAssumption DEF Slices
<1>5. Within(filled)
  <2>1. Cardinality(added) <= RoomInSlice(s.eps)
    <3>1. Cardinality(added) \in Nat /\ Cardinality(want) \in Nat
          /\ Cardinality(s.eps) \in Nat
      BY <1>2, <1>3, SliceFinite
    <3>2. CASE Cardinality(added) = RoomInSlice(s.eps)
      BY <3>1, <3>2, SliceAssumption DEF RoomInSlice
    <3>3. CASE added = want /\ Cardinality(want) < RoomInSlice(s.eps)
      BY <3>1, <3>3, SliceAssumption DEF RoomInSlice
    <3> QED BY <1>1, <3>2, <3>3
  <2> QED BY <1>2, <1>3, <2>1, FilledWithin DEF Within
<1>6. heap' = [heap EXCEPT ![s.name] = filled]
  BY <1>1
<1> HIDE DEF filled
<1>7. /\ heap' \in [Names -> Slices \cup {NoSlice}]
      /\ \A n \in Names : heap[n] # NoSlice => heap'[n] # NoSlice
      /\ \A n \in Names : Within(heap'[n])
      /\ heap'[s.name] # NoSlice
  BY <1>2, <1>4, <1>5, <1>6 DEF CapacityInv, SlicesTypeOK, PlanInv
<1> DEFINE sound(l) == l \in Seq(Names) /\ \A i \in 1..Len(l) : heap'[l[i]] # NoSlice
<1>8. /\ sound(changes.create) /\ sound(changes.update)
      /\ sound(changes.delete) /\ sound(changes.unmodified) /\ sound(current)
  <2>1. ASSUME NEW l \in Seq(Names), Points(l) PROVE sound(l)
    BY <1>7, <2>1 DEF Points
  <2> QED BY <2>1, ListsTyped DEF CapacityInv, PlanInv
<1>9. /\ sound(Append(changes.create, s.name)) /\ sound(Append(changes.update, s.name))
      /\ s.kind = "delete" => sound(RemoveAt(changes.delete, s.at))
      /\ s.kind = "unmodified" => sound(RemoveAt(changes.unmodified, s.at))
  <2>1. ASSUME NEW l, sound(l) PROVE sound(Append(l, s.name))
    BY <1>2, <1>7, <2>1, AppendNames
  <2>2. ASSUME NEW l, sound(l), NEW k \in 1..Len(l) PROVE sound(RemoveAt(l, k))
    BY <2>2, RemoveNames
  <2> QED BY <1>2, <1>8, <2>1, <2>2
<1> HIDE DEF sound
<1>10. /\ changes' \in ChangeLists
       /\ sound(changes'.create) /\ sound(changes'.update)
       /\ sound(changes'.delete) /\ sound(changes'.unmodified)
  <2>1. changes \in ChangeLists
    BY DEF CapacityInv, SlicesTypeOK
  <2>2. CASE s.kind = "create"
    <3>1. changes' = [changes EXCEPT !.create = Append(changes.create, s.name)]
      BY <1>1, <2>2
    <3> QED BY <1>8, <1>9, <2>1, <3>1 DEF ChangeLists, sound
  <2>3. CASE s.kind = "update"
    BY <1>1, <1>8, <2>1, <2>3
  <2>4. CASE s.kind = "delete"
    <3>1. changes' = [changes EXCEPT !.delete = RemoveAt(changes.delete, s.at),
                                     !.update = Append(changes.update, s.name)]
      BY <1>1, <2>1, <2>4 DEF ChangeLists
    <3> QED BY <1>8, <1>9, <2>1, <2>4, <3>1 DEF ChangeLists, sound
  <2>5. CASE s.kind = "unmodified"
    <3>1. changes' = [changes EXCEPT !.unmodified = RemoveAt(changes.unmodified, s.at),
                                     !.update = Append(changes.update, s.name)]
      BY <1>1, <2>1, <2>5 DEF ChangeLists
    <3> QED BY <1>8, <1>9, <2>1, <2>5, <3>1 DEF ChangeLists, sound
  <2> QED BY <1>2, <2>2, <2>3, <2>4, <2>5
<1>11. SlicesTypeOK'
  BY <1>1, <1>3, <1>7, <1>10 DEF CapacityInv, SlicesTypeOK, FillSlice
<1>12. PlanInv'
  BY <1>7, <1>8, <1>10 DEF CapacityInv, PlanInv, Points, FillSlice, sound
<1> QED BY <1>11, <1>12 DEF CapacityInv

(* The end of a round, in an error or not, drops the plan.                 *)
LEMMA EndRoundPreserves ==
  ASSUME CapacityInv, EndRound,
         UNCHANGED <<cloud, slices, want, current, changed>>, errors' \in 0..MaxErrors,
         pc = "apply"
  PROVE  CapacityInv'
<1>1. desired' \in Endpoints
  BY DEF CapacityInv, SlicesTypeOK, Endpoints, EndRound
<1>2. SlicesTypeOK'
  BY <1>1 DEF CapacityInv, SlicesTypeOK, EndRound, NoChanges, ChangeLists
<1>3. PlanInv'
  BY DEF CapacityInv, PlanInv, SlicesTypeOK, EndRound, NoChanges, Within, Points
<1> QED BY <1>2, <1>3 DEF CapacityInv

(* A request made for the first name of a list, which is then shorter.     *)
LEMMA RequestPreserves ==
  ASSUME CapacityInv, pc = "apply", NEW n \in Names, NEW o \in Slices \cup {NoSlice},
         Within(o), slices' = [slices EXCEPT ![n] = o],
         changes' \in ChangeLists,
         Points(changes'.create), Points(changes'.update),
         Points(changes'.delete), Points(changes'.unmodified),
         UNCHANGED <<cloud, pc, desired, want, current, heap, listed, changed, errors>>
  PROVE  CapacityInv'
<1>1. SlicesTypeOK'
  BY DEF CapacityInv, SlicesTypeOK
<1>2. \A m \in Names : Within(slices'[m]) /\ Within(heap'[m])
  BY DEF CapacityInv, SlicesTypeOK, PlanInv
<1>3. PlanInv'
  BY <1>2 DEF CapacityInv, PlanInv, Points
<1> QED BY <1>1, <1>3 DEF CapacityInv

(* What is written to the API server comes from the plan's objects.        *)
LEMMA ApplyPreserves == CapacityInv /\ ApplyStep => CapacityInv'
<1> SUFFICES ASSUME CapacityInv, ApplyStep PROVE CapacityInv'
  OBVIOUS
<1>1. /\ changes \in ChangeLists
      /\ changes.create \in Seq(Names) /\ changes.update \in Seq(Names)
      /\ changes.delete \in Seq(Names) /\ changes.unmodified \in Seq(Names)
      /\ Points(changes.create) /\ Points(changes.update)
      /\ Points(changes.delete) /\ Points(changes.unmodified)
  BY ListsTyped DEF CapacityInv, SlicesTypeOK, PlanInv
<1>2. ASSUME NEW l \in Seq(Names), l # <<>>, Points(l)
      PROVE  /\ Head(l) \in Names /\ heap[Head(l)] \in Slices /\ Within(heap[Head(l)])
             /\ Tail(l) \in Seq(Names) /\ Points(Tail(l))
  <2>1. Head(l) \in Names /\ heap[Head(l)] # NoSlice
    BY <1>2, TailNames DEF Points
  <2>2. heap[Head(l)] \in Slices /\ Within(heap[Head(l)])
    BY <2>1 DEF CapacityInv, SlicesTypeOK, PlanInv
  <2>3. Tail(l) \in Seq(Names) /\ Points(Tail(l))
    BY <1>2, TailNames DEF Points
  <2> QED BY <2>1, <2>2, <2>3
<1>3. errors \in 0..MaxErrors
  BY DEF CapacityInv, SlicesTypeOK
<1>4. CASE UpdateSlice
  <2>1. changes' = [changes EXCEPT !.update = Tail(changes.update)]
    BY <1>4 DEF UpdateSlice
  <2>2. Tail(changes.update) \in Seq(Names) /\ Points(Tail(changes.update))
    BY <1>1, <1>2, <1>4 DEF UpdateSlice
  <2>3. /\ changes' \in ChangeLists
        /\ Points(changes'.create) /\ Points(changes'.update)
        /\ Points(changes'.delete) /\ Points(changes'.unmodified)
    BY <1>1, <2>1, <2>2 DEF ChangeLists
  <2> QED BY <1>1, <1>2, <1>4, <2>3, RequestPreserves DEF UpdateSlice, ApplyStep
<1>5. CASE DeleteSlice
  <2>1. CASE slices[Head(changes.delete)] = NoSlice
    BY <1>3, <1>5, <2>1, EndRoundPreserves DEF DeleteSlice, ApplyStep
  <2>2. CASE slices[Head(changes.delete)] # NoSlice
    <3>1. changes' = [changes EXCEPT !.delete = Tail(changes.delete)]
      BY <1>5, <2>2 DEF DeleteSlice
    <3>2. Tail(changes.delete) \in Seq(Names) /\ Points(Tail(changes.delete))
      BY <1>1, <1>2, <1>5 DEF DeleteSlice
    <3>3. /\ changes' \in ChangeLists
          /\ Points(changes'.create) /\ Points(changes'.update)
          /\ Points(changes'.delete) /\ Points(changes'.unmodified)
      BY <1>1, <3>1, <3>2 DEF ChangeLists
    <3>4. Within(NoSlice)
      BY DEF Within
    <3> QED BY <1>1, <1>2, <1>5, <2>2, <3>3, <3>4, RequestPreserves DEF DeleteSlice, ApplyStep
  <2> QED BY <2>1, <2>2
<1>6. CASE CreateSlice
  <2>1. changes' = [changes EXCEPT !.create = Tail(changes.create)]
    BY <1>6 DEF CreateSlice
  <2>2. Tail(changes.create) \in Seq(Names) /\ Points(Tail(changes.create))
    BY <1>1, <1>2, <1>6 DEF CreateSlice
  <2>3. /\ changes' \in ChangeLists
        /\ Points(changes'.create) /\ Points(changes'.update)
        /\ Points(changes'.delete) /\ Points(changes'.unmodified)
    BY <1>1, <2>1, <2>2 DEF ChangeLists
  <2> QED BY <1>1, <1>2, <1>6, <2>3, RequestPreserves DEF CreateSlice, ApplyStep
<1>7. CASE Applied
  BY <1>3, <1>7, EndRoundPreserves DEF Applied, ApplyStep
<1> QED BY <1>4, <1>5, <1>6, <1>7 DEF ApplyStep

(* One step keeps the plan's objects and the slices within capacity.       *)
LEMMA CapacityStep == CapacityInv /\ [Next]_vars => CapacityInv'
<1> SUFFICES ASSUME CapacityInv, [Next]_vars PROVE CapacityInv'
  OBVIOUS
<1>1. CASE CloudChanges
  <2>1. SlicesTypeOK'
    BY <1>1, SliceAssumption DEF CapacityInv, SlicesTypeOK, CloudChanges
  <2>2. PlanInv'
    BY <1>1 DEF CapacityInv, PlanInv, CloudChanges, Points, Within
  <2> QED BY <2>1, <2>2 DEF CapacityInv
<1>2. CASE ListSlices
  BY <1>2, ListPreserves
<1>3. CASE DeleteDerivedServiceAndEndpointSlices
  <2>1. SlicesTypeOK'
    BY <1>3 DEF CapacityInv, SlicesTypeOK, DeleteDerivedServiceAndEndpointSlices
  <2>2. PlanInv'
    BY <1>3 DEF CapacityInv, PlanInv, DeleteDerivedServiceAndEndpointSlices, Points, Within
  <2> QED BY <2>1, <2>2 DEF CapacityInv
<1>4. CASE TrimSlice
  BY <1>4, TrimPreserves
<1>5. CASE FillSlice
  BY <1>5, FillPreserves
<1>6. CASE Planned
  BY <1>6 DEF CapacityInv, SlicesTypeOK, PlanInv, Planned, Points, Within
<1>7. CASE ApplyStep
  BY <1>7, ApplyPreserves
<1>8. CASE RequestFails
  <2>1. errors' \in 0..MaxErrors
    BY <1>8, SliceAssumption DEF CapacityInv, SlicesTypeOK, RequestFails
  <2> QED BY <1>8, <2>1, EndRoundPreserves DEF RequestFails
<1>9. CASE UNCHANGED vars
  BY <1>9 DEF vars, CapacityInv, SlicesTypeOK, PlanInv, Points, Within
<1> QED BY <1>1, <1>2, <1>3, <1>4, <1>5, <1>6, <1>7, <1>8, <1>9 DEF Next, RoundStep

(* updateEndpointSlices never makes a slice with more endpoints than       *)
(* maxEndpointsPerSlice, whatever pointers, map orders and failures.       *)
THEOREM SlicesWithinCapacity == Spec => []WithinCapacity
<1>1. CapacityInv => WithinCapacity
  BY DEF CapacityInv, PlanInv, Within, WithinCapacity, Existing
<1> QED BY <1>1, CapacityInit, CapacityStep, PTL DEF Spec
=============================================================================
