----------------------------- MODULE CApiProofs -----------------------------
(***************************************************************************)
(* Theorems about CApi for every set of devices and addresses and every    *)
(* size of the caller's array and of a scan.                               *)
(***************************************************************************)
EXTENDS CApi, OperatorProofs

\* A scan is a sequence of devices, and the indices with an ID are indices of it.
LEMMA ScanIsSequence ==
  ASSUME NEW found \in Scans
  PROVE  /\ Len(found) \in Nat /\ DOMAIN found = 1..Len(found)
         /\ \A i \in DOMAIN found : found[i] \in Device
<1>1. PICK m \in 0..MaxFound : found \in [1..m -> Device]
  BY DEF Scans, BoundedSeq, SeqOf
<1>2. found \in Seq(Device) /\ Len(found) = m /\ m \in Nat
  BY <1>1, BoundsAssumption DEF BoundsAssumption
<1> QED
  BY <1>1, <1>2

LEMMA ListSizeIsNat ==
  ASSUME NEW d \in Device
  PROVE  ListSize(d) \in Nat
BY DeviceAssumption DEF DeviceAssumption, ListSize

\* The last device of a scan with a given ID.
LEMMA LastWithIDExists ==
  ASSUME NEW found \in Scans, NEW id \in FoundIDs(found)
  PROVE  /\ Max(WithID(found, id)) \in DOMAIN found
         /\ found[Max(WithID(found, id))] \in Device
         /\ found[Max(WithID(found, id))].uniqueID = id
<1> DEFINE same == WithID(found, id)
<1>1. same \subseteq 0..Len(found) /\ Len(found) \in Nat
  BY ScanIsSequence DEF WithID
<1>2. same # {}
  BY DEF FoundIDs, WithID
<1> HIDE DEF same
<1>3. Max(same) \in same
  BY <1>1, <1>2, MaxInSet
<1> QED
  BY <1>3, ScanIsSequence DEF same, WithID

LEMMA NewHandleType ==
  ASSUME NEW d \in Device
  PROVE  NewHandle(d) \in Handle /\ NewHandle(d).device = d
BY ListSizeIsNat DEF NewHandle, Handle, Iterator

\* The largest of a capacity and the sizes of the lists with an ID.
LEMMA LargestSize ==
  ASSUME NEW found \in Scans, NEW id, NEW c \in Nat
  PROVE  LET sizes == {c} \cup {ListSize(found[i]) : i \in WithID(found, id)}
         IN  Max(sizes) \in Nat /\ \A s \in sizes : s <= Max(sizes)
<1> DEFINE same == WithID(found, id)
           sizes == {c} \cup {ListSize(found[i]) : i \in same}
           n == Len(found)
           size == [i \in 1..n |-> ListSize(found[i])]
<1>1. n \in Nat /\ size \in [1..n -> Nat] /\ same \subseteq 1..n
  BY ScanIsSequence, ListSizeIsNat DEF WithID
<1>2. PICK b \in Nat : \A i \in 1..n : size[i] <= b
  <2> HIDE DEF size, n
  <2> QED
    BY <1>1, BoundedValues
<1>3. \A i \in same : ListSize(found[i]) \in Nat /\ ListSize(found[i]) <= b
  BY <1>1, <1>2
<1>4. sizes \subseteq 0..(b + c) /\ sizes # {} /\ b + c \in Nat
  BY <1>3
<1> HIDE DEF sizes
<1>5. Max(sizes) \in sizes /\ \A s \in sizes : Max(sizes) >= s
  BY <1>4, MaxInSet
<1>6. Max(sizes) \in Nat /\ \A s \in sizes : s <= Max(sizes)
  <2>1. sizes \subseteq Nat
    BY <1>4
  <2> QED
    BY <1>5, <2>1
<1> QED
  BY <1>6 DEF sizes

\* A found device replaces the one with its ID; without one the handle stays.
LEMMA RefreshedHandle ==
  ASSUME NEW found \in Scans, NEW h \in Handle
  PROVE  /\ Refreshed(h, found) \in Handle
         /\ Refreshed(h, found).device.uniqueID = h.device.uniqueID
         /\ h.device.uniqueID \in FoundIDs(found)
              => Refreshed(h, found).device = found[Max(WithID(found, h.device.uniqueID))]
<1> DEFINE id == h.device.uniqueID
           same == WithID(found, id)
           grows == {i \in same : ListSize(found[i]) > h.capacity}
           sizes == {h.capacity} \cup {ListSize(found[i]) : i \in same}
<1>1. same = {} <=> id \notin FoundIDs(found)
  BY DEF FoundIDs, WithID
<1>2. CASE same = {}
  BY <1>1, <1>2 DEF Refreshed
<1>3. CASE same # {}
  <2>1. id \in FoundIDs(found)
    BY <1>1, <1>3
  <2>2. Refreshed(h, found) = [device   |-> found[Max(same)],
                               capacity |-> Max(sizes),
                               iter     |-> [h.iter EXCEPT !.valid = @ /\ grows = {}]]
    BY <1>3 DEF Refreshed
  <2>3. found[Max(same)] \in Device /\ found[Max(same)].uniqueID = id
    BY <2>1, LastWithIDExists
  <2>4. Max(sizes) \in Nat
    BY LargestSize DEF Handle
  <2>5. [h.iter EXCEPT !.valid = @ /\ grows = {}] \in Iterator
    BY DEF Handle, Iterator
  <2> QED
    BY <2>2, <2>3, <2>4, <2>5 DEF Handle
<1> QED
  BY <1>2, <1>3

-----------------------------------------------------------------------------
\* The devices that get a handle: each has an ID no handle has, no two the same.
LEMMA NewIndicesDistinct ==
  ASSUME NEW found \in Scans
  PROVE  /\ NewIndices(found) \subseteq 1..Len(found)
         /\ \A i \in NewIndices(found) :
              /\ found[i] \in Device
              /\ found[i].uniqueID \in FoundIDs(found)
              /\ \A b \in Registered : found[i].uniqueID # ID(b)
         /\ \A i, j \in NewIndices(found) : found[i].uniqueID = found[j].uniqueID => i = j
<1>1. NewIndices(found) \subseteq DOMAIN found
  BY DEF NewIndices
<1>2. ASSUME NEW i \in NewIndices(found), NEW j \in NewIndices(found),
             found[i].uniqueID = found[j].uniqueID
      PROVE  i = j
  <2>1. ~(i < j) /\ ~(j < i)
    BY <1>1, <1>2 DEF NewIndices
  <2>2. i \in Nat /\ j \in Nat
    BY <1>1, ScanIsSequence
  <2> QED
    BY <2>1, <2>2
<1>3. \A i \in NewIndices(found) :
        /\ found[i] \in Device
        /\ found[i].uniqueID \in FoundIDs(found)
        /\ \A b \in Registered : found[i].uniqueID # ID(b)
  BY <1>1, ScanIsSequence DEF NewIndices, FoundIDs
<1> QED
  BY <1>1, <1>2, <1>3, ScanIsSequence

\* The live handles are handles, and the registry names none twice.
LEMMA RegistryDistinct ==
  ASSUME TypeOK, OneHandlePerDevice
  PROVE  /\ Registered \subseteq Addr
         /\ \A a \in Registered : heap[a] \in Handle
         /\ \A a, b \in Registered : ID(a) = ID(b) => a = b
         /\ \A i, j \in DOMAIN fw_devices : fw_devices[i] = fw_devices[j] => i = j
<1>1. Registered \subseteq Addr
  BY DEF TypeOK, Registered, Range
<1>2. \A a \in Registered : heap[a] \in Handle
  BY <1>1 DEF TypeOK, OneHandlePerDevice
<1>3. \A a, b \in Registered : ID(a) = ID(b) => a = b
  BY DEF OneHandlePerDevice, Registered, Range
<1>4. \A i, j \in DOMAIN fw_devices : fw_devices[i] = fw_devices[j] => i = j
  BY DEF OneHandlePerDevice
<1> QED
  BY <1>1, <1>2, <1>3, <1>4

\* The handles there are before the vector is pruned: the registered ones as they
\* were, and one for each new device; no two of one ID.
Placement(found, new, place) ==
  /\ new = InOrder(NewIndices(found))
  /\ place \in Injection(DOMAIN new, Addr \ Registered)

BeforePruning(found, new, place) ==
  /\ place \in Seq(Addr)
  /\ \A i, j \in DOMAIN place : place[i] = place[j] => i = j
  /\ Range(place) \cap Registered = {}
  /\ \A a \in Registered : HandleAt(a, found, new, place) = heap[a]
  /\ \A a \in Range(place) : \E i \in NewIndices(found) :
       HandleAt(a, found, new, place) = NewHandle(found[i])
  /\ \A a, b \in Registered \cup Range(place) :
       /\ HandleAt(a, found, new, place) \in Handle
       /\ HandleAt(a, found, new, place).device.uniqueID
            = HandleAt(b, found, new, place).device.uniqueID => a = b

LEMMA HandlesBeforePruning ==
  ASSUME TypeOK, OneHandlePerDevice, NEW found \in Scans,
         NEW new, NEW place, Placement(found, new, place)
  PROVE  BeforePruning(found, new, place)
<1> DEFINE c == Cardinality(NewIndices(found))
           H(a) == HandleAt(a, found, new, place)
           slot(a) == CHOOSE k \in 1..c : place[k] = a
<1>1. /\ c \in Nat
      /\ new \in [1..c -> NewIndices(found)]
      /\ \A i, j \in 1..c : new[i] = new[j] => i = j
  BY NewIndicesDistinct, ScanIsSequence, InOrderEnumerates DEF Placement
<1>2. DOMAIN new = 1..c
  BY <1>1
<1>3. /\ place \in [1..c -> Addr \ Registered]
      /\ \A i, j \in 1..c : place[i] = place[j] => i = j
  <2>1. place \in Injection(1..c, Addr \ Registered)
    BY <1>2 DEF Placement
  <2> QED
    BY <2>1, Fun_InjectionProperties
<1>4. place \in Seq(Addr) /\ DOMAIN place = 1..c
  BY <1>1, <1>3
<1>5. Range(place) \cap Registered = {}
  BY <1>3 DEF Range
<1>6. \A a \in Registered : H(a) = heap[a]
  BY DEF HandleAt
<1>7. ASSUME NEW a \in Range(place)
      PROVE  slot(a) \in 1..c /\ place[slot(a)] = a /\ H(a) = NewHandle(found[new[slot(a)]])
  <2>1. \E k \in 1..c : place[k] = a
    BY <1>4 DEF Range
  <2>2. slot(a) \in 1..c /\ place[slot(a)] = a
    BY <2>1
  <2>3. a \notin Registered
    BY <1>5
  <2> QED
    BY <1>2, <2>2, <2>3 DEF HandleAt
<1>8. \A a \in Range(place) : \E i \in NewIndices(found) : H(a) = NewHandle(found[i])
  <2> TAKE a \in Range(place)
  <2>1. new[slot(a)] \in NewIndices(found)
    BY <1>1, <1>7
  <2> QED
    BY <1>7, <2>1
<1>9. \A a \in Range(place) :
        /\ H(a) \in Handle
        /\ H(a).device.uniqueID = found[new[slot(a)]].uniqueID
        /\ new[slot(a)] \in NewIndices(found)
  <2> TAKE a \in Range(place)
  <2>1. new[slot(a)] \in NewIndices(found)
    BY <1>1, <1>7
  <2>2. found[new[slot(a)]] \in Device
    BY <2>1, NewIndicesDistinct
  <2> QED
    BY <1>7, <2>1, <2>2, NewHandleType
<1>10. \A a \in Registered : H(a) \in Handle /\ H(a).device.uniqueID = ID(a)
  BY <1>6, RegistryDistinct DEF ID
<1>11. ASSUME NEW a \in Registered \cup Range(place), NEW b \in Registered \cup Range(place),
              H(a).device.uniqueID = H(b).device.uniqueID
       PROVE  a = b
  <2> HIDE DEF H, slot
  <2>1. CASE a \in Registered /\ b \in Registered
    BY <1>10, <1>11, <2>1, RegistryDistinct
  <2>2. CASE a \in Registered /\ b \in Range(place)
    BY <1>9, <1>10, <1>11, <2>2, NewIndicesDistinct
  <2>3. CASE a \in Range(place) /\ b \in Registered
    BY <1>9, <1>10, <1>11, <2>3, NewIndicesDistinct
  <2>4. CASE a \in Range(place) /\ b \in Range(place)
    <3>1. new[slot(a)] = new[slot(b)]
      BY <1>9, <1>11, <2>4, NewIndicesDistinct
    <3>2. slot(a) = slot(b)
      BY <1>1, <1>7, <2>4, <3>1
    <3> QED
      BY <1>7, <2>4, <3>2
  <2> QED
    BY <2>1, <2>2, <2>3, <2>4
<1> QED
  BY <1>3, <1>4, <1>5, <1>6, <1>8, <1>9, <1>10, <1>11 DEF BeforePruning

-----------------------------------------------------------------------------
\* What find_all leaves: the registered handles are those whose device was found,
\* each refreshed, each still its device's; the other addresses hold nothing.
LEMMA FindAllEffect ==
  ASSUME TypeOK, OneHandlePerDevice,
         NEW room \in 0..ArraySize, NEW found \in Scans, FindAll(room, found)
  PROVE  /\ fw_devices' \in Seq(Addr)
         /\ \A i, j \in DOMAIN fw_devices' : fw_devices'[i] = fw_devices'[j] => i = j
         /\ heap' \in [Addr -> Handle \cup {NoHandle}]
         /\ \A a \in Addr : heap'[a] # NoHandle <=> a \in Registered'
         /\ \A a \in Registered' :
              /\ a \in Addr /\ heap'[a] \in Handle
              /\ ID(a)' \in FoundIDs(found)
              /\ heap'[a].device = found[Max(WithID(found, ID(a)'))]
         /\ \A a, b \in Registered' : ID(a)' = ID(b)' => a = b
         /\ \A a \in Registered \cap Registered' : ID(a)' = ID(a)
         /\ \A a \in Registered : ID(a) \in FoundIDs(found) => a \in Registered'
         /\ \A a \in Registered' \ Registered : \A b \in Registered : ID(a)' # ID(b)
         /\ count' = IF room < Len(fw_devices') THEN room ELSE Len(fw_devices')
         /\ devices' = [i \in 1..ArraySize |-> IF i <= count' THEN fw_devices'[i] ELSE devices[i]]
         /\ told' = [i \in 1..ArraySize |-> IF i <= count'
                                           THEN heap'[fw_devices'[i]].device.uniqueID
                                           ELSE told[i]]
<1>0. PICK new : new = InOrder(NewIndices(found))
  OBVIOUS
<1>1. PICK place \in Injection(DOMAIN new, Addr \ Registered) :
        LET kept == Erase(fw_devices \o place, Gone(found))
            min_size == IF room < Len(kept) THEN room ELSE Len(kept)
        IN  /\ fw_devices' = kept
            /\ heap' = [a \in Addr |-> IF a \in Range(kept)
                                       THEN Refreshed(HandleAt(a, found, new, place), found)
                                       ELSE NoHandle]
            /\ devices' = [i \in 1..ArraySize |-> IF i <= min_size THEN kept[i] ELSE devices[i]]
            /\ count' = min_size
            /\ told' = [i \in 1..ArraySize |->
                          IF i <= min_size
                          THEN HandleAt(kept[i], found, new, place).device.uniqueID
                          ELSE told[i]]
  BY <1>0 DEF FindAll
<1> DEFINE H(a) == HandleAt(a, found, new, place)
           all == Registered \cup Range(place)
<1>2. /\ place \in Seq(Addr)
      /\ \A i, j \in DOMAIN place : place[i] = place[j] => i = j
      /\ Range(place) \cap Registered = {}
      /\ \A a \in Registered : H(a) = heap[a]
      /\ \A a \in Range(place) : \E i \in NewIndices(found) : H(a) = NewHandle(found[i])
      /\ \A a, b \in all :
           /\ H(a) \in Handle
           /\ H(a).device.uniqueID = H(b).device.uniqueID => a = b
  <2>1. Placement(found, new, place)
    BY <1>0 DEF Placement
  <2>2. BeforePruning(found, new, place)
    BY <2>1, HandlesBeforePruning
  <2> QED
    BY <2>2 DEF BeforePruning
<1> HIDE DEF H
<1> DEFINE before == fw_devices \o place
<1>3. /\ before \in Seq(Addr)
      /\ Range(before) = all
      /\ \A i, j \in DOMAIN before : before[i] = before[j] => i = j
  <2>1. fw_devices \in Seq(Addr)
    BY DEF TypeOK
  <2>2. Range(fw_devices) \cap Range(place) = {}
    BY <1>2 DEF Registered
  <2> QED
    BY <1>2, <2>1, <2>2, RegistryDistinct, ConcatDistinct DEF Registered
<1>4. /\ fw_devices' \in Seq(Addr)
      /\ Registered' = all \ Gone(found)
      /\ \A i, j \in DOMAIN fw_devices' : fw_devices'[i] = fw_devices'[j] => i = j
  <2>1. fw_devices' = Erase(before, Gone(found)) /\ Registered' = Range(fw_devices')
    BY <1>1 DEF Registered
  <2> HIDE DEF before
  <2> QED
    BY <1>3, <2>1, EraseKeeps
<1>5. Registered' \subseteq Addr
  BY <1>4 DEF Registered, Range
<1>6. heap' = [a \in Addr |-> IF a \in Registered' THEN Refreshed(H(a), found) ELSE NoHandle]
  BY <1>1 DEF Registered, H
<1>7. \A a \in Registered' : H(a).device.uniqueID \in FoundIDs(found)
  <2> TAKE a \in Registered'
  <2>1. CASE a \in Registered
    BY <1>2, <1>4, <2>1 DEF Gone, ID
  <2>2. CASE a \in Range(place)
    <3>1. PICK i \in NewIndices(found) : H(a) = NewHandle(found[i])
      BY <1>2, <2>2
    <3>2. found[i] \in Device /\ found[i].uniqueID \in FoundIDs(found)
      BY NewIndicesDistinct
    <3> QED
      BY <3>1, <3>2, NewHandleType
  <2> QED
    BY <1>4, <2>1, <2>2
<1>8. ASSUME NEW a \in Registered'
      PROVE  /\ heap'[a] \in Handle
             /\ heap'[a].device.uniqueID = H(a).device.uniqueID
             /\ heap'[a].device = found[Max(WithID(found, H(a).device.uniqueID))]
  <2>1. heap'[a] = Refreshed(H(a), found)
    BY <1>5, <1>6
  <2>2. H(a) \in Handle
    BY <1>2, <1>4
  <2> QED
    BY <1>7, <2>1, <2>2, RefreshedHandle
<1>9. \A a \in Registered' : ID(a)' = H(a).device.uniqueID
  BY <1>8 DEF ID
<1>10. heap' \in [Addr -> Handle \cup {NoHandle}]
  BY <1>6, <1>8
<1>11. \A a \in Addr : heap'[a] # NoHandle <=> a \in Registered'
  BY <1>6, <1>8, NoHandleAssumption DEF NoHandleAssumption
<1>12. \A a, b \in Registered' : ID(a)' = ID(b)' => a = b
  BY <1>2, <1>4, <1>9
<1>13. \A a \in Registered \cap Registered' : ID(a)' = ID(a)
  BY <1>2, <1>9 DEF ID
<1>14. \A a \in Registered : ID(a) \in FoundIDs(found) => a \in Registered'
  BY <1>4 DEF Gone
<1>15. ASSUME NEW a \in Registered' \ Registered, NEW b \in Registered PROVE ID(a)' # ID(b)
  <2>1. a \in Range(place)
    BY <1>4, <1>15
  <2>2. H(a).device.uniqueID # H(b).device.uniqueID
    BY <1>2, <2>1
  <2> QED
    BY <1>2, <1>9, <2>2 DEF ID
<1>16. /\ count' = IF room < Len(fw_devices') THEN room ELSE Len(fw_devices')
       /\ devices' = [i \in 1..ArraySize |-> IF i <= count' THEN fw_devices'[i] ELSE devices[i]]
  BY <1>1
<1>17. \A i \in 1..ArraySize : i <= count' =>
         heap'[fw_devices'[i]].device.uniqueID = H(fw_devices'[i]).device.uniqueID
  <2> SUFFICES ASSUME NEW i \in 1..ArraySize, i <= count'
               PROVE  fw_devices'[i] \in Registered'
    BY <1>8
  <2>1. Len(fw_devices') \in Nat /\ DOMAIN fw_devices' = 1..Len(fw_devices')
    BY <1>4
  <2>2. i \in DOMAIN fw_devices'
    BY <1>16, <2>1
  <2> QED
    BY <2>2 DEF Registered, Range
<1>18. told' = [i \in 1..ArraySize |-> IF i <= count'
                                     THEN heap'[fw_devices'[i]].device.uniqueID
                                     ELSE told[i]]
  BY <1>1, <1>17 DEF H
<1> QED
  BY <1>4, <1>5, <1>7, <1>8, <1>9, <1>10, <1>11, <1>12, <1>13, <1>14, <1>15, <1>16, <1>18

\* Freeing takes the handles out of the registry and out of memory, and no other.
LEMMA DestroyEffect ==
  ASSUME TypeOK, OneHandlePerDevice, NEW gone, Destroy(gone)
  PROVE  /\ fw_devices' \in Seq(Addr)
         /\ \A i, j \in DOMAIN fw_devices' : fw_devices'[i] = fw_devices'[j] => i = j
         /\ heap' \in [Addr -> Handle \cup {NoHandle}]
         /\ \A a \in Addr : heap'[a] # NoHandle <=> a \in Registered'
         /\ Registered' = Registered \ gone
         /\ \A a \in Registered' : heap'[a] = heap[a]
<1>1. fw_devices \in Seq(Addr)
  BY DEF TypeOK
<1>2. /\ fw_devices' \in Seq(Addr)
      /\ Registered' = Registered \ gone
      /\ \A i, j \in DOMAIN fw_devices' : fw_devices'[i] = fw_devices'[j] => i = j
  BY <1>1, RegistryDistinct, EraseKeeps DEF Destroy, Registered
<1>3. heap' = [a \in Addr |-> IF a \in gone THEN NoHandle ELSE heap[a]]
  BY DEF Destroy
<1>4. heap' \in [Addr -> Handle \cup {NoHandle}]
  BY <1>3 DEF TypeOK
<1>5. \A a \in Addr : heap'[a] # NoHandle <=> a \in Registered'
  BY <1>2, <1>3 DEF OneHandlePerDevice
<1>6. \A a \in Registered' : heap'[a] = heap[a]
  BY <1>2, <1>3, RegistryDistinct
<1> QED
  BY <1>2, <1>4, <1>5, <1>6

\* Moving an iterator changes nothing else of a live handle.
LEMMA PositionEffect ==
  ASSUME TypeOK, OneHandlePerDevice, NEW p \in Registered, NEW iter \in Iterator,
         Position(p, iter)
  PROVE  /\ heap' \in [Addr -> Handle \cup {NoHandle}]
         /\ Registered' = Registered
         /\ \A a \in Addr : heap'[a] # NoHandle <=> a \in Registered'
         /\ \A a \in Registered' : heap'[a].device = heap[a].device
<1>1. p \in Addr /\ heap[p] \in Handle
  BY RegistryDistinct
<1>2. heap' = [heap EXCEPT ![p] = [heap[p] EXCEPT !.iter = iter]]
  BY DEF Position
<1>3. [heap[p] EXCEPT !.iter = iter] \in Handle
  BY <1>1 DEF Handle
<1>4. [heap[p] EXCEPT !.iter = iter].device = heap[p].device
  BY <1>1 DEF Handle
<1>5. heap \in [Addr -> Handle \cup {NoHandle}]
  BY DEF TypeOK
<1>6. Registered' = Registered
  BY DEF Position, Registered
<1>7. heap' \in [Addr -> Handle \cup {NoHandle}]
  BY <1>1, <1>2, <1>3, <1>5
<1>8. heap'[p] = [heap[p] EXCEPT !.iter = iter] /\ \A a \in Addr : a # p => heap'[a] = heap[a]
  BY <1>1, <1>2, <1>5
<1>9. \A a \in Addr : heap'[a] # NoHandle <=> a \in Registered'
  BY <1>3, <1>6, <1>8, NoHandleAssumption DEF NoHandleAssumption, OneHandlePerDevice
<1>10. \A a \in Registered' : heap'[a].device = heap[a].device
  BY <1>4, <1>6, <1>8, RegistryDistinct
<1> QED
  BY <1>6, <1>7, <1>9, <1>10

\* A getter's index is one of the list, or 0.
LEMMA SelectedIndex ==
  ASSUME NEW d \in Device
  PROVE  /\ \A kind : FirstOfKind(d.usbDevices, kind) \in 0..ListSize(d)
         /\ \A kind, location : ByKindElseLocation(d, kind, location) \in 0..ListSize(d)
<1> DEFINE n == Len(d.usbDevices)
<1>1. n \in Nat
  BY ListSizeIsNat DEF ListSize
<1>2. ASSUME NEW S, S \subseteq 1..n PROVE (IF S # {} THEN Min(S) ELSE 0) \in 0..n
  <2>1. S \subseteq Nat
    BY <1>1, <1>2
  <2>2. CASE S # {}
    <3>1. Min(S) \in S
      BY <2>1, <2>2, MinInSet
    <3> HIDE DEF n
    <3>2. Min(S) \in 0..n
      <4>1. Min(S) \in 1..n
        BY <1>2, <3>1
      <4> QED
        BY <1>1, <4>1
    <3> QED
      BY <2>2, <3>2
  <2> QED
    BY <1>1, <2>2
<1>3. ASSUME NEW kind PROVE FirstOfKind(d.usbDevices, kind) \in 0..n
  <2> DEFINE S == {i \in 1..n : d.usbDevices[i].kind = kind}
  <2>1. FirstOfKind(d.usbDevices, kind) = IF S # {} THEN Min(S) ELSE 0
    BY DEF FirstOfKind, SelectInSeq
  <2> QED
    BY <1>2, <2>1
<1>4. ASSUME NEW kind, NEW location PROVE ByKindElseLocation(d, kind, location) \in 0..n
  <2> DEFINE S == {i \in 1..n : /\ d.usbDevices[i].location = location
                                /\ d.usbDevices[i].kind \notin {"Hub", "Other"}}
  <2>1. ByKindElseLocation(d, kind, location)
          = IF FirstOfKind(d.usbDevices, kind) # 0
            THEN FirstOfKind(d.usbDevices, kind)
            ELSE IF S # {} THEN Min(S) ELSE 0
    BY DEF ByKindElseLocation, SelectInSeq
  <2>2. (IF S # {} THEN Min(S) ELSE 0) \in 0..n
    BY <1>2
  <2> HIDE DEF S
  <2> QED
    BY <1>3, <2>1, <2>2
<1> QED
  BY <1>3, <1>4 DEF ListSize

LEMMA TargetInList ==
  ASSUME NEW d \in Device, NEW iter_set \in IterSet
  PROVE  Target(d, iter_set) \in 0..ListSize(d)
<1>1. getMainUSBDevice(d) \in 0..ListSize(d)
  <2>1. Len(d.usbDevices) \in Nat /\ (d.usbDevices # <<>> => Len(d.usbDevices) > 0)
    BY DeviceAssumption DEF DeviceAssumption
  <2>2. d.usbDevices # <<>> => 1 \in 0..ListSize(d)
    BY <2>1 DEF ListSize
  <2> QED
    BY <2>2, SelectedIndex, ListSizeIsNat DEF getMainUSBDevice
<1>2. getDisplayUSBDevice(d) \in 0..ListSize(d) /\ getFPGAUSBDevice(d) \in 0..ListSize(d)
  BY SelectedIndex, ListSizeIsNat DEF getDisplayUSBDevice, getFPGAUSBDevice
<1>3. getHubUSBDevice(d) \in 0..ListSize(d)
  BY SelectedIndex, ListSizeIsNat DEF getHubUSBDevice
<1> QED
  BY <1>1, <1>2, <1>3, ListSizeIsNat DEF Target, IterSet

-----------------------------------------------------------------------------
(* The inductive invariant.  TypeOK alone is not one: that a registered      *)
(* address holds a handle at all, and that find_all's search by ID finds at  *)
(* most one, is OneHandlePerDevice; and that needs the types.                *)
IInv == TypeOK /\ OneHandlePerDevice

IDs == {d.uniqueID : d \in Device}

LEMMA HandleID ==
  ASSUME NEW h \in Handle
  PROVE  h.device \in Device /\ h.device.uniqueID \in IDs
BY DEF Handle, IDs

\* The three parts of OneHandlePerDevice, from what the lemmas on effects say.
LEMMA OneHandleFromEffect ==
  ASSUME \A i, j \in DOMAIN fw_devices' : fw_devices'[i] = fw_devices'[j] => i = j,
         \A a, b \in Registered' : ID(a)' = ID(b)' => a = b,
         \A a \in Addr : heap'[a] # NoHandle <=> a \in Registered'
  PROVE  OneHandlePerDevice'
<1>1. ASSUME NEW i \in DOMAIN fw_devices', NEW j \in DOMAIN fw_devices',
             heap'[fw_devices'[i]].device.uniqueID = heap'[fw_devices'[j]].device.uniqueID
      PROVE  i = j
  <2>1. fw_devices'[i] \in Registered' /\ fw_devices'[j] \in Registered'
    BY DEF Registered, Range
  <2>2. fw_devices'[i] = fw_devices'[j]
    BY <1>1, <2>1 DEF ID
  <2> QED
    BY <2>2
<1> QED
  BY <1>1 DEF OneHandlePerDevice, ID, Registered

LEMMA InitIInv == Init => IInv
<1> SUFFICES ASSUME Init PROVE IInv
  OBVIOUS
<1>1. Registered = {} /\ DOMAIN fw_devices = {}
  BY DEF Init, Registered, Range
<1>2. OneHandlePerDevice
  BY <1>1 DEF Init, OneHandlePerDevice
<1>3. TypeOK
  BY BoundsAssumption DEF Init, TypeOK, BoundsAssumption, Answer, Nothing
<1> QED
  BY <1>2, <1>3 DEF IInv

LEMMA FindAllIInv ==
  ASSUME IInv, NEW room \in 0..ArraySize, NEW found \in Scans, FindAll(room, found)
  PROVE  IInv'
<1>1. TypeOK /\ OneHandlePerDevice
  BY DEF IInv
<1>2. /\ fw_devices' \in Seq(Addr)
      /\ \A i, j \in DOMAIN fw_devices' : fw_devices'[i] = fw_devices'[j] => i = j
      /\ heap' \in [Addr -> Handle \cup {NoHandle}]
      /\ \A a \in Addr : heap'[a] # NoHandle <=> a \in Registered'
      /\ \A a \in Registered' : a \in Addr /\ heap'[a] \in Handle
      /\ \A a, b \in Registered' : ID(a)' = ID(b)' => a = b
      /\ count' = IF room < Len(fw_devices') THEN room ELSE Len(fw_devices')
      /\ devices' = [i \in 1..ArraySize |-> IF i <= count' THEN fw_devices'[i] ELSE devices[i]]
      /\ told' = [i \in 1..ArraySize |-> IF i <= count'
                                        THEN heap'[fw_devices'[i]].device.uniqueID
                                        ELSE told[i]]
  BY <1>1, FindAllEffect
<1>3. OneHandlePerDevice'
  BY <1>2, OneHandleFromEffect
<1>4. /\ Len(fw_devices') \in Nat
      /\ count' \in 0..ArraySize
      /\ \A i \in 1..ArraySize : i <= count' => fw_devices'[i] \in Registered'
  <2>1. Len(fw_devices') \in Nat /\ DOMAIN fw_devices' = 1..Len(fw_devices')
    BY <1>2
  <2>2. count' \in 0..ArraySize /\ count' <= Len(fw_devices')
    BY <1>2, <2>1, BoundsAssumption DEF BoundsAssumption
  <2>3. ASSUME NEW i \in 1..ArraySize, i <= count' PROVE fw_devices'[i] \in Registered'
    <3>1. i \in DOMAIN fw_devices'
      BY <2>1, <2>2, <2>3
    <3> QED
      BY <3>1 DEF Registered, Range
  <2> QED
    BY <2>1, <2>2, <2>3
<1>5. devices' \in [1..ArraySize -> Addr \cup {Null}]
  BY <1>1, <1>2, <1>4 DEF TypeOK
<1>6. told' \in [1..ArraySize -> IDs \cup {Null}]
  <2>1. told \in [1..ArraySize -> IDs \cup {Null}]
    BY <1>1 DEF TypeOK, IDs
  <2>2. \A i \in 1..ArraySize : i <= count' => heap'[fw_devices'[i]].device.uniqueID \in IDs
    BY <1>2, <1>4, HandleID
  <2> QED
    BY <1>2, <2>1, <2>2
<1>7. answer' \in Answer
  BY DEF FindAll, Reported, Answer
<1>8. \A id \in DOMAIN scan' : scan'[id] \in Device /\ scan'[id].uniqueID = id
  <2>1. scan' = [id \in FoundIDs(found) |-> found[Max(WithID(found, id))]]
    BY DEF FindAll
  <2> QED
    BY <2>1, LastWithIDExists
<1>9. begun' \subseteq Addr /\ resized' \subseteq Addr
  <2>1. begun' \subseteq Range(fw_devices') /\ resized' \subseteq Range(fw_devices')
    BY DEF FindAll
  <2>2. Range(fw_devices') \subseteq Addr
    BY <1>2 DEF Range
  <2> QED
    BY <2>1, <2>2
<1>10. TypeOK'
  BY <1>2, <1>4, <1>5, <1>6, <1>7, <1>8, <1>9 DEF TypeOK, IDs
<1> QED
  BY <1>3, <1>10 DEF IInv

LEMMA DestroyIInv ==
  ASSUME IInv, NEW gone, Destroy(gone),
         devices' \in [1..ArraySize -> Addr \cup {Null}],
         told' \in [1..ArraySize -> IDs \cup {Null}],
         count' \in 0..ArraySize, answer' = Nothing
  PROVE  IInv'
<1>1. TypeOK /\ OneHandlePerDevice
  BY DEF IInv
<1>2. /\ fw_devices' \in Seq(Addr)
      /\ \A i, j \in DOMAIN fw_devices' : fw_devices'[i] = fw_devices'[j] => i = j
      /\ heap' \in [Addr -> Handle \cup {NoHandle}]
      /\ \A a \in Addr : heap'[a] # NoHandle <=> a \in Registered'
      /\ Registered' = Registered \ gone
      /\ \A a \in Registered' : heap'[a] = heap[a]
  BY <1>1, DestroyEffect
<1>3. \A a, b \in Registered' : ID(a)' = ID(b)' => a = b
  BY <1>1, <1>2, RegistryDistinct DEF ID
<1>4. OneHandlePerDevice'
  BY <1>2, <1>3, OneHandleFromEffect
<1>5. begun' \subseteq Addr /\ resized' \subseteq Addr /\ scan' = scan
  BY <1>1 DEF Destroy, TypeOK
<1>6. answer' \in Answer
  BY BoundsAssumption DEF Answer, Nothing, BoundsAssumption
<1>7. TypeOK'
  BY <1>1, <1>2, <1>5, <1>6 DEF TypeOK, IDs
<1> QED
  BY <1>4, <1>7 DEF IInv

LEMMA PositionIInv ==
  ASSUME IInv, NEW p \in Registered, NEW iter \in Iterator, Position(p, iter),
         begun' \subseteq Addr, resized' \subseteq Addr, answer' \in Answer
  PROVE  IInv'
<1>1. TypeOK /\ OneHandlePerDevice
  BY DEF IInv
<1>2. /\ heap' \in [Addr -> Handle \cup {NoHandle}]
      /\ Registered' = Registered
      /\ \A a \in Addr : heap'[a] # NoHandle <=> a \in Registered'
      /\ \A a \in Registered' : heap'[a].device = heap[a].device
  BY <1>1, PositionEffect
<1>3. UNCHANGED <<fw_devices, devices, count, told, scan>>
  BY DEF Position
<1>4. \A a, b \in Registered' : ID(a)' = ID(b)' => a = b
  BY <1>1, <1>2, RegistryDistinct DEF ID
<1>5. OneHandlePerDevice'
  BY <1>1, <1>2, <1>3, <1>4, RegistryDistinct, OneHandleFromEffect
<1>6. TypeOK'
  BY <1>1, <1>2, <1>3 DEF TypeOK
<1> QED
  BY <1>5, <1>6 DEF IInv

\* A call that only answers.
LEMMA AnswerIInv ==
  ASSUME IInv, answer' \in Answer,
         UNCHANGED <<fw_devices, heap, devices, count, told, scan, begun, resized>>
  PROVE  IInv'
<1>1. OneHandlePerDevice'
  BY DEF IInv, OneHandlePerDevice, Registered, ID
<1>2. TypeOK'
  BY DEF IInv, TypeOK
<1> QED
  BY <1>1, <1>2 DEF IInv

LEMMA AnswersAreTyped ==
  /\ Nothing \in Answer
  /\ \A p \in Addr : OnDeviceOf(p) \in Answer /\ ValidSaid(p) \in Answer
BY BoundsAssumption DEF Answer, Nothing, OnDeviceOf, ValidSaid, BoundsAssumption

LEMMA IteratorSteps ==
  ASSUME NEW it \in Iterator
  PROVE  /\ [it EXCEPT !.pos = @ + 1] \in Iterator
         /\ [valid |-> FALSE, pos |-> it.pos] \in Iterator
<1>1. it = [valid |-> it.valid, pos |-> it.pos] /\ it.valid \in BOOLEAN /\ it.pos \in Nat
  BY DEF Iterator
<1>2. [it EXCEPT !.pos = @ + 1] = [valid |-> it.valid, pos |-> it.pos + 1]
  BY <1>1
<1>3. it.pos + 1 \in Nat
  BY <1>1
<1> QED
  BY <1>1, <1>2, <1>3 DEF Iterator

\* The calls that move the iterator of a handle put it at a position.
MovesIterator(p) ==
  RewindIterator(p) \/ StepIterator(p) \/ \E iter_set \in IterSet : SetIterator(p, iter_set)

LEMMA CallMovesIterator ==
  ASSUME TypeOK, OneHandlePerDevice, NEW p,
         MovesIterator(p)
  PROVE  p \in Registered /\ \E iter \in Iterator : Position(p, iter)
<1>1. ASSUME RewindIterator(p) PROVE p \in Registered /\ \E iter \in Iterator : Position(p, iter)
  <2>1. [valid |-> TRUE, pos |-> 0] \in Iterator
    BY DEF Iterator
  <2> QED
    BY <1>1, <2>1 DEF RewindIterator
<1>2. ASSUME NEW iter_set \in IterSet, SetIterator(p, iter_set)
      PROVE  p \in Registered /\ \E iter \in Iterator : Position(p, iter)
  <2> DEFINE target == Target(heap[p].device, iter_set)
             iter == [valid |-> TRUE, pos |-> target - 1]
  <2>1. p \in Registered /\ target # 0 /\ Position(p, iter)
    BY <1>2 DEF SetIterator
  <2>2. target \in Nat
    BY <2>1, RegistryDistinct, HandleID, TargetInList, ListSizeIsNat
  <2>3. iter \in Iterator
    <3> HIDE DEF target
    <3> QED
      BY <2>1, <2>2 DEF Iterator
  <2> HIDE DEF iter
  <2> QED
    BY <2>1, <2>3
<1>3. ASSUME StepIterator(p) PROVE p \in Registered /\ \E iter \in Iterator : Position(p, iter)
  <2> DEFINE h == heap[p]
  <2>1. p \in Registered /\ h \in Handle /\ h.iter \in Iterator
    BY <1>3, RegistryDistinct DEF StepIterator, Handle
  <2>2. /\ [h.iter EXCEPT !.pos = @ + 1] \in Iterator
        /\ [valid |-> FALSE, pos |-> h.iter.pos] \in Iterator
    BY <2>1, IteratorSteps
  <2>3. \/ Position(p, h.iter)
        \/ Position(p, [h.iter EXCEPT !.pos = @ + 1])
        \/ Position(p, [valid |-> FALSE, pos |-> h.iter.pos])
    BY <1>3 DEF StepIterator
  <2> HIDE DEF h
  <2> QED
    BY <2>1, <2>2, <2>3
<1> QED
  BY <1>1, <1>2, <1>3 DEF MovesIterator

\* A call on a handle reads or moves its iterator, or reads freed memory.
LEMMA CallKinds ==
  ASSUME NEW p,
         \/ GetFromDevice(p) \/ Begin(p) \/ NextDevice(p)
         \/ \E iter_set \in IterSet : SetDevice(p, iter_set)
  PROVE  \/ ReadIterator(p) \/ MovesIterator(p)
         \/ OnFreedMemory(p, {}) \/ OnFreedMemory(p, {OnDeviceOf(p)})
BY DEF GetFromDevice, Begin, NextDevice, SetDevice, MovesIterator

LEMMA NextIInv ==
  ASSUME IInv, [Next]_vars
  PROVE  IInv'
<1>1. TypeOK /\ OneHandlePerDevice
  BY DEF IInv
<1>2. Pointer \subseteq Addr
  BY <1>1 DEF Pointer, TypeOK, Range
<1>3. ASSUME NEW room \in 0..ArraySize, NEW found \in Scans, FindAll(room, found)
      PROVE  IInv'
  BY <1>3, FindAllIInv
<1>4. ASSUME NEW n \in 1..ArraySize, Free(n) PROVE IInv'
  <2> DEFINE freed == {devices[i] : i \in 1..n} \ {Null}
  <2>1. Destroy(freed) /\ answer' = Nothing /\ count' = count
    BY <1>4 DEF Free
  <2>2. devices' \in [1..ArraySize -> Addr \cup {Null}]
    BY <1>1, <1>4 DEF Free, TypeOK
  <2>3. told' \in [1..ArraySize -> IDs \cup {Null}]
    BY <1>1, <1>4 DEF Free, TypeOK, IDs
  <2>4. count' \in 0..ArraySize
    BY <1>1, <2>1 DEF TypeOK
  <2> HIDE DEF freed
  <2> QED
    BY <2>1, <2>2, <2>3, <2>4, DestroyIInv
<1>5. ASSUME FreeAll PROVE IInv'
  <2>1. Destroy(Addr) /\ answer' = Nothing /\ count' = 0 /\ UNCHANGED <<devices, told>>
    BY <1>5 DEF FreeAll
  <2>2. /\ devices' \in [1..ArraySize -> Addr \cup {Null}]
        /\ told' \in [1..ArraySize -> IDs \cup {Null}]
        /\ count' \in 0..ArraySize
    BY <1>1, <2>1, BoundsAssumption DEF TypeOK, IDs, BoundsAssumption
  <2> QED
    BY <2>1, <2>2, DestroyIInv
<1>6. ASSUME Refused PROVE IInv'
  BY <1>6, AnswerIInv, AnswersAreTyped DEF Refused
<1>7. ASSUME NEW p \in Pointer, IsValid(p) PROVE IInv'
  <2>1. answer' \in Answer
    BY <1>2, <1>7, AnswersAreTyped DEF IsValid
  <2> QED
    BY <1>7, <2>1, AnswerIInv DEF IsValid
<1>8. ASSUME NEW p \in Pointer, ReadIterator(p) PROVE IInv'
  <2>1. answer' \in Answer
    BY <1>2, <1>8, AnswersAreTyped DEF ReadIterator
  <2> QED
    BY <1>8, <2>1, AnswerIInv DEF ReadIterator
<1>9. ASSUME NEW p \in Pointer, MovesIterator(p) PROVE IInv'
  <2>1. begun' \subseteq Addr /\ resized' \subseteq Addr
    BY <1>1, <1>2, <1>9 DEF MovesIterator, RewindIterator, SetIterator, StepIterator, TypeOK
  <2>2. answer' \in Answer
    BY <1>2, <1>9, AnswersAreTyped DEF MovesIterator, RewindIterator, SetIterator, StepIterator
  <2>3. p \in Registered /\ \E iter \in Iterator : Position(p, iter)
    BY <1>1, <1>9, CallMovesIterator
  <2> QED
    BY <2>1, <2>2, <2>3, PositionIInv
<1>10. ASSUME NEW p \in Pointer, NEW answers, answers \subseteq {OnDeviceOf(p)},
              OnFreedMemory(p, answers)
       PROVE  IInv'
  <2>1. answer' \in Answer
    BY <1>2, <1>10, AnswersAreTyped DEF OnFreedMemory
  <2> QED
    BY <1>10, <2>1, AnswerIInv DEF OnFreedMemory
<1>11. ASSUME NEW p \in Pointer,
              \/ GetFromDevice(p) \/ Begin(p) \/ NextDevice(p)
              \/ \E iter_set \in IterSet : SetDevice(p, iter_set)
       PROVE  IInv'
  BY <1>8, <1>9, <1>10, <1>11, CallKinds
<1>12. CASE UNCHANGED vars
  <2>1. answer' \in Answer
    BY <1>1, <1>12 DEF vars, TypeOK
  <2> QED
    BY <1>12, <2>1, AnswerIInv DEF vars
<1> QED
  BY <1>3, <1>4, <1>5, <1>6, <1>7, <1>11, <1>12 DEF Next

(* IInv holds always.                                                        *)
THEOREM InductiveInvariant == Spec => []IInv
<1>1. Init => IInv
  BY InitIInv
<1>2. IInv /\ [Next]_vars => IInv'
  BY NextIInv
<1> QED
  BY <1>1, <1>2, PTL DEF Spec

(* Whatever is scanned, freed and asked in whatever order, the state of the  *)
(* C API keeps its types: above all, an address the registry names holds a   *)
(* handle, and an iterator set by fw_usb_device_set is at a position, never  *)
(* before the first (cfwfinder.cpp:296-351).                                 *)
THEOREM TypeCorrect == Spec => []TypeOK
<1>1. IInv => TypeOK
  BY DEF IInv
<1> QED
  BY <1>1, InductiveInvariant, PTL

(* The registry never holds two handles for one location, whatever the scans *)
(* return, and exactly the handles it names are alive: nothing leaks and     *)
(* nothing is named after its memory is gone (cfwfinder.cpp:47-87, 112-137). *)
THEOREM OneHandle == Spec => []OneHandlePerDevice
<1>1. IInv => OneHandlePerDevice
  BY DEF IInv
<1> QED
  BY <1>1, InductiveInvariant, PTL

-----------------------------------------------------------------------------
(* What the API tells its caller. *)

\* A step scans, frees, or leaves the registry and every device in it alone.
Quiet ==
  /\ UNCHANGED <<fw_devices, devices, count, told, scan>>
  /\ \A a \in Registered : heap'[a].device = heap[a].device

LEMMA CallIsQuiet ==
  ASSUME TypeOK, OneHandlePerDevice, NEW p,
         \/ Refused \/ IsValid(p) \/ GetFromDevice(p)
         \/ Begin(p) \/ NextDevice(p) \/ \E iter_set \in IterSet : SetDevice(p, iter_set)
  PROVE  Quiet
<1>1. CASE \/ Refused \/ IsValid(p) \/ ReadIterator(p)
           \/ OnFreedMemory(p, {}) \/ OnFreedMemory(p, {OnDeviceOf(p)})
  BY <1>1 DEF Refused, IsValid, ReadIterator, OnFreedMemory, Quiet
<1>2. CASE MovesIterator(p)
  <2>1. p \in Registered
    BY <1>2, CallMovesIterator
  <2>2. PICK iter \in Iterator : Position(p, iter)
    BY <1>2, CallMovesIterator
  <2> QED
    BY <2>1, <2>2, PositionEffect DEF Quiet, Position
<1> QED
  BY <1>1, <1>2, CallKinds

LEMMA StepKinds ==
  ASSUME TypeOK, OneHandlePerDevice, [Next]_vars
  PROVE  \/ \E room \in 0..ArraySize, found \in Scans : FindAll(room, found)
         \/ \E n \in 1..ArraySize : Free(n)
         \/ FreeAll
         \/ Quiet
<1>1. CASE UNCHANGED vars
  BY <1>1 DEF vars, Quiet
<1> QED
  BY <1>1, CallIsQuiet DEF Next

\* What freeing some handles leaves of the others.
LEMMA FreeingKeeps ==
  ASSUME TypeOK, OneHandlePerDevice, NEW gone, Destroy(gone)
  PROVE  /\ Registered' = Registered \ gone
         /\ \A a \in Registered' : ID(a)' = ID(a) /\ heap'[a].device = heap[a].device
BY DestroyEffect DEF ID

LEMMA QuietKeeps ==
  ASSUME Quiet
  PROVE  Registered' = Registered /\ \A a \in Registered : ID(a)' = ID(a)
BY DEF Quiet, Registered, ID

LEMMA FollowsScanStep ==
  ASSUME IInv, RegistryFollowsScan, [Next]_vars
  PROVE  RegistryFollowsScan'
<1>1. TypeOK /\ OneHandlePerDevice
  BY DEF IInv
<1>2. ASSUME NEW room \in 0..ArraySize, NEW found \in Scans, FindAll(room, found)
      PROVE  RegistryFollowsScan'
  <2>1. \A a \in Registered' :
          /\ ID(a)' \in FoundIDs(found)
          /\ heap'[a].device = found[Max(WithID(found, ID(a)'))]
    BY <1>1, <1>2, FindAllEffect
  <2>2. scan' = [id \in FoundIDs(found) |-> found[Max(WithID(found, id))]]
    BY <1>2 DEF FindAll
  <2> QED
    BY <2>1, <2>2 DEF RegistryFollowsScan
<1>3. ASSUME NEW gone, Destroy(gone) PROVE RegistryFollowsScan'
  <2>1. scan' = scan
    BY <1>3 DEF Destroy
  <2> QED
    BY <1>1, <1>3, <2>1, FreeingKeeps DEF RegistryFollowsScan
<1>4. CASE Quiet
  BY <1>4, QuietKeeps DEF Quiet, RegistryFollowsScan
<1>5. (\E n \in 1..ArraySize : Free(n)) \/ FreeAll => \E gone : Destroy(gone)
  BY DEF Free, FreeAll
<1> QED
  BY <1>1, <1>2, <1>3, <1>4, <1>5, StepKinds

LEMMA StableStep ==
  ASSUME IInv, [Next]_vars, NEW a \in Registered, NEW b \in Registered'
  PROVE  (ID(a) = ID(b)') <=> (a = b)
<1>1. TypeOK /\ OneHandlePerDevice
  BY DEF IInv
<1>2. \A c, d \in Registered : ID(c) = ID(d) => c = d
  BY <1>1, RegistryDistinct
<1>3. ASSUME NEW room \in 0..ArraySize, NEW found \in Scans, FindAll(room, found)
      PROVE  (ID(a) = ID(b)') <=> (a = b)
  <2>1. /\ \A c \in Registered \cap Registered' : ID(c)' = ID(c)
        /\ \A c \in Registered' \ Registered : \A d \in Registered : ID(c)' # ID(d)
    BY <1>1, <1>3, FindAllEffect
  <2> QED
    BY <1>2, <2>1
<1>4. ASSUME NEW gone, Destroy(gone) PROVE (ID(a) = ID(b)') <=> (a = b)
  BY <1>1, <1>2, <1>4, FreeingKeeps
<1>5. CASE Quiet
  BY <1>2, <1>5, QuietKeeps
<1>6. (\E n \in 1..ArraySize : Free(n)) \/ FreeAll => \E gone : Destroy(gone)
  BY DEF Free, FreeAll
<1> QED
  BY <1>1, <1>3, <1>4, <1>5, <1>6, StepKinds

LEMMA ReportedLiveStep ==
  ASSUME IInv, ReportedHandlesAreLive, [Next]_vars
  PROVE  ReportedHandlesAreLive'
<1>1. TypeOK /\ OneHandlePerDevice
  BY DEF IInv
<1>2. count \in 0..ArraySize /\ ArraySize \in Nat
  BY <1>1, BoundsAssumption DEF TypeOK, BoundsAssumption
<1>3. ASSUME NEW room \in 0..ArraySize, NEW found \in Scans, FindAll(room, found)
      PROVE  ReportedHandlesAreLive'
  <2>1. /\ fw_devices' \in Seq(Addr)
        /\ \A i, j \in DOMAIN fw_devices' : fw_devices'[i] = fw_devices'[j] => i = j
        /\ count' = IF room < Len(fw_devices') THEN room ELSE Len(fw_devices')
        /\ devices' = [i \in 1..ArraySize |-> IF i <= count' THEN fw_devices'[i] ELSE devices[i]]
        /\ told' = [i \in 1..ArraySize |-> IF i <= count'
                                          THEN heap'[fw_devices'[i]].device.uniqueID
                                          ELSE told[i]]
    BY <1>1, <1>3, FindAllEffect
  <2>2. Len(fw_devices') \in Nat /\ DOMAIN fw_devices' = 1..Len(fw_devices')
    BY <2>1
  <2>3. count' \in 0..ArraySize /\ count' <= Len(fw_devices')
    BY <1>2, <2>1, <2>2
  <2>4. ASSUME NEW i \in 1..count'
        PROVE  /\ i \in DOMAIN fw_devices' /\ devices'[i] = fw_devices'[i]
               /\ told'[i] = ID(devices[i])'
    BY <1>2, <2>1, <2>2, <2>3 DEF ID
  <2>5. \A i \in 1..count' : devices'[i] \in Registered'
    BY <2>4 DEF Registered, Range
  <2>6. \A i, j \in 1..count' : devices'[j] = devices'[i] => j = i
    BY <2>1, <2>4
  <2> QED
    BY <2>4, <2>5, <2>6 DEF ReportedHandlesAreLive
<1>4. ASSUME NEW n \in 1..ArraySize, Free(n) PROVE ReportedHandlesAreLive'
  <2> DEFINE freed == {devices[i] : i \in 1..n} \ {Null}
  <2>1. Destroy(freed) /\ count' = count
    BY <1>4 DEF Free
  <2>2. \A i \in 1..ArraySize : /\ i <= n => devices'[i] = Null
                                /\ i > n => devices'[i] = devices[i] /\ told'[i] = told[i]
    BY <1>4 DEF Free
  <2>3. Registered' = Registered \ freed /\ \A a \in Registered' : ID(a)' = ID(a)
    <3> HIDE DEF freed
    <3> QED
      BY <1>1, <2>1, FreeingKeeps
  <2>4. ASSUME NEW i \in 1..count', devices'[i] # Null
        PROVE  i \in 1..count /\ i \in 1..ArraySize /\ i > n
               /\ devices'[i] = devices[i] /\ told'[i] = told[i]
    BY <1>2, <2>1, <2>2, <2>4
  <2>5. ASSUME NEW i \in 1..count', devices'[i] # Null PROVE devices[i] \notin freed
    <3> SUFFICES ASSUME NEW j \in 1..n, devices[j] = devices[i] PROVE FALSE
      OBVIOUS
    <3>1. j \in 1..count
      BY <1>2, <2>4, <2>5
    <3> QED
      BY <2>4, <2>5, <3>1 DEF ReportedHandlesAreLive
  <2>6. ASSUME NEW i \in 1..count', devices'[i] # Null
        PROVE  devices'[i] \in Registered' /\ told'[i] = ID(devices[i])'
    <3>1. devices[i] \in Registered /\ told[i] = ID(devices[i])
      BY <2>4, <2>6 DEF ReportedHandlesAreLive
    <3>2. devices[i] \in Registered'
      BY <2>3, <2>5, <2>6, <3>1
    <3>3. heap'[devices[i]].device.uniqueID = ID(devices[i])
      BY <2>3, <3>2 DEF ID
    <3> QED
      BY <2>4, <2>6, <3>1, <3>2, <3>3 DEF ID
  <2>7. \A i, j \in 1..count' : devices'[i] # Null /\ devices'[j] = devices'[i] => j = i
    BY <2>4 DEF ReportedHandlesAreLive
  <2> QED
    BY <2>6, <2>7 DEF ReportedHandlesAreLive
<1>5. CASE FreeAll
  BY <1>5 DEF FreeAll, ReportedHandlesAreLive
<1>6. CASE Quiet
  BY <1>6, QuietKeeps DEF Quiet, ReportedHandlesAreLive, ID
<1> QED
  BY <1>1, <1>3, <1>4, <1>5, <1>6, StepKinds

(* At every moment, every handle the registry holds tells of its device what *)
(* the last successful scan found there, the later of two entries with one   *)
(* ID, whatever was scanned, freed and asked before (cfwfinder.cpp:47-87).   *)
THEOREM FollowsScan == Spec => []RegistryFollowsScan
<1>1. Init => RegistryFollowsScan
  BY DEF Init, RegistryFollowsScan, Registered, Range
<1> QED
  BY <1>1, FollowsScanStep, InductiveInvariant, PTL DEF Spec

(* No step ever makes a live handle another device's or gives a device that  *)
(* stays known another handle: a pointer the caller got stands for the same  *)
(* place until a scan no longer finds it or the caller frees it              *)
(* (cfwfinder.cpp:47-71).                                                    *)
THEOREM Stable == Spec => HandlesAreStable
<1>1. ASSUME IInv, [Next]_vars
      PROVE  [\A a \in Registered, b \in Registered' : (ID(a) = ID(b)') <=> (a = b)]_vars
  BY <1>1, StableStep
<1> QED
  BY <1>1, InductiveInvariant, PTL DEF Spec, HandlesAreStable

(* Until the caller frees them, the entries find_all filled are live handles *)
(* of the devices they were reported for, each once (cfwfinder.cpp:89-94).   *)
THEOREM ReportedLive == Spec => []ReportedHandlesAreLive
<1>1. Init => ReportedHandlesAreLive
  BY DEF Init, ReportedHandlesAreLive
<1> QED
  BY <1>1, ReportedLiveStep, InductiveInvariant, PTL DEF Spec

-----------------------------------------------------------------------------
(* Where the iterators of the handles are. *)

\* A vector has room for its list; and while no scan has changed its length, the
\* iterator is in the list.  Without the first a refresh could move the vector.
IteratorInv ==
  \A a \in Registered : /\ ListSize(heap[a].device) <= heap[a].capacity
                        /\ a \notin resized => InRange(heap[a])

LEMMA NewHandleInRange ==
  ASSUME NEW d \in Device
  PROVE  /\ ListSize(NewHandle(d).device) <= NewHandle(d).capacity
         /\ InRange(NewHandle(d))
BY ListSizeIsNat DEF NewHandle, InRange

\* A refresh with lists of the same length leaves the iterator in the list.
LEMMA RefreshKeepsIterator ==
  ASSUME NEW found \in Scans, NEW h \in Handle, ListSize(h.device) <= h.capacity
  PROVE  /\ ListSize(Refreshed(h, found).device) <= Refreshed(h, found).capacity
         /\ (/\ InRange(h)
             /\ \A i \in WithID(found, h.device.uniqueID) :
                  ListSize(found[i]) = ListSize(h.device))
              => InRange(Refreshed(h, found))
<1> DEFINE id == h.device.uniqueID
           same == WithID(found, id)
           grows == {i \in same : ListSize(found[i]) > h.capacity}
           sizes == {h.capacity} \cup {ListSize(found[i]) : i \in same}
<1>1. CASE same = {}
  BY <1>1 DEF Refreshed
<1>2. CASE same # {}
  <2>1. Refreshed(h, found) = [device   |-> found[Max(same)],
                               capacity |-> Max(sizes),
                               iter     |-> [h.iter EXCEPT !.valid = @ /\ grows = {}]]
    BY <1>2 DEF Refreshed
  <2>2. Max(same) \in same /\ found[Max(same)] \in Device
    BY <1>2, LastWithIDExists DEF FoundIDs, WithID
  <2>3. \A s \in sizes : s <= Max(sizes)
    BY LargestSize DEF Handle
  <2>4. ListSize(found[Max(same)]) <= Max(sizes)
    BY <2>2, <2>3
  <2>5. ASSUME InRange(h), \A i \in same : ListSize(found[i]) = ListSize(h.device)
        PROVE  InRange(Refreshed(h, found))
    <3>1. grows = {}
      <4>1. h.capacity \in Nat /\ ListSize(h.device) \in Nat
        BY ListSizeIsNat DEF Handle
      <4> QED
        BY <2>5, <4>1
    <3>2. h.iter = [valid |-> TRUE, pos |-> h.iter.pos]
      BY <2>5 DEF InRange, Handle, Iterator
    <3>3. [h.iter EXCEPT !.valid = @ /\ grows = {}] = [valid |-> TRUE, pos |-> h.iter.pos]
      <4>1. [h.iter EXCEPT !.valid = @ /\ grows = {}] = [h.iter EXCEPT !.valid = TRUE]
        <5>1. h.iter.valid = TRUE /\ (grows = {}) = TRUE
          BY <3>1, <3>2
        <5>2. (h.iter.valid /\ grows = {}) = TRUE
          BY <5>1
        <5> HIDE DEF grows
        <5> QED
          BY <5>2, Zenon
      <4> QED
        BY <3>2, <4>1
    <3>4. ListSize(found[Max(same)]) = ListSize(h.device)
      BY <2>2, <2>5
    <3> HIDE DEF same, grows, sizes
    <3>5. /\ Refreshed(h, found).device = found[Max(same)]
          /\ Refreshed(h, found).iter = [valid |-> TRUE, pos |-> h.iter.pos]
      BY <2>1, <3>3
    <3> QED
      BY <2>5, <3>4, <3>5 DEF InRange
  <2> QED
    BY <2>1, <2>4, <2>5
<1> QED
  BY <1>1, <1>2

\* What a scan makes of a handle that stays or is new: a refresh of the old one or
\* of a fresh one, on lists of the same length if it does not count as resized.
ScannedFrom(a, h, found) ==
  /\ heap'[a] = Refreshed(h, found)
  /\ IF a \in Registered THEN h = heap[a] ELSE \E d \in Device : h = NewHandle(d)
  /\ a \notin resized' => /\ a \notin resized
                          /\ \A i \in WithID(found, h.device.uniqueID) :
                               ListSize(found[i]) = ListSize(h.device)

LEMMA FindAllIterators ==
  ASSUME TypeOK, OneHandlePerDevice,
         NEW room \in 0..ArraySize, NEW found \in Scans, FindAll(room, found),
         NEW a \in Registered'
  PROVE  \E h \in Handle : ScannedFrom(a, h, found)
<1>0. PICK new : new = InOrder(NewIndices(found))
  OBVIOUS
<1>1. PICK place \in Injection(DOMAIN new, Addr \ Registered) :
        LET kept == Erase(fw_devices \o place, Gone(found))
            handle(b) == HandleAt(b, found, new, place)
            idOf(b) == handle(b).device.uniqueID
        IN  /\ fw_devices' = kept
            /\ heap' = [b \in Addr |-> IF b \in Range(kept)
                                       THEN Refreshed(handle(b), found)
                                       ELSE NoHandle]
            /\ resized' = {b \in Range(kept) :
                             \/ b \in resized
                             \/ \E i \in WithID(found, idOf(b)) :
                                  ListSize(found[i]) # ListSize(handle(b).device)}
  BY <1>0 DEF FindAll
<1>2. BeforePruning(found, new, place)
  BY <1>0, HandlesBeforePruning DEF Placement
<1> DEFINE h == HandleAt(a, found, new, place)
<1>3. a \in Addr
  BY FindAllEffect
<1>4. heap'[a] = Refreshed(h, found)
  BY <1>1, <1>3 DEF Registered
<1>5. a \notin resized' => /\ a \notin resized
                           /\ \A i \in WithID(found, h.device.uniqueID) :
                                ListSize(found[i]) = ListSize(h.device)
  BY <1>1 DEF Registered
<1>6. a \in Registered \cup Range(place)
  <2>1. fw_devices \in Seq(Addr) /\ place \in Seq(Addr)
    BY <1>2 DEF TypeOK, BeforePruning
  <2>2. /\ \A i, j \in DOMAIN fw_devices : fw_devices[i] = fw_devices[j] => i = j
        /\ \A i, j \in DOMAIN place : place[i] = place[j] => i = j
        /\ Range(fw_devices) \cap Range(place) = {}
    BY <1>2, RegistryDistinct DEF BeforePruning, Registered
  <2> DEFINE before == fw_devices \o place
  <2>3. /\ before \in Seq(Addr)
        /\ Range(before) = Registered \cup Range(place)
        /\ \A i, j \in DOMAIN before : before[i] = before[j] => i = j
    BY <2>1, <2>2, ConcatDistinct DEF Registered
  <2>4. fw_devices' = Erase(before, Gone(found)) /\ Registered' = Range(fw_devices')
    BY <1>1 DEF Registered
  <2> HIDE DEF before
  <2> QED
    BY <2>3, <2>4, EraseKeeps
<1>7. h \in Handle
  BY <1>2, <1>6 DEF BeforePruning
<1>8. IF a \in Registered THEN h = heap[a] ELSE \E d \in Device : h = NewHandle(d)
  <2>1. CASE a \in Registered
    BY <1>2, <2>1 DEF BeforePruning
  <2>2. CASE a \notin Registered
    <3>1. PICK i \in NewIndices(found) : h = NewHandle(found[i])
      BY <1>2, <1>6, <2>2 DEF BeforePruning
    <3>2. found[i] \in Device
      BY NewIndicesDistinct
    <3> QED
      BY <2>2, <3>1, <3>2
  <2> QED
    BY <2>1, <2>2
<1> HIDE DEF h
<1> QED
  BY <1>4, <1>5, <1>7, <1>8 DEF ScannedFrom

LEMMA FindAllIteratorInv ==
  ASSUME IInv, IteratorInv,
         NEW room \in 0..ArraySize, NEW found \in Scans, FindAll(room, found)
  PROVE  IteratorInv'
<1> SUFFICES ASSUME NEW a \in Registered'
             PROVE  /\ ListSize(heap'[a].device) <= heap'[a].capacity
                    /\ a \notin resized' => InRange(heap'[a])
  BY DEF IteratorInv, ListSize, InRange
<1>1. PICK h \in Handle : ScannedFrom(a, h, found)
  BY FindAllIterators DEF IInv
<1>2. /\ ListSize(h.device) <= h.capacity
      /\ a \notin resized' => InRange(h)
  <2>1. CASE a \in Registered
    BY <1>1, <2>1 DEF ScannedFrom, IteratorInv
  <2>2. CASE a \notin Registered
    BY <1>1, <2>2, NewHandleInRange DEF ScannedFrom
  <2> QED
    BY <2>1, <2>2
<1> QED
  BY <1>1, <1>2, RefreshKeepsIterator DEF ScannedFrom

\* A call that puts the iterator of p somewhere changes no other and no list.
LEMMA PositionIterators ==
  ASSUME IInv, NEW p \in Registered, NEW iter \in Iterator, Position(p, iter)
  PROVE  /\ Registered' = Registered
         /\ heap'[p].iter = iter
         /\ heap'[p].device = heap[p].device /\ heap'[p].capacity = heap[p].capacity
         /\ \A a \in Registered : a # p => heap'[a] = heap[a]
<1>1. p \in Addr /\ heap[p] \in Handle /\ Registered \subseteq Addr
  BY RegistryDistinct DEF IInv
<1>2. heap' = [heap EXCEPT ![p] = [heap[p] EXCEPT !.iter = iter]]
  BY DEF Position
<1>3. heap \in [Addr -> Handle \cup {NoHandle}]
  BY DEF IInv, TypeOK
<1>4. heap'[p] = [heap[p] EXCEPT !.iter = iter] /\ \A a \in Addr : a # p => heap'[a] = heap[a]
  BY <1>1, <1>2, <1>3
<1>5. Registered' = Registered
  BY DEF Position, Registered
<1>6. /\ [heap[p] EXCEPT !.iter = iter].iter = iter
      /\ [heap[p] EXCEPT !.iter = iter].device = heap[p].device
      /\ [heap[p] EXCEPT !.iter = iter].capacity = heap[p].capacity
  BY <1>1 DEF Handle
<1> QED
  BY <1>1, <1>4, <1>5, <1>6

\* Where the iterator is put is in the list, unless a scan changed its length.
LEMMA PositionIteratorInv ==
  ASSUME IInv, IteratorInv, NEW p \in Registered, NEW iter \in Iterator, Position(p, iter),
         p \notin resized' => iter.valid /\ iter.pos <= ListSize(heap[p].device),
         \A a \in Registered : a # p /\ a \notin resized' => a \notin resized
  PROVE  IteratorInv'
<1>1. /\ Registered' = Registered
      /\ heap'[p].iter = iter
      /\ heap'[p].device = heap[p].device /\ heap'[p].capacity = heap[p].capacity
      /\ \A a \in Registered : a # p => heap'[a] = heap[a]
  BY PositionIterators
<1> SUFFICES ASSUME NEW a \in Registered
             PROVE  /\ ListSize(heap'[a].device) <= heap'[a].capacity
                    /\ a \notin resized' => InRange(heap'[a])
  BY <1>1 DEF IteratorInv, ListSize, InRange
<1>2. CASE a = p
  BY <1>1, <1>2 DEF IteratorInv, InRange, ListSize
<1>3. CASE a # p
  BY <1>1, <1>3 DEF IteratorInv
<1> QED
  BY <1>2, <1>3

\* next leaves an iterator that is in the list there.
LEMMA StepIteratorInv ==
  ASSUME IInv, IteratorInv, NEW p, StepIterator(p)
  PROVE  IteratorInv'
<1> DEFINE h == heap[p]
<1>1. p \in Registered /\ h \in Handle /\ h.iter \in Iterator /\ ListSize(h.device) \in Nat
  BY RegistryDistinct, ListSizeIsNat DEF StepIterator, Handle, IInv
<1>2. /\ [h.iter EXCEPT !.pos = @ + 1] \in Iterator
      /\ [valid |-> FALSE, pos |-> h.iter.pos] \in Iterator
  BY <1>1, IteratorSteps
<1>3. UNCHANGED resized
  BY DEF StepIterator
<1>4. p \notin resized => InRange(h)
  BY <1>1 DEF IteratorInv
<1>5. CASE Position(p, h.iter)
  BY <1>1, <1>3, <1>4, <1>5, PositionIteratorInv DEF InRange
<1>6. CASE OnDevice(h) /\ Position(p, [h.iter EXCEPT !.pos = @ + 1])
  <2>1. /\ [h.iter EXCEPT !.pos = @ + 1].valid = h.iter.valid
        /\ [h.iter EXCEPT !.pos = @ + 1].pos = h.iter.pos + 1
    BY <1>1 DEF Iterator
  <2>2. h.iter.valid /\ h.iter.pos + 1 <= ListSize(h.device)
    BY <1>1, <1>6 DEF OnDevice, Iterator
  <2> DEFINE iter == [h.iter EXCEPT !.pos = @ + 1]
  <2>3. iter \in Iterator /\ Position(p, iter) /\ iter.valid /\ iter.pos <= ListSize(h.device)
    BY <1>2, <1>6, <2>1, <2>2
  <2> HIDE DEF iter
  <2> QED
    BY <1>1, <1>3, <2>3, PositionIteratorInv
<1>7. CASE /\ ~OnDevice(h) /\ FALSE \in AtEnd(h)
           /\ Position(p, [valid |-> FALSE, pos |-> h.iter.pos])
  <2>1. ~InRange(h)
    <3> SUFFICES ASSUME InRange(h) PROVE FALSE
      OBVIOUS
    <3>1. h.iter.valid /\ h.iter.pos \in Nat /\ h.iter.pos <= ListSize(h.device)
      BY <1>1 DEF InRange, Iterator
    <3>2. h.iter.pos = ListSize(h.device)
      BY <1>1, <1>7, <3>1 DEF OnDevice
    <3>3. AtEnd(h) = {TRUE}
      BY <3>1, <3>2, Zenon DEF AtEnd
    <3> QED
      BY <1>7, <3>3
  <2>2. p \in resized'
    BY <1>3, <1>4, <2>1
  <2> DEFINE iter == [valid |-> FALSE, pos |-> h.iter.pos]
  <2>3. iter \in Iterator /\ Position(p, iter)
    BY <1>2, <1>7
  <2> HIDE DEF iter, h
  <2> QED
    BY <1>1, <1>3, <2>2, <2>3, PositionIteratorInv
<1>8. \/ Position(p, h.iter)
      \/ OnDevice(h) /\ Position(p, [h.iter EXCEPT !.pos = @ + 1])
      \/ /\ ~OnDevice(h) /\ FALSE \in AtEnd(h)
         /\ Position(p, [valid |-> FALSE, pos |-> h.iter.pos])
  BY DEF StepIterator
<1> QED
  BY <1>5, <1>6, <1>7, <1>8

LEMMA IteratorStep ==
  ASSUME IInv, IteratorInv, [Next]_vars
  PROVE  IteratorInv'
<1>1. ASSUME NEW room \in 0..ArraySize, NEW found \in Scans, FindAll(room, found)
      PROVE  IteratorInv'
  BY <1>1, FindAllIteratorInv
<1>2. ASSUME NEW gone, Destroy(gone) PROVE IteratorInv'
  <2>1. Registered' = Registered \ gone /\ \A a \in Registered' : heap'[a] = heap[a]
    BY <1>2, DestroyEffect DEF IInv
  <2>2. resized' = resized \ gone
    BY <1>2 DEF Destroy
  <2> QED
    BY <2>1, <2>2 DEF IteratorInv, ListSize, InRange
<1>3. ASSUME NEW n, Free(n) PROVE IteratorInv'
  <2> DEFINE freed == {devices[i] : i \in 1..n} \ {Null}
  <2>1. Destroy(freed)
    BY <1>3 DEF Free
  <2> HIDE DEF freed
  <2> QED
    BY <1>2, <2>1
<1>4. ASSUME FreeAll PROVE IteratorInv'
  BY <1>2, <1>4 DEF FreeAll
<1>5. ASSUME UNCHANGED <<fw_devices, heap, resized>> PROVE IteratorInv'
  BY <1>5 DEF IteratorInv, Registered, ListSize, InRange
<1>6. ASSUME NEW p,
             \/ IsValid(p) \/ ReadIterator(p)
             \/ OnFreedMemory(p, {}) \/ OnFreedMemory(p, {OnDeviceOf(p)})
      PROVE  IteratorInv'
  BY <1>5, <1>6 DEF IsValid, ReadIterator, OnFreedMemory
<1>7. CASE Refused \/ UNCHANGED vars
  BY <1>5, <1>7 DEF Refused, vars
<1>8. ASSUME NEW p, RewindIterator(p) PROVE IteratorInv'
  <2> DEFINE iter == [valid |-> TRUE, pos |-> 0]
  <2>1. p \in Registered /\ Position(p, iter) /\ resized' = resized \ {p}
    BY <1>8 DEF RewindIterator
  <2>2. ListSize(heap[p].device) \in Nat
    BY <2>1, RegistryDistinct, ListSizeIsNat DEF IInv, Handle
  <2>3. iter \in Iterator /\ iter.valid /\ iter.pos <= ListSize(heap[p].device)
    BY <2>2 DEF Iterator
  <2> HIDE DEF iter
  <2> QED
    BY <2>1, <2>3, PositionIteratorInv
<1>9. ASSUME NEW p, NEW iter_set \in IterSet, SetIterator(p, iter_set) PROVE IteratorInv'
  <2> DEFINE target == Target(heap[p].device, iter_set)
             iter == [valid |-> TRUE, pos |-> target - 1]
  <2>1. p \in Registered /\ target # 0 /\ Position(p, iter) /\ resized' = resized \ {p}
    BY <1>9 DEF SetIterator
  <2>2. heap[p].device \in Device
    BY <2>1, RegistryDistinct DEF IInv, Handle
  <2>3. target \in 0..ListSize(heap[p].device) /\ ListSize(heap[p].device) \in Nat
    BY <2>2, TargetInList, ListSizeIsNat
  <2>4. iter \in Iterator /\ iter.valid /\ iter.pos <= ListSize(heap[p].device)
    <3> HIDE DEF target
    <3> QED
      BY <2>1, <2>3 DEF Iterator
  <2> HIDE DEF iter, target
  <2> QED
    BY <2>1, <2>4, PositionIteratorInv
<1>10. ASSUME NEW p, StepIterator(p) PROVE IteratorInv'
  BY <1>10, StepIteratorInv
<1>11. ASSUME NEW p,
              \/ GetFromDevice(p) \/ Begin(p) \/ NextDevice(p)
              \/ \E iter_set \in IterSet : SetDevice(p, iter_set)
       PROVE  IteratorInv'
  BY <1>6, <1>8, <1>9, <1>10, <1>11, CallKinds DEF MovesIterator
<1> QED
  BY <1>1, <1>3, <1>4, <1>6, <1>7, <1>11 DEF Next

LEMMA IteratorInvariant == Spec => []IteratorInv
<1>1. Init => IteratorInv
  BY DEF Init, IteratorInv, Registered, Range
<1>2. IInv /\ IteratorInv /\ [Next]_vars => IteratorInv'
  BY IteratorStep
<1> QED
  BY <1>1, <1>2, InductiveInvariant, PTL DEF Spec

(* As long as no scan changed the length of a handle's list since its        *)
(* iterator was last set, the iterator is in the list or at its end, never   *)
(* dangling and never beyond, after any sequence of scans, frees and steps   *)
(* (cfwfinder.cpp:261-351).                                                  *)
THEOREM IteratorsStayInRange == Spec => []IteratorInRange
<1>1. IteratorInv => IteratorInRange
  BY DEF IteratorInv, IteratorInRange
<1> QED
  BY <1>1, IteratorInvariant, PTL

-----------------------------------------------------------------------------
(* What a successful find_all reports, and that the C API implements       *)
(* DeviceRegistry.                                                         *)

\* find_all gives the first found device with an ID no handle has a handle of its own.
LEMMA NewDeviceIsPlaced ==
  ASSUME TypeOK, OneHandlePerDevice, NEW found \in Scans,
         NEW new, NEW place, Placement(found, new, place),
         NEW id \in FoundIDs(found), \A a \in Registered : ID(a) # id
  PROVE  \E a \in Range(place) : HandleAt(a, found, new, place).device.uniqueID = id
<1> DEFINE c == Cardinality(NewIndices(found))
<1>1. /\ c \in Nat
      /\ new \in [1..c -> NewIndices(found)]
      /\ \A s \in NewIndices(found) : \E i \in 1..c : new[i] = s
  BY NewIndicesDistinct, ScanIsSequence, InOrderEnumerates DEF Placement
<1>2. /\ place \in [1..c -> Addr \ Registered]
      /\ \A i, j \in 1..c : place[i] = place[j] => i = j
  <2>1. DOMAIN new = 1..c
    BY <1>1
  <2>2. place \in Injection(1..c, Addr \ Registered)
    BY <2>1 DEF Placement
  <2> QED
    BY <2>2, Fun_InjectionProperties
<1>3. PICK m \in WithID(found, id) : \A j \in WithID(found, id) : m <= j
  <2>1. WithID(found, id) \subseteq Nat
    BY ScanIsSequence DEF WithID
  <2>2. WithID(found, id) # {}
    BY DEF FoundIDs, WithID
  <2> QED
    BY <2>1, <2>2, LeastIndex
<1>4. m \in NewIndices(found) /\ found[m] \in Device /\ found[m].uniqueID = id
  <2>1. m \in DOMAIN found /\ found[m].uniqueID = id
    BY DEF WithID
  <2>2. \A j \in DOMAIN found : j < m => found[j].uniqueID # id
    <3> SUFFICES ASSUME NEW j \in DOMAIN found, j < m, found[j].uniqueID = id PROVE FALSE
      OBVIOUS
    <3>1. j \in WithID(found, id)
      BY DEF WithID
    <3>2. m <= j /\ m \in Nat /\ j \in Nat
      BY <1>3, <2>1, <3>1, ScanIsSequence
    <3> QED
      BY <3>2
  <2> QED
    BY <2>1, <2>2, ScanIsSequence DEF NewIndices
<1>5. PICK k \in 1..c : new[k] = m
  BY <1>1, <1>4
<1>6. place[k] \in Range(place) /\ place[k] \notin Registered
  BY <1>2 DEF Range
<1>7. (CHOOSE l \in DOMAIN new : place[l] = place[k]) = k
  BY <1>1, <1>2
<1>8. HandleAt(place[k], found, new, place) = NewHandle(found[m])
  BY <1>5, <1>6, <1>7 DEF HandleAt
<1> QED
  BY <1>4, <1>6, <1>8, NewHandleType

\* So after find_all every found device has a handle, and no other device has.
LEMMA FoundAreRegistered ==
  ASSUME TypeOK, OneHandlePerDevice,
         NEW room \in 0..ArraySize, NEW found \in Scans, FindAll(room, found)
  PROVE  {ID(a)' : a \in Registered'} = FoundIDs(found)
<1>1. \A a \in Registered' : ID(a)' \in FoundIDs(found)
  BY FindAllEffect
<1>2. ASSUME NEW id \in FoundIDs(found) PROVE \E a \in Registered' : ID(a)' = id
  <2>1. CASE \E a \in Registered : ID(a) = id
    BY <2>1, FindAllEffect
  <2>2. CASE \A a \in Registered : ID(a) # id
    <3>0. PICK new : new = InOrder(NewIndices(found))
      OBVIOUS
    <3>1. PICK place \in Injection(DOMAIN new, Addr \ Registered) :
            LET kept == Erase(fw_devices \o place, Gone(found))
            IN  /\ fw_devices' = kept
                /\ heap' = [a \in Addr |->
                              IF a \in Range(kept)
                              THEN Refreshed(HandleAt(a, found, new, place), found)
                              ELSE NoHandle]
      BY <3>0 DEF FindAll
    <3>2. Placement(found, new, place)
      BY <3>0 DEF Placement
    <3>3. PICK a \in Range(place) : HandleAt(a, found, new, place).device.uniqueID = id
      BY <2>2, <3>2, NewDeviceIsPlaced
    <3>4. /\ place \in Seq(Addr)
          /\ \A i, j \in DOMAIN place : place[i] = place[j] => i = j
          /\ Range(place) \cap Registered = {}
          /\ HandleAt(a, found, new, place) \in Handle
      BY <3>2, HandlesBeforePruning DEF BeforePruning
    <3>5. a \in Registered'
      <4> DEFINE before == fw_devices \o place
      <4>1. fw_devices \in Seq(Addr) /\ Range(fw_devices) \cap Range(place) = {}
        BY <3>4 DEF TypeOK, Registered
      <4>2. before \in Seq(Addr) /\ a \in Range(before)
        BY <3>4, <4>1, RegistryDistinct, ConcatDistinct
      <4>3. Registered' = Range(Erase(before, Gone(found)))
        BY <3>1 DEF Registered
      <4>4. a \notin Gone(found)
        BY <3>4 DEF Gone
      <4> HIDE DEF before
      <4> QED
        BY <4>2, <4>3, <4>4, EraseKeeps
    <3>6. heap'[a] = Refreshed(HandleAt(a, found, new, place), found)
      <4>1. a \in Addr /\ Registered' = Range(Erase(fw_devices \o place, Gone(found)))
        BY <3>1, <3>4 DEF Range, Registered
      <4> QED
        BY <3>1, <3>5, <4>1
    <3>7. ID(a)' = id
      BY <3>3, <3>4, <3>6, RefreshedHandle DEF ID
    <3> QED
      BY <3>5, <3>7
  <2> QED
    BY <2>1, <2>2
<1> QED
  BY <1>1, <1>2

\* f numbers the members of ids by 1..n, each once.
Numbers(f, n, ids) ==
  /\ n \in Nat /\ f \in [1..n -> ids]
  /\ \A i, j \in 1..n : f[i] = f[j] => i = j
  /\ \A id \in ids : \E i \in 1..n : f[i] = id

\* So there are n of them, and m among the first m.
LEMMA NumberedCardinality ==
  ASSUME NEW f, NEW n, NEW ids, Numbers(f, n, ids)
  PROVE  Cardinality(ids) = n
<1>1. f \in Bijection(1..n, ids)
  <2>1. f \in Surjection(1..n, ids)
    BY Fun_IsSurj DEF Numbers
  <2> QED
    BY <2>1, Fun_IsBij DEF Numbers
<1>2. n \in Nat /\ IsFiniteSet(1..n) /\ Cardinality(1..n) = n
  BY FS_Interval DEF Numbers
<1> QED
  BY <1>1, <1>2, FS_Bijection DEF ExistsBijection

LEMMA FirstOfNumbered ==
  ASSUME NEW f, NEW n, NEW ids, Numbers(f, n, ids), NEW m \in 0..n
  PROVE  Cardinality({f[i] : i \in 1..m}) = m
<1> DEFINE T == {f[i] : i \in 1..m}
           g == [i \in 1..m |-> f[i]]
<1>1. Numbers(g, m, T)
  BY DEF Numbers
<1> HIDE DEF T, g
<1>2. Cardinality(T) = m
  BY <1>1, NumberedCardinality
<1> QED
  BY <1>2 DEF T

\* As many handles as IDs are registered: the entries of the registry number both.
LEMMA RegisteredCardinality ==
  ASSUME TypeOK, OneHandlePerDevice
  PROVE  /\ IsFiniteSet(Registered) /\ Cardinality(Registered) \in Nat
         /\ Cardinality({ID(a) : a \in Registered}) = Cardinality(Registered)
<1> DEFINE n == Len(fw_devices)
           ids == {ID(a) : a \in Registered}
           f == [i \in 1..n |-> ID(fw_devices[i])]
<1>1. /\ n \in Nat /\ DOMAIN fw_devices = 1..n
      /\ Registered = {fw_devices[i] : i \in 1..n}
      /\ fw_devices \in [1..n -> Registered]
  BY DEF TypeOK, Registered, Range
<1>2. Numbers(fw_devices, n, Registered)
  BY <1>1, RegistryDistinct DEF Numbers
<1>3. Numbers(f, n, ids)
  BY <1>1, RegistryDistinct DEF Numbers
<1> HIDE DEF f, n, ids
<1>4. Cardinality(Registered) = n /\ Cardinality(ids) = n
  BY <1>2, <1>3, NumberedCardinality
<1>5. IsFiniteSet(Registered)
  <2>1. fw_devices \in Surjection(1..n, Registered)
    BY <1>1, Fun_IsSurj
  <2>2. n \in Int
    BY <1>1
  <2>3. IsFiniteSet(1..n)
    BY <2>2, FS_Interval
  <2> QED
    BY <2>1, <2>3, FS_Surjection
<1> QED
  BY <1>1, <1>4, <1>5 DEF ids

\* Nothing but find_all answers that it reported.
LEMMA OnlyFindAllReports ==
  ASSUME Next, answer'.is = "reported"
  PROVE  \E room \in 0..ArraySize, found \in Scans : FindAll(room, found)
<1>1. /\ answer' # Nothing
      /\ \A p : answer' # OnDeviceOf(p) /\ answer' # ValidSaid(p)
  <2>1. Nothing.is # "reported" /\ \A p : OnDeviceOf(p).is # "reported"
    BY DEF Nothing, OnDeviceOf
  <2>2. \A p : ValidSaid(p).is # "reported"
    BY DEF ValidSaid
  <2> QED
    BY <2>1, <2>2, Zenon
<1>2. ASSUME NEW p PROVE ~ReadIterator(p) /\ ~IsValid(p) /\ ~MovesIterator(p)
  <2>1. ~ReadIterator(p) /\ ~IsValid(p) /\ ~StepIterator(p)
    BY <1>1, Zenon DEF ReadIterator, IsValid, StepIterator
  <2>2. ~RewindIterator(p) /\ \A iter_set : ~SetIterator(p, iter_set)
    BY <1>1, Zenon DEF RewindIterator, SetIterator
  <2> QED
    BY <2>1, <2>2 DEF MovesIterator
<1>3. ASSUME NEW p
      PROVE  ~OnFreedMemory(p, {}) /\ ~OnFreedMemory(p, {OnDeviceOf(p)})
  BY <1>1 DEF OnFreedMemory
<1>4. ~Refused /\ ~FreeAll /\ \A n : ~Free(n)
  BY <1>1, Zenon DEF Refused, FreeAll, Free
<1>5. ASSUME NEW p
      PROVE  /\ ~(GetFromDevice(p) \/ Begin(p) \/ NextDevice(p))
             /\ ~\E iter_set \in IterSet : SetDevice(p, iter_set)
  BY <1>2, <1>3, CallKinds
<1> QED
  BY <1>2, <1>4, <1>5, Zenon DEF Next

LEMMA EveryDeviceReportedStep ==
  ASSUME IInv, EveryDeviceReported, [Next]_vars
  PROVE  EveryDeviceReported'
<1>1. CASE UNCHANGED vars
  BY <1>1 DEF vars, EveryDeviceReported, ID
<1>2. CASE Next
  <2> SUFFICES ASSUME answer'.is = "reported"
               PROVE  LET reported == {ID(devices[i])' : i \in 1..count'}
                          found    == Cardinality(DOMAIN scan')
                      IN  /\ reported \subseteq DOMAIN scan'
                          /\ count' = IF answer'.room < found THEN answer'.room ELSE found
                          /\ Cardinality(reported) = count'
    BY DEF EveryDeviceReported
  <2>1. PICK room \in 0..ArraySize, found \in Scans : FindAll(room, found)
    BY <1>2, OnlyFindAllReports
  <2>2. TypeOK /\ OneHandlePerDevice
    BY DEF IInv
  <2>3. DOMAIN scan' = FoundIDs(found) /\ answer'.room = room
    BY <2>1 DEF FindAll, Reported
  <2>4. /\ fw_devices' \in Seq(Addr)
        /\ \A i, j \in DOMAIN fw_devices' : fw_devices'[i] = fw_devices'[j] => i = j
        /\ \A a, b \in Registered' : ID(a)' = ID(b)' => a = b
        /\ count' = IF room < Len(fw_devices') THEN room ELSE Len(fw_devices')
        /\ devices' = [i \in 1..ArraySize |-> IF i <= count' THEN fw_devices'[i] ELSE devices[i]]
    BY <2>1, <2>2, FindAllEffect
  <2>5. {ID(a)' : a \in Registered'} = FoundIDs(found)
    BY <2>1, <2>2, FoundAreRegistered
  <2>0. PICK n : n = Len(fw_devices')
    OBVIOUS
  <2>15. PICK f : f = [i \in 1..n |-> ID(fw_devices[i])']
    OBVIOUS
  <2>16. PICK ids : ids = FoundIDs(found)
    OBVIOUS
  <2>6. n \in Nat /\ DOMAIN fw_devices' = 1..n /\ Registered' = {fw_devices'[i] : i \in 1..n}
    BY <2>0, <2>4 DEF Registered, Range
  <2>7. f \in [1..n -> ids]
    BY <2>5, <2>6, <2>15, <2>16
  <2>8. \A i, j \in 1..n : f[i] = f[j] => i = j
    BY <2>4, <2>6, <2>15
  <2>9. \A id \in ids : \E i \in 1..n : f[i] = id
    BY <2>5, <2>6, <2>15, <2>16
  <2>10. ArraySize \in Nat
    BY BoundsAssumption DEF BoundsAssumption
  <2>11. count' \in 0..n /\ count' <= ArraySize
    BY <2>0, <2>4, <2>6, <2>10
  <2>12. {ID(devices[i])' : i \in 1..count'} = {f[i] : i \in 1..count'}
    <3>1. \A i \in 1..count' : devices'[i] = fw_devices'[i] /\ i \in 1..n
      BY <2>4, <2>6, <2>10, <2>11
    <3>2. \A i \in 1..count' : ID(devices[i])' = f[i]
      BY <2>15, <3>1 DEF ID
    <3> QED
      BY <3>2
  <2>13. /\ Cardinality({f[i] : i \in 1..count'}) = count'
         /\ Cardinality(ids) = n
    <3>1. Numbers(f, n, ids)
      BY <2>6, <2>7, <2>8, <2>9 DEF Numbers
    <3>2. PICK m \in 0..n : m = count'
      BY <2>11
    <3>3. Cardinality({f[i] : i \in 1..m}) = m /\ Cardinality(ids) = n
      BY <3>1, NumberedCardinality, FirstOfNumbered
    <3> QED
      BY <3>2, <3>3
  <2>14. {f[i] : i \in 1..count'} \subseteq ids
    BY <2>6, <2>7, <2>11
  <2> QED
    BY <2>0, <2>3, <2>4, <2>12, <2>13, <2>14, <2>16
<1> QED
  BY <1>1, <1>2

(* A successful find_all puts min(room, found locations) live handles of     *)
(* distinct found locations in the caller's array: with room enough none is  *)
(* missed, whatever handles there were before and however often the scan     *)
(* names a location (cfwfinder.cpp:47-94).                                   *)
THEOREM AllReported == Spec => []EveryDeviceReported
<1>1. Init => EveryDeviceReported
  BY DEF Init, Nothing, EveryDeviceReported
<1> QED
  BY <1>1, EveryDeviceReportedStep, InductiveInvariant, PTL DEF Spec

-----------------------------------------------------------------------------
(* The refinement: what the registry knows, by ID. *)

\* Known is the device behind each registered ID, whichever handle CHOOSE takes.
KnownByID ==
  /\ DOMAIN Known = {ID(a) : a \in Registered}
  /\ \A a \in Registered : Known[ID(a)] = heap[a].device

LEMMA KnownIsByID == IInv => KnownByID
<1> SUFFICES ASSUME IInv PROVE KnownByID
  OBVIOUS
<1>1. \A a, b \in Registered : ID(a) = ID(b) => a = b
  BY RegistryDistinct DEF IInv
<1>2. \A a \in Registered : (CHOOSE b \in Registered : ID(b) = ID(a)) = a
  BY <1>1
<1> QED
  BY <1>2 DEF Known, KnownByID

LEMMA KnownIsByIDNext == IInv' => KnownByID'
BY KnownIsByID, PTL

\* The abstract specification's choice among devices of one ID is the code's.
LEMMA LastIsGreatest ==
  ASSUME NEW found \in Scans, NEW id \in FoundIDs(found)
  PROVE  Abstract!LastWithID(found, id) = found[Max(WithID(found, id))]
<1> DEFINE m == Max(WithID(found, id))
           Final(i) == /\ found[i].uniqueID = id
                       /\ \A j \in DOMAIN found : found[j].uniqueID = id => j <= i
<1>1. WithID(found, id) \subseteq 0..Len(found) /\ Len(found) \in Nat
  BY ScanIsSequence DEF WithID
<1>2. WithID(found, id) # {}
  BY DEF FoundIDs, WithID
<1>3. m \in WithID(found, id) /\ \A j \in WithID(found, id) : m >= j
  BY <1>1, <1>2, MaxInSet
<1> HIDE DEF m
<1>4. m \in DOMAIN found /\ Final(m)
  BY <1>1, <1>3 DEF WithID
<1>5. ASSUME NEW i \in DOMAIN found, Final(i) PROVE i = m
  <2>1. i <= m /\ m <= i
    BY <1>4, <1>5
  <2>2. i \in Nat /\ m \in Nat
    BY <1>4, ScanIsSequence
  <2> QED
    BY <2>1, <2>2
<1>6. (CHOOSE i \in DOMAIN found : Final(i)) = m
  BY <1>4, <1>5
<1> QED
  BY <1>6 DEF Abstract!LastWithID, m

\* A scan replaces all that is known.
LEMMA FindAllRefreshes ==
  ASSUME IInv, NEW room \in 0..ArraySize, NEW found \in Scans, FindAll(room, found)
  PROVE  Abstract!Refresh
<1>1. TypeOK /\ OneHandlePerDevice
  BY DEF IInv
<1>2. KnownByID'
  <2>1. IInv'
    BY FindAllIInv
  <2> QED
    BY <2>1, KnownIsByIDNext
<1>3. scan' = [id \in FoundIDs(found) |-> found[Max(WithID(found, id))]]
  BY DEF FindAll
<1>4. DOMAIN Known' = FoundIDs(found)
  BY <1>1, <1>2, FoundAreRegistered DEF KnownByID
<1>5. ASSUME NEW id \in FoundIDs(found) PROVE Known'[id] = found[Max(WithID(found, id))]
  <2>1. PICK a \in Registered' : ID(a)' = id
    BY <1>1, FoundAreRegistered
  <2>2. Known'[id] = heap'[a].device
    BY <1>2, <2>1 DEF KnownByID
  <2> QED
    BY <1>1, <2>1, <2>2, FindAllEffect
<1>6. Known' = [id \in DOMAIN Known' |-> Known'[id]]
  BY DEF Known
<1>7. Known' = scan'
  BY <1>3, <1>4, <1>5, <1>6
<1>8. scan' = [id \in Abstract!FoundIDs(found) |-> Abstract!LastWithID(found, id)]
  BY <1>3, LastIsGreatest DEF FoundIDs, Abstract!FoundIDs
<1>9. (answer'.is = "reported") = TRUE
  BY DEF FindAll, Reported
<1> QED
  BY <1>7, <1>8, <1>9 DEF Abstract!Refresh

\* A step that keeps some of the handles, with the devices they had, forgets the rest.
LEMMA KeepingForgets ==
  ASSUME IInv, IInv', Registered' \subseteq Registered,
         \A a \in Registered' : ID(a)' = ID(a) /\ heap'[a].device = heap[a].device,
         scan' = scan
  PROVE  /\ \E ids \in SUBSET DOMAIN Known : Known' = [id \in ids |-> Known[id]]
         /\ Registered' = Registered => Known' = Known
<1> DEFINE ids == {ID(a) : a \in Registered'}
<1>1. KnownByID /\ KnownByID'
  BY KnownIsByID, KnownIsByIDNext
<1>2. DOMAIN Known' = ids
  BY <1>1 DEF KnownByID
<1>3. ASSUME NEW a \in Registered' PROVE Known'[ID(a)] = Known[ID(a)]
  <2>1. Known'[ID(a)] = heap'[a].device
    <3>1. \A b \in Registered' : Known'[ID(b)'] = heap'[b].device
      BY <1>1 DEF KnownByID
    <3> QED
      BY <3>1
  <2> QED
    BY <1>1, <2>1 DEF KnownByID
<1>4. /\ Known' = [id \in DOMAIN Known' |-> Known'[id]]
      /\ Known = [id \in DOMAIN Known |-> Known[id]]
  BY DEF Known
<1>5. Known' = [id \in ids |-> Known[id]]
  BY <1>2, <1>3, <1>4
<1>6. ids \subseteq DOMAIN Known /\ (Registered' = Registered => ids = DOMAIN Known)
  BY <1>1 DEF KnownByID
<1> QED
  BY <1>4, <1>5, <1>6

LEMMA RegistryStep ==
  ASSUME IInv, [Next]_vars
  PROVE  [Abstract!Next]_(Abstract!vars)
<1>1. TypeOK /\ OneHandlePerDevice /\ IInv'
  BY NextIInv DEF IInv
<1>2. ASSUME NEW room \in 0..ArraySize, NEW found \in Scans, FindAll(room, found)
      PROVE  Abstract!Next
  BY <1>2, FindAllRefreshes DEF Abstract!Next
<1>3. ASSUME ~\E room \in 0..ArraySize, found \in Scans : FindAll(room, found)
      PROVE  Abstract!Next \/ UNCHANGED Abstract!vars
  <2>1. /\ Registered' \subseteq Registered
        /\ \A a \in Registered' : ID(a)' = ID(a) /\ heap'[a].device = heap[a].device
        /\ scan' = scan
    <3>1. ASSUME NEW gone, Destroy(gone)
          PROVE  /\ Registered' \subseteq Registered
                 /\ \A a \in Registered' : ID(a)' = ID(a) /\ heap'[a].device = heap[a].device
                 /\ scan' = scan
      <4>1. scan' = scan
        BY <3>1 DEF Destroy
      <4> QED
        BY <1>1, <3>1, <4>1, FreeingKeeps
    <3>2. CASE Quiet
      BY <3>2, QuietKeeps DEF Quiet
    <3>3. (\E n \in 1..ArraySize : Free(n)) \/ FreeAll => \E gone : Destroy(gone)
      BY DEF Free, FreeAll
    <3> QED
      BY <1>1, <1>3, <3>1, <3>2, <3>3, StepKinds
  <2>2. CASE Next
    <3>1. (answer'.is = "reported") = FALSE
      BY <1>3, <2>2, OnlyFindAllReports
    <3>2. \E ids \in SUBSET DOMAIN Known : Known' = [id \in ids |-> Known[id]]
      BY <1>1, <2>1, KeepingForgets
    <3> QED
      BY <2>1, <3>1, <3>2 DEF Abstract!Next, Abstract!Forget
  <2>3. CASE UNCHANGED vars
    <3>1. Registered' = Registered /\ (answer.is = "reported")' = (answer.is = "reported")
      BY <2>3 DEF vars, Registered
    <3>2. Known' = Known
      BY <1>1, <2>1, <3>1, KeepingForgets
    <3> QED
      BY <2>1, <3>1, <3>2 DEF Abstract!vars
  <2> QED
    BY <2>2, <2>3
<1> QED
  BY <1>2, <1>3

(* Seen through the registry, the API is a map from IDs to devices which a   *)
(* successful scan replaces by what it found and which freeing shrinks, and  *)
(* no call does anything else to it, whatever the handles, the vector and    *)
(* the addresses do underneath (cfwfinder.cpp:47-94, 112-137).               *)
THEOREM RegistryImplemented == Spec => ImplementsRegistry
<1>1. Init => Abstract!Init
  <2> SUFFICES ASSUME Init PROVE Abstract!Init
    OBVIOUS
  <2>1. Registered = {}
    BY DEF Init, Registered, Range
  <2>2. Known = [id \in {} |-> id]
    BY <2>1 DEF Known
  <2>3. scan = [id \in {} |-> id] /\ (answer.is = "reported") = FALSE
    BY DEF Init, Nothing
  <2> QED
    BY <2>2, <2>3 DEF Abstract!Init
<1>2. IInv /\ [Next]_vars => [Abstract!Next]_(Abstract!vars)
  BY RegistryStep
<1> QED
  BY <1>1, <1>2, InductiveInvariant, PTL DEF Spec, ImplementsRegistry, Abstract!Spec
=============================================================================
