--------------------------- MODULE DeviceGroupProofs ---------------------------
(***************************************************************************)
(* What FreeWiliDevice::fromUSBDevices makes of the devices of one         *)
(* FreeWili, for any number of them in any order: how they are sorted,     *)
(* which processor each getter finds, and whose serial the unit gets.      *)
(***************************************************************************)
EXTENDS DeviceGroup, OperatorProofs

-----------------------------------------------------------------------------
(* What the rounds yield when hubs are at the ends of the list only. *)

IsAHub(dev) == dev.kind = "Hub"

\* No two devices but hubs are on one port.
Gatherable(vector) ==
  /\ \A i \in DOMAIN vector : IsAHub(vector[i]) => i = 1 \/ i = Len(vector)
  /\ \A i \in DOMAIN vector : ~IsAHub(vector[i]) => vector[i].location \in Nat
  /\ \A i, j \in DOMAIN vector :
       i # j /\ ~IsAHub(vector[i]) /\ ~IsAHub(vector[j]) =>
         vector[i].location # vector[j].location

InPortOrder(s) ==
  \A i, j \in DOMAIN s :
    i < j /\ ~IsAHub(s[i]) /\ ~IsAHub(s[j]) => s[i].location < s[j].location

SameDevices(vector, n, s) ==
  /\ \A i \in 1..n : \E k \in 1..n : s[i] = vector[k]
  /\ \A k \in 1..n : \E i \in 1..n : s[i] = vector[k]

HubsAtTheEnds(vector, n, s) ==
  /\ \A i \in 1..n : IsAHub(s[i]) => i = 1 \/ (i = n /\ n = Len(vector))
  /\ n > 0 /\ IsAHub(vector[1]) => s[1] = vector[1]
  /\ n > 0 /\ n = Len(vector) /\ IsAHub(vector[n]) => s[n] = vector[n]

RoundInv(vector, n, s) ==
  Len(s) = n /\ SameDevices(vector, n, s) /\ InPortOrder(s) /\ HubsAtTheEnds(vector, n, s)

\* A round's place for an element, in the list so far.
LEMMA RoundPlace ==
  ASSUME NEW S, NEW vector \in Seq(S), Gatherable(vector),
         NEW n \in Nat, n + 1 <= Len(vector),
         NEW s \in Seq(S), RoundInv(vector, n, s),
         NEW x \in S, x = vector[n + 1]
  PROVE  \E p \in 1..(n + 1) :
           /\ Inserted(SortsBefore, s, x) = InsertAt(s, p, x)
           /\ IsAHub(x) => p = n + 1
           /\ p = 1 /\ n > 0 => ~IsAHub(s[1])
           /\ ~IsAHub(x) =>
                /\ \A i \in 1..n : i < p /\ ~IsAHub(s[i]) => s[i].location < x.location
                /\ \A i \in 1..n : i >= p /\ ~IsAHub(s[i]) => x.location < s[i].location
<1>1. Len(s) = n /\ DOMAIN s = 1..n
  BY DEF RoundInv
<1>2. PICK p \in 1..(n + 1) :
        /\ Inserted(SortsBefore, s, x) = InsertAt(s, p, x)
        /\ p = 1 /\ n > 0 => SortsBefore(x, s[1])
        /\ p > 1 => ~SortsBefore(x, s[p - 1])
        /\ p > 1 => \A i \in p..n : SortsBefore(x, s[i])
  BY <1>1, InsertedWhere
<1>3. \A y : SortsBefore(x, y) <=> ~IsAHub(x) /\ ~IsAHub(y) /\ x.location < y.location
  BY DEF SortsBefore, IsAHub
<1>4. IsAHub(x) => p = n + 1
  <2> SUFFICES ASSUME IsAHub(x), p # n + 1
               PROVE  FALSE
    OBVIOUS
  <2>1. n \in p..n /\ n > 0 /\ p \in 1..n
    OBVIOUS
  <2>2. CASE p = 1
    BY <1>2, <1>3, <2>1, <2>2
  <2>3. CASE p > 1
    BY <1>2, <1>3, <2>1, <2>3
  <2> QED
    BY <2>1, <2>2, <2>3
<1>5. p = 1 /\ n > 0 => ~IsAHub(s[1])
  BY <1>2, <1>3
<1>6. ASSUME ~IsAHub(x)
      PROVE  /\ \A i \in 1..n : i < p /\ ~IsAHub(s[i]) => s[i].location < x.location
             /\ \A i \in 1..n : i >= p /\ ~IsAHub(s[i]) => x.location < s[i].location
  <2>1. ASSUME NEW i \in 1..n, ~IsAHub(s[i])
        PROVE  s[i].location \in Nat /\ x.location \in Nat /\ s[i].location # x.location
    <3>1. PICK k \in 1..n : s[i] = vector[k]
      BY DEF RoundInv, SameDevices
    <3>2. k \in DOMAIN vector /\ n + 1 \in DOMAIN vector /\ k # n + 1
      BY <3>1
    <3> QED
      BY <1>6, <2>1, <3>1, <3>2 DEF Gatherable
  <2>2. \A i \in 1..n : IsAHub(s[i]) => i = 1
    BY DEF RoundInv, HubsAtTheEnds
  <2>3. \A i, j \in 1..n :
          i < j /\ ~IsAHub(s[i]) /\ ~IsAHub(s[j]) => s[i].location < s[j].location
    BY <1>1 DEF RoundInv, InPortOrder
  <2>4. ASSUME NEW i \in 1..n, i < p, ~IsAHub(s[i])
        PROVE  s[i].location < x.location
    <3>1. p > 1 /\ p - 1 \in 1..n /\ i <= p - 1
      BY <2>4
    <3>2. ~IsAHub(s[p - 1])
      <4>1. CASE i = p - 1
        BY <2>4, <4>1
      <4>2. CASE i # p - 1
        BY <2>2, <3>1, <4>2
      <4> QED
        BY <4>1, <4>2
    <3>3. ~(x.location < s[p - 1].location)
      BY <1>2, <1>3, <1>6, <3>1, <3>2
    <3>4. s[p - 1].location < x.location
      BY <2>1, <3>1, <3>2, <3>3
    <3>5. i = p - 1 \/ s[i].location < s[p - 1].location
      BY <2>3, <2>4, <3>1, <3>2
    <3> QED
      BY <2>1, <2>4, <3>1, <3>2, <3>4, <3>5
  <2>5. ASSUME NEW i \in 1..n, i >= p, ~IsAHub(s[i])
        PROVE  x.location < s[i].location
    <3>1. CASE p > 1
      BY <1>2, <1>3, <2>5, <3>1
    <3>2. CASE p = 1
      <4>1. x.location < s[1].location /\ ~IsAHub(s[1]) /\ 1 \in 1..n
        BY <1>2, <1>3, <3>2
      <4>2. i = 1 \/ s[1].location < s[i].location
        BY <2>3, <2>5, <4>1
      <4> QED
        BY <2>1, <2>5, <4>1, <4>2
    <3> QED
      BY <3>1, <3>2
  <2> QED
    BY <2>4, <2>5
<1> QED
  BY <1>2, <1>4, <1>5, <1>6

LEMMA RoundStep ==
  ASSUME NEW S, NEW vector \in Seq(S), Gatherable(vector),
         NEW n \in Nat, n + 1 <= Len(vector),
         NEW s \in Seq(S), RoundInv(vector, n, s)
  PROVE  RoundInv(vector, n + 1, Inserted(SortsBefore, s, vector[n + 1]))
<1>1. PICK x \in S : x = vector[n + 1]
  <2>1. n + 1 \in DOMAIN vector
    OBVIOUS
  <2> QED
    BY <2>1
<1>2. PICK p \in 1..(n + 1) :
        /\ Inserted(SortsBefore, s, x) = InsertAt(s, p, x)
        /\ IsAHub(x) => p = n + 1
        /\ p = 1 /\ n > 0 => ~IsAHub(s[1])
        /\ ~IsAHub(x) =>
             /\ \A i \in 1..n : i < p /\ ~IsAHub(s[i]) => s[i].location < x.location
             /\ \A i \in 1..n : i >= p /\ ~IsAHub(s[i]) => x.location < s[i].location
  BY <1>1, RoundPlace
<1>3. PICK r : r = Inserted(SortsBefore, s, x)
  OBVIOUS
<1>4. Len(s) = n /\ DOMAIN s = 1..n
  BY DEF RoundInv
<1>5. /\ r \in Seq(S) /\ Len(r) = n + 1
      /\ \A i \in 1..(n + 1) : r[i] = IF i < p THEN s[i] ELSE IF i = p THEN x ELSE s[i - 1]
  <2>1. p \in 1..(Len(s) + 1)
    BY <1>4
  <2>2. r = InsertAt(s, p, x)
    BY <1>2, <1>3
  <2>3. IsInsertion(r, S, s, p, x)
    BY <2>1, <2>2, InsertAtElements
  <2> QED
    BY <1>4, <2>3 DEF IsInsertion
<1>6. DOMAIN r = 1..(n + 1)
  BY <1>5
<1>7. /\ \A i \in 1..n : i < p => r[i] = s[i]
      /\ r[p] = x
      /\ \A i \in 1..n : i >= p => r[i + 1] = s[i]
  <2>1. ASSUME NEW i \in 1..n, i < p
        PROVE  r[i] = s[i]
    <3>1. i \in 1..(n + 1)
      OBVIOUS
    <3> QED
      BY <1>5, <2>1, <3>1
  <2>2. r[p] = x
    BY <1>5
  <2>3. ASSUME NEW i \in 1..n, i >= p
        PROVE  r[i + 1] = s[i]
    <3>1. i + 1 \in 1..(n + 1) /\ ~(i + 1 < p) /\ i + 1 # p /\ (i + 1) - 1 = i
      BY <2>3
    <3>2. r[i + 1] = s[(i + 1) - 1]
      BY <1>5, <3>1
    <3> QED
      BY <3>1, <3>2
  <2> QED
    BY <2>1, <2>2, <2>3
<1>8. SameDevices(vector, n + 1, r)
  <2>1. ASSUME NEW i \in 1..(n + 1)
        PROVE  \E k \in 1..(n + 1) : r[i] = vector[k]
    <3>1. CASE i = p
      <4>1. r[i] = vector[n + 1] /\ n + 1 \in 1..(n + 1)
        BY <1>1, <1>7, <3>1
      <4> QED
        BY <4>1
    <3>2. CASE i # p
      <4>1. PICK j \in 1..n : r[i] = s[j]
        <5>1. CASE i < p
          <6>1. i \in 1..n
            BY <5>1
          <6> QED
            BY <1>7, <5>1, <6>1
        <5>2. CASE i > p
          <6>1. i - 1 \in 1..n /\ i - 1 >= p /\ (i - 1) + 1 = i
            BY <5>2
          <6> QED
            BY <1>7, <6>1
        <5> QED
          BY <3>2, <5>1, <5>2
      <4>2. PICK k \in 1..n : s[j] = vector[k]
        BY DEF RoundInv, SameDevices
      <4>3. k \in 1..(n + 1)
        OBVIOUS
      <4> QED
        BY <4>1, <4>2, <4>3
    <3> QED
      BY <3>1, <3>2
  <2>2. ASSUME NEW k \in 1..(n + 1)
        PROVE  \E i \in 1..(n + 1) : r[i] = vector[k]
    <3>1. CASE k = n + 1
      BY <1>1, <1>7, <3>1
    <3>2. CASE k # n + 1
      <4>1. k \in 1..n
        BY <3>2
      <4>2. PICK j \in 1..n : s[j] = vector[k]
        BY <4>1 DEF RoundInv, SameDevices
      <4>3. j \in 1..(n + 1) /\ j + 1 \in 1..(n + 1)
        OBVIOUS
      <4> QED
        BY <1>7, <4>2, <4>3
    <3> QED
      BY <3>1, <3>2
  <2> QED
    BY <2>1, <2>2 DEF SameDevices
<1>9. InPortOrder(r)
  <2>1. \A i, j \in 1..n :
          i < j /\ ~IsAHub(s[i]) /\ ~IsAHub(s[j]) => s[i].location < s[j].location
    BY <1>4 DEF RoundInv, InPortOrder
  <2> SUFFICES ASSUME NEW i \in 1..(n + 1), NEW j \in 1..(n + 1),
                      i < j, ~IsAHub(r[i]), ~IsAHub(r[j])
               PROVE  r[i].location < r[j].location
    BY <1>6 DEF InPortOrder
  <2>2. CASE j < p
    <3>1. i \in 1..n /\ j \in 1..n /\ i < p
      BY <2>2
    <3> QED
      BY <1>7, <2>1, <2>2, <3>1
  <2>3. CASE j = p
    <3>1. i \in 1..n /\ i < p
      BY <2>3
    <3> QED
      BY <1>2, <1>7, <2>3, <3>1
  <2>4. CASE j > p
    <3>1. j - 1 \in 1..n /\ j - 1 >= p
      BY <2>4
    <3>2. r[j] = s[j - 1]
      BY <1>7, <3>1
    <3>3. CASE i < p
      <4>1. i \in 1..n /\ i < j - 1
        BY <2>4, <3>3
      <4> QED
        BY <1>7, <2>1, <3>1, <3>2, <3>3, <4>1
    <3>4. CASE i = p
      BY <1>2, <1>7, <3>1, <3>2, <3>4
    <3>5. CASE i > p
      <4>1. i - 1 \in 1..n /\ i - 1 >= p /\ i - 1 < j - 1
        BY <3>5
      <4>2. r[i] = s[i - 1]
        BY <1>7, <4>1
      <4> QED
        BY <2>1, <3>1, <3>2, <4>1, <4>2
    <3> QED
      BY <3>3, <3>4, <3>5
  <2> QED
    BY <2>2, <2>3, <2>4
<1>10. HubsAtTheEnds(vector, n + 1, r)
  <2>1. \A i \in 1..n : IsAHub(s[i]) => i = 1
    BY DEF RoundInv, HubsAtTheEnds
  <2>2. IsAHub(x) => n + 1 = 1 \/ n + 1 = Len(vector)
    <3>1. n + 1 \in DOMAIN vector
      OBVIOUS
    <3> QED
      BY <1>1, <3>1 DEF Gatherable
  <2>3. ASSUME NEW i \in 1..(n + 1), IsAHub(r[i])
        PROVE  i = 1 \/ (i = n + 1 /\ n + 1 = Len(vector))
    <3>1. CASE i < p
      <4>1. i \in 1..n
        BY <3>1
      <4> QED
        BY <1>7, <2>1, <2>3, <3>1, <4>1
    <3>2. CASE i = p
      BY <1>2, <1>7, <2>2, <2>3, <3>2
    <3>3. CASE i > p
      <4>1. i - 1 \in 1..n /\ i - 1 >= p /\ (i - 1) + 1 = i
        BY <3>3
      <4>2. r[i] = s[i - 1]
        BY <1>7, <4>1
      <4>3. i - 1 = 1 /\ p = 1 /\ n > 0
        BY <2>1, <2>3, <4>1, <4>2
      <4> QED
        BY <1>2, <2>3, <4>2, <4>3
    <3> QED
      BY <3>1, <3>2, <3>3
  <2>4. ASSUME IsAHub(vector[1])
        PROVE  r[1] = vector[1]
    <3>1. CASE n = 0
      BY <1>1, <1>7, <3>1
    <3>2. CASE n > 0
      <4>1. s[1] = vector[1] /\ 1 \in 1..n
        BY <2>4, <3>2 DEF RoundInv, HubsAtTheEnds
      <4>2. 1 < p
        BY <1>2, <2>4, <3>2, <4>1
      <4> QED
        BY <1>7, <4>1, <4>2
    <3> QED
      BY <3>1, <3>2
  <2>5. IsAHub(vector[n + 1]) => r[n + 1] = vector[n + 1]
    BY <1>1, <1>2, <1>7
  <2> QED
    BY <2>3, <2>4, <2>5 DEF HubsAtTheEnds
<1> QED
  BY <1>1, <1>3, <1>5, <1>8, <1>9, <1>10 DEF RoundInv

\* The sort keeps the devices, orders them by port and leaves a hub at its end.
LEMMA SortedDevices ==
  ASSUME NEW S, NEW vector \in Seq(S), Gatherable(vector)
  PROVE  /\ SortUSBDevices(vector) \in Seq(S)
         /\ RoundInv(vector, Len(vector), SortUSBDevices(vector))
<1>1. PICK sorted \in [0..Len(vector) -> Seq(S)] :
        /\ sorted[0] = <<>>
        /\ \A n \in 1..Len(vector) :
             sorted[n] = Inserted(SortsBefore, sorted[n - 1], vector[n])
        /\ SortUSBDevices(vector) = sorted[Len(vector)]
  BY SortIsRounds
<1>2. PICK N \in Nat : N = Len(vector)
  OBVIOUS
<1> DEFINE D == {n \in Nat : n <= N => RoundInv(vector, n, sorted[n])}
<1>3. 0 \in D
  <2>1. Len(<<>>) = 0 /\ DOMAIN <<>> = {} /\ 1..0 = {}
    OBVIOUS
  <2>2. RoundInv(vector, 0, <<>>)
    BY <2>1 DEF RoundInv, SameDevices, InPortOrder, HubsAtTheEnds
  <2> QED
    BY <1>1, <2>2
<1>4. ASSUME NEW n \in D
      PROVE  n + 1 \in D
  <2> SUFFICES ASSUME n + 1 <= N
               PROVE  RoundInv(vector, n + 1, sorted[n + 1])
    OBVIOUS
  <2>1. n \in Nat /\ n \in 0..N /\ n + 1 \in 1..N /\ (n + 1) - 1 = n
    OBVIOUS
  <2>2. RoundInv(vector, n, sorted[n]) /\ sorted[n] \in Seq(S)
    BY <1>1, <1>2, <2>1
  <2>3. sorted[n + 1] = Inserted(SortsBefore, sorted[n], vector[n + 1])
    BY <1>1, <1>2, <2>1
  <2> HIDE DEF D
  <2>4. PICK s \in Seq(S) : s = sorted[n]
    BY <2>2
  <2>5. RoundInv(vector, n + 1, Inserted(SortsBefore, s, vector[n + 1]))
    BY <1>2, <2>1, <2>2, <2>4, RoundStep
  <2> QED
    BY <2>3, <2>4, <2>5
<1>5. D = Nat
  <2>1. D \subseteq Nat
    OBVIOUS
  <2> HIDE DEF D
  <2> QED
    BY <1>3, <1>4, <2>1, SetInduction
<1>6. N \in D /\ N <= N /\ N \in 0..N
  BY <1>5
<1> QED
  BY <1>1, <1>2, <1>6

-----------------------------------------------------------------------------
(* What a scanner gathers. *)

IsGroup(h, list) ==
  /\ h \in Hubs
  /\ list \in Seq({h} \cup Children)
  /\ \A i \in DOMAIN list : list[i] # h => list[i].hub = h.prod
  /\ \A i, j \in DOMAIN list :
       i # j /\ list[i] # h /\ list[j] # h => list[i].location # list[j].location
  /\ \A i \in DOMAIN list : list[i] = h => i = 1 \/ i = Len(list)

GroupInv ==
  /\ IsGroup(hub, usbDevices)
  /\ device # NotBuilt => hub \in Gathered /\ device = fromUSBDevices(usbDevices)

LEMMA ChildIsNoHub ==
  ASSUME NEW c \in Children
  PROVE  ~IsAHub(c) /\ c \notin Hubs /\ c.location \in Nat
<1>1. /\ c.kind = getUSBDeviceTypeFrom(c.prod, c.location)
      /\ c.location \in Nat
      /\ c.prod \notin HubProduct
  BY ChildrenAssumption DEF ChildrenAssumption, is_freewili_hub
<1>2. PICK prod, location : prod = c.prod /\ location = c.location
  OBVIOUS
<1>3. ASSUME prod \in WhitelistVIDPID
      PROVE  usbDeviceTypeMap[prod] # "Hub"
  BY <1>1, <1>2, <1>3 DEF usbDeviceTypeMap
<1>4. DOMAIN usbDeviceTypeMap = WhitelistVIDPID
  BY DEF usbDeviceTypeMap
<1>5. getUSBDeviceTypeFrom(prod, location) # "Hub"
  BY <1>3, <1>4 DEF getUSBDeviceTypeFrom
<1>6. ~IsAHub(c)
  BY <1>1, <1>2, <1>5 DEF IsAHub
<1>7. c \notin Hubs
  BY <1>6, HubsAssumption DEF HubsAssumption, IsAHub
<1> QED
  BY <1>1, <1>6, <1>7

LEMMA MemberOfGroup ==
  ASSUME NEW h, NEW list, IsGroup(h, list), NEW i \in DOMAIN list
  PROVE  list[i] = h \/ list[i] \in Children
BY DEF IsGroup

LEMMA InitGroup ==
  ASSUME Init
  PROVE  GroupInv
<1>1. hub \in Hubs /\ device = NotBuilt /\ usbDevices \in {<<>>, <<hub>>}
  BY DEF Init
<1>2. IsGroup(hub, <<>>)
  <2>1. DOMAIN <<>> = {} /\ <<>> \in Seq({hub} \cup Children)
    OBVIOUS
  <2> QED
    BY <1>1, <2>1 DEF IsGroup
<1>3. IsGroup(hub, <<hub>>)
  <2>1. DOMAIN <<hub>> = {1} /\ <<hub>> \in Seq({hub} \cup Children) /\ <<hub>>[1] = hub
    OBVIOUS
  <2> QED
    BY <1>1, <2>1 DEF IsGroup
<1> QED
  BY <1>1, <1>2, <1>3 DEF GroupInv

\* A device appended, its elements.
LEMMA Appended ==
  ASSUME NEW S, NEW list \in Seq(S), NEW x \in S
  PROVE  /\ Append(list, x) \in Seq(S)
         /\ Len(Append(list, x)) = Len(list) + 1 /\ Len(list) \in Nat
         /\ DOMAIN list = 1..Len(list) /\ DOMAIN Append(list, x) = 1..(Len(list) + 1)
         /\ \A i \in 1..Len(list) : Append(list, x)[i] = list[i]
         /\ Append(list, x)[Len(list) + 1] = x
OBVIOUS

LEMMA PushChildStep ==
  ASSUME GroupInv, NEW c \in Children, PushChild(c)
  PROVE  GroupInv'
<1>1. /\ device = NotBuilt /\ device' = device /\ hub' = hub
      /\ c.hub = hub.prod /\ usbDevices' = Append(usbDevices, c)
      /\ \A dev \in Gathered \ {hub} : dev.location # c.location
      /\ ~HubPushedLast
  BY DEF PushChild
<1>2. IsGroup(hub, usbDevices)
  BY DEF GroupInv
<1>3. PICK S : S = {hub} \cup Children
  OBVIOUS
<1>4. usbDevices \in Seq(S) /\ c \in S /\ hub \in Hubs /\ c # hub
  BY <1>2, <1>3, ChildIsNoHub DEF IsGroup
<1>5. PICK n \in Nat : n = Len(usbDevices)
  BY <1>4
<1>6. PICK new : new = Append(usbDevices, c)
  OBVIOUS
<1>7. /\ new \in Seq(S) /\ Len(new) = n + 1
      /\ DOMAIN usbDevices = 1..n /\ DOMAIN new = 1..(n + 1)
      /\ \A i \in 1..n : new[i] = usbDevices[i]
      /\ new[n + 1] = c
  BY <1>4, <1>5, <1>6, Appended
<1>8. \A i \in 1..(n + 1) : i \in 1..n \/ i = n + 1
  OBVIOUS
<1>9. \A i \in 1..n : usbDevices[i] # hub => usbDevices[i].location # c.location
  BY <1>1, <1>7 DEF Gathered, ToSet
<1>10. \A i \in 1..n : usbDevices[i] = hub => i = 1
  <2>1. n > 1 => usbDevices[n] # hub
    BY <1>1, <1>5 DEF HubPushedLast, Last
  <2> QED
    BY <1>2, <1>5, <1>7, <2>1 DEF IsGroup
<1>11. IsGroup(hub, new)
  <2>1. \A i \in DOMAIN new : new[i] # hub => new[i].hub = hub.prod
    BY <1>1, <1>2, <1>7, <1>8 DEF IsGroup
  <2>2. \A i, j \in DOMAIN new :
          i # j /\ new[i] # hub /\ new[j] # hub => new[i].location # new[j].location
    BY <1>2, <1>7, <1>8, <1>9 DEF IsGroup
  <2>3. \A i \in DOMAIN new : new[i] = hub => i = 1 \/ i = Len(new)
    BY <1>7, <1>8, <1>10
  <2> QED
    BY <1>3, <1>4, <1>7, <2>1, <2>2, <2>3 DEF IsGroup
<1> QED
  BY <1>1, <1>6, <1>11 DEF GroupInv

LEMMA PushHubStep ==
  ASSUME GroupInv, PushHub
  PROVE  GroupInv'
<1>1. /\ device = NotBuilt /\ device' = device /\ hub' = hub
      /\ usbDevices' = Append(usbDevices, hub) /\ hub \notin Gathered
  BY DEF PushHub
<1>2. IsGroup(hub, usbDevices)
  BY DEF GroupInv
<1>3. PICK S : S = {hub} \cup Children
  OBVIOUS
<1>4. usbDevices \in Seq(S) /\ hub \in S
  BY <1>2, <1>3 DEF IsGroup
<1>5. PICK n \in Nat : n = Len(usbDevices)
  BY <1>4
<1>6. PICK new : new = Append(usbDevices, hub)
  OBVIOUS
<1>7. /\ new \in Seq(S) /\ Len(new) = n + 1
      /\ DOMAIN usbDevices = 1..n /\ DOMAIN new = 1..(n + 1)
      /\ \A i \in 1..n : new[i] = usbDevices[i]
      /\ new[n + 1] = hub
  BY <1>4, <1>5, <1>6, Appended
<1>8. \A i \in 1..(n + 1) : i \in 1..n \/ i = n + 1
  OBVIOUS
<1>9. \A i \in 1..n : usbDevices[i] # hub
  BY <1>1, <1>7 DEF Gathered, ToSet
<1>10. IsGroup(hub, new)
  <2>1. \A i \in DOMAIN new : new[i] # hub => new[i].hub = hub.prod
    BY <1>2, <1>7, <1>8 DEF IsGroup
  <2>2. \A i, j \in DOMAIN new :
          i # j /\ new[i] # hub /\ new[j] # hub => new[i].location # new[j].location
    BY <1>2, <1>7, <1>8 DEF IsGroup
  <2>3. \A i \in DOMAIN new : new[i] = hub => i = 1 \/ i = Len(new)
    BY <1>7, <1>8, <1>9
  <2> QED
    BY <1>2, <1>3, <1>7, <2>1, <2>2, <2>3 DEF IsGroup
<1> QED
  BY <1>1, <1>6, <1>10 DEF GroupInv

LEMMA GroupInvariance == Spec => []GroupInv
<1>1. Init => GroupInv
  BY InitGroup
<1>2. GroupInv /\ [Next]_vars => GroupInv'
  <2> SUFFICES ASSUME GroupInv, [Next]_vars
               PROVE  GroupInv'
    OBVIOUS
  <2>1. ASSUME NEW c \in Children, PushChild(c)
        PROVE  GroupInv'
    BY <2>1, PushChildStep
  <2>2. CASE PushHub
    BY <2>2, PushHubStep
  <2>3. CASE MakeDevice
    BY <2>3 DEF MakeDevice, GroupInv, Gathered
  <2>4. CASE UNCHANGED vars
    BY <2>4 DEF vars, GroupInv, Gathered
  <2> QED
    BY <2>1, <2>2, <2>3, <2>4 DEF Next
<1> QED
  BY <1>1, <1>2, PTL DEF Spec

-----------------------------------------------------------------------------
(* What fromUSBDevices makes of it. *)

LEMMA GroupIsGatherable ==
  ASSUME NEW h, NEW list, IsGroup(h, list)
  PROVE  /\ Gatherable(list) /\ list \in Seq({h} \cup Children) /\ h \in Hubs
         /\ \A i \in DOMAIN list : IsAHub(list[i]) <=> list[i] = h
         /\ IsAHub(h) /\ is_freewili_hub(h.prod) /\ h.role = "hub"
<1>1. h \in Hubs /\ IsAHub(h) /\ is_freewili_hub(h.prod) /\ h.role = "hub"
  BY HubsAssumption DEF HubsAssumption, IsGroup, IsAHub
<1>2. ASSUME NEW i \in DOMAIN list
      PROVE  /\ IsAHub(list[i]) <=> list[i] = h
             /\ list[i] # h => list[i].location \in Nat
  BY <1>1, MemberOfGroup, ChildIsNoHub
<1>3. Gatherable(list)
  BY <1>2 DEF Gatherable, IsGroup
<1> QED
  BY <1>1, <1>2, <1>3 DEF IsGroup

\* None of them is a FreeWili by itself.
Plain(list) == \A i \in DOMAIN list : ~isStandAloneDevice(list[i].prod)

LEMMA PlainIsNotStandalone ==
  ASSUME NEW h, NEW list, IsGroup(h, list), Plain(list)
  PROVE  fromUSBDevices(list) = FromHub(list)
<1>1. PICK S : list \in Seq(S)
  BY DEF IsGroup
<1> QED
  BY <1>1, FirstStandaloneIs DEF Plain

\* A device, the error and "not called yet" are different.
LEMMA DeviceOrNot ==
  ASSUME NEW type, NEW name, NEW serial, NEW id, NEW alone, NEW list
  PROVE  LET d == [deviceType |-> type, name |-> name, serial |-> serial, uniqueID |-> id,
                   standalone |-> alone, usbDevices |-> list]
         IN  d # BuildError /\ d # NotBuilt /\ BuildError # NotBuilt
<1> DEFINE d == [deviceType |-> type, name |-> name, serial |-> serial, uniqueID |-> id,
                 standalone |-> alone, usbDevices |-> list]
<1>1. DOMAIN d = {"deviceType", "name", "serial", "uniqueID", "standalone", "usbDevices"}
  OBVIOUS
<1>2. DOMAIN BuildError = {"is"} /\ DOMAIN NotBuilt = {"is"}
  BY DEF BuildError, NotBuilt
<1>3. "is" \notin DOMAIN d
  BY <1>1
<1>4. BuildError.is = "error" /\ NotBuilt.is = "not built" /\ "error" # "not built"
  BY DEF BuildError, NotBuilt
<1>5. BuildError # NotBuilt
  BY <1>4, Zenon
<1> HIDE DEF d
<1>6. d # BuildError /\ d # NotBuilt
  BY <1>2, <1>3
<1> QED
  BY <1>5, <1>6 DEF d

IsUnitSerial(h, list, serial) ==
  LET ftdi == FirstOfKind(list, "FTDI")
  IN  IF h.prod = "FW2Hub"
      THEN serial = IF h.serial # "" THEN h.serial ELSE FallbackSerial(list)
      ELSE serial = IF ftdi # 0 THEN list[ftdi].serial ELSE "Unknown"

DeviceOf(list, type, serial, id) ==
  [deviceType |-> type, name |-> type, serial |-> serial, uniqueID |-> id,
   standalone |-> FALSE, usbDevices |-> SortUSBDevices(list)]

LEMMA GroupMakes ==
  ASSUME NEW h, NEW list, IsGroup(h, list), Plain(list), \E i \in DOMAIN list : list[i] = h
  PROVE  \E type \in {"FreeWili", "FreeWili2"} : \E serial, id :
           /\ IsUnitSerial(h, list, serial)
           /\ fromUSBDevices(list) =
                IF serial = "" THEN BuildError ELSE DeviceOf(list, type, serial, id)
<1> DEFINE k == FirstOfKind(list, "Hub")
           ftdi == FirstOfKind(list, "FTDI")
           isFW2 == \E i \in DOMAIN list : list[i].kind = "Hub" /\ list[i].prod = "FW2Hub"
           type == IF isFW2 THEN "FreeWili2" ELSE "FreeWili"
           serial == CASE isFW2 /\ list[k].serial # "" -> list[k].serial
                       [] isFW2 /\ list[k].serial = "" -> FallbackSerial(list)
                       [] ~isFW2 /\ ftdi # 0 -> list[ftdi].serial
                       [] OTHER -> "Unknown"
           id == IF k = 0 THEN {} ELSE UniqueID(list[k].portChain)
<1> HIDE DEF k, ftdi, type, serial, id
<1>0. \A i \in DOMAIN list : list[i].kind = "Hub" <=> list[i] = h
  <2>1. \A i \in DOMAIN list : IsAHub(list[i]) <=> list[i] = h
    BY GroupIsGatherable
  <2> QED
    BY <2>1 DEF IsAHub
<1>1. list[k] = h
  <2>1. PICK i \in DOMAIN list : list[i].kind = "Hub"
    BY <1>0
  <2>2. PICK S : S = {h} \cup Children
    OBVIOUS
  <2>3. list \in Seq(S)
    BY <2>2, GroupIsGatherable
  <2>4. \/ FirstOfKind(list, "Hub") = 0 /\ \A j \in DOMAIN list : list[j].kind # "Hub"
        \/ /\ FirstOfKind(list, "Hub") # 0 /\ FirstOfKind(list, "Hub") \in DOMAIN list
           /\ list[FirstOfKind(list, "Hub")].kind = "Hub"
    BY <2>3, FirstOfKindIs
  <2>5. k \in DOMAIN list /\ list[k].kind = "Hub"
    BY <2>1, <2>4 DEF k
  <2> QED
    BY <1>0, <2>5
<1>2. isFW2 <=> h.prod = "FW2Hub"
  BY <1>0
<1>3. fromUSBDevices(list) =
        Build([deviceType |-> type, name |-> type, serial |-> serial, uniqueID |-> id,
               standalone |-> FALSE, usbDevices |-> SortUSBDevices(list)])
  <2>1. fromUSBDevices(list) = FromHub(list)
    BY PlainIsNotStandalone
  <2> QED
    BY <2>1 DEF FromHub, type, serial, id, k, ftdi
<1>4. type \in {"FreeWili", "FreeWili2"}
  BY DEF type
<1> HIDE DEF isFW2
<1>5. IsUnitSerial(h, list, serial)
  <2>1. CASE h.prod = "FW2Hub"
    BY <1>1, <1>2, <2>1 DEF IsUnitSerial, serial
  <2>2. CASE h.prod # "FW2Hub"
    BY <1>2, <2>2 DEF IsUnitSerial, serial, ftdi
  <2> QED
    BY <2>1, <2>2
<1>6. fromUSBDevices(list) = Build(DeviceOf(list, type, serial, id))
  BY <1>3 DEF DeviceOf
<1>7. /\ DeviceOf(list, type, serial, id).name = type
      /\ DeviceOf(list, type, serial, id).serial = serial
      /\ DeviceOf(list, type, serial, id).deviceType = type
  BY DEF DeviceOf
<1>8. type # "" /\ type # "Unknown"
  BY <1>4
<1>9. fromUSBDevices(list) = IF serial = "" THEN BuildError ELSE DeviceOf(list, type, serial, id)
  BY <1>6, <1>7, <1>8 DEF Build
<1> QED
  BY <1>4, <1>5, <1>9

\* One of them is, and gives the unit its name, serial and place.
LEMMA StandaloneMakes ==
  ASSUME NEW h, NEW list, IsGroup(h, list), ~Plain(list)
  PROVE  \E i \in DOMAIN list : \E type \in DeviceType : \E id :
           /\ isStandAloneDevice(list[i].prod)
           /\ fromUSBDevices(list) =
                IF list[i].name = "" \/ list[i].serial = ""
                THEN BuildError
                ELSE DeviceRecord(type, list[i].name, list[i].serial, id, TRUE, list)
<1>1. PICK S : list \in Seq(S)
  BY DEF IsGroup
<1>2. PICK i \in DOMAIN list :
        isStandAloneDevice(list[i].prod) /\ fromUSBDevices(list) = FromStandalone(list, i)
  BY <1>1, FirstStandaloneIs DEF Plain
<1>3. PICK prod : prod = list[i].prod
  OBVIOUS
<1>4. standaloneDeviceType(prod) \in DeviceType /\ standaloneDeviceType(prod) # "Unknown"
  BY <1>2, <1>3 DEF standaloneDeviceType, DeviceType, isStandAloneDevice, StandaloneProduct
<1>5. PICK type, id : type = standaloneDeviceType(prod) /\ id = UniqueID(list[i].portChain)
  OBVIOUS
<1>6. FromStandalone(list, i) =
        Build(DeviceRecord(type, list[i].name, list[i].serial, id, TRUE, list))
  BY <1>3, <1>5 DEF FromStandalone, DeviceRecord
<1>7. PICK name, serial : name = list[i].name /\ serial = list[i].serial
  OBVIOUS
<1>8. Build(DeviceRecord(type, name, serial, id, TRUE, list)) =
        IF name = "" \/ serial = "" THEN BuildError
        ELSE DeviceRecord(type, name, serial, id, TRUE, list)
  BY <1>4, <1>5, DeviceIsNoError
<1> QED
  BY <1>2, <1>4, <1>5, <1>6, <1>7, <1>8

LEMMA StandalonesAre ==
  ASSUME GroupInv
  PROVE  /\ Standalones = {} <=> Plain(usbDevices)
         /\ \A i \in DOMAIN usbDevices :
              isStandAloneDevice(usbDevices[i].prod) => usbDevices[i] \in Standalones
         /\ Standalones \subseteq Gathered
<1>1. Gathered = {usbDevices[i] : i \in DOMAIN usbDevices}
  BY DEF Gathered, ToSet
<1> QED
  BY <1>1 DEF Standalones, Plain

-----------------------------------------------------------------------------
(* The order. *)

\* A device that was made, whatever its serial.
LEMMA BuiltDevice ==
  ASSUME GroupInv, Built, Standalones = {}
  PROVE  /\ IsGroup(hub, usbDevices) /\ \E i \in DOMAIN usbDevices : usbDevices[i] = hub
         /\ \E type \in {"FreeWili", "FreeWili2"} : \E serial, id :
              /\ IsUnitSerial(hub, usbDevices, serial) /\ serial # ""
              /\ device = DeviceOf(usbDevices, type, serial, id)
<1>1. /\ IsGroup(hub, usbDevices) /\ hub \in Gathered
      /\ device = fromUSBDevices(usbDevices) /\ device # BuildError
  BY DEF GroupInv, Built
<1>2. \E i \in DOMAIN usbDevices : usbDevices[i] = hub
  BY <1>1 DEF Gathered, ToSet
<1>3. Plain(usbDevices)
  BY StandalonesAre
<1>4. PICK type \in {"FreeWili", "FreeWili2"} : \E serial, id :
        /\ IsUnitSerial(hub, usbDevices, serial)
        /\ fromUSBDevices(usbDevices) =
             IF serial = "" THEN BuildError ELSE DeviceOf(usbDevices, type, serial, id)
  BY <1>1, <1>2, <1>3, GroupMakes
<1> QED
  BY <1>1, <1>2, <1>4

LEMMA BuiltAlone ==
  ASSUME GroupInv, Built, Standalones # {}
  PROVE  /\ device.standalone = TRUE /\ device.usbDevices = usbDevices
         /\ device.deviceType \in DeviceType
<1>1. /\ IsGroup(hub, usbDevices) /\ ~Plain(usbDevices)
      /\ device = fromUSBDevices(usbDevices) /\ device # BuildError
  BY StandalonesAre DEF GroupInv, Built
<1>2. PICK i \in DOMAIN usbDevices : \E type \in DeviceType : \E id :
        fromUSBDevices(usbDevices) =
          IF usbDevices[i].name = "" \/ usbDevices[i].serial = ""
          THEN BuildError
          ELSE DeviceRecord(type, usbDevices[i].name, usbDevices[i].serial, id, TRUE, usbDevices)
  BY <1>1, StandaloneMakes
<1>3. PICK name, serial : name = usbDevices[i].name /\ serial = usbDevices[i].serial
  OBVIOUS
<1>4. PICK type \in DeviceType : \E id :
        device = DeviceRecord(type, name, serial, id, TRUE, usbDevices)
  BY <1>1, <1>2, <1>3
<1> QED
  BY <1>4 DEF DeviceRecord

LEMMA SortedGroup ==
  ASSUME NEW h, NEW list, IsGroup(h, list)
  PROVE  LET out == SortUSBDevices(list)
         IN  /\ DOMAIN out = DOMAIN list /\ DOMAIN list = 1..Len(list) /\ Len(list) \in Nat
             /\ out \in Seq({h} \cup Children)
             /\ RoundInv(list, Len(list), out)
             /\ ToSet(out) = ToSet(list)
             /\ \A i \in DOMAIN out : IsAHub(out[i]) <=> out[i] = h
<1>1. PICK S : S = {h} \cup Children
  OBVIOUS
<1>2. list \in Seq(S) /\ Gatherable(list) /\ IsAHub(h) /\ h \in Hubs
  BY <1>1, GroupIsGatherable
<1>3. PICK out : out = SortUSBDevices(list)
  OBVIOUS
<1>4. out \in Seq(S) /\ RoundInv(list, Len(list), out)
  BY <1>2, <1>3, SortedDevices
<1>5. PICK n \in Nat : n = Len(list)
  BY <1>2
<1>6. Len(out) = n /\ DOMAIN out = 1..n /\ DOMAIN list = 1..n
  <2>1. Len(out) = n
    BY <1>4, <1>5 DEF RoundInv
  <2> QED
    BY <1>2, <1>4, <1>5, <2>1
<1>7. /\ \A i \in 1..n : \E k \in 1..n : out[i] = list[k]
      /\ \A k \in 1..n : \E i \in 1..n : out[i] = list[k]
  BY <1>4, <1>5 DEF RoundInv, SameDevices
<1>8. ToSet(out) = ToSet(list)
  <2>1. ToSet(out) = {out[i] : i \in 1..n} /\ ToSet(list) = {list[i] : i \in 1..n}
    BY <1>6 DEF ToSet
  <2>2. {out[i] : i \in 1..n} \subseteq {list[i] : i \in 1..n}
    BY <1>7
  <2>3. {list[i] : i \in 1..n} \subseteq {out[i] : i \in 1..n}
    BY <1>7
  <2> QED
    BY <2>1, <2>2, <2>3
<1>9. \A i \in DOMAIN list : IsAHub(list[i]) <=> list[i] = h
  BY GroupIsGatherable
<1>10. ASSUME NEW i \in DOMAIN out
       PROVE  IsAHub(out[i]) <=> out[i] = h
  <2>1. PICK k \in DOMAIN list : out[i] = list[k]
    BY <1>6, <1>7
  <2>2. IsAHub(list[k]) <=> list[k] = h
    BY <1>9
  <2> QED
    BY <2>1, <2>2
<1> QED
  BY <1>1, <1>3, <1>4, <1>5, <1>6, <1>8, <1>10

LEMMA TypesFollow ==
  ASSUME GroupInv
  PROVE  TypeOK
<1>1. IsGroup(hub, usbDevices) /\ hub \in Hubs /\ usbDevices \in Seq({hub} \cup Children)
  BY DEF GroupInv, IsGroup
<1>2. usbDevices \in Seq(Hubs \cup Children)
  <2>1. PICK S, T : S = {hub} \cup Children /\ T = Hubs \cup Children
    OBVIOUS
  <2>2. S \subseteq T
    BY <1>1, <2>1
  <2>3. Seq(S) \subseteq Seq(T)
    <3> SUFFICES ASSUME NEW s \in Seq(S)
                 PROVE  s \in Seq(T)
      OBVIOUS
    <3>1. \A i \in 1..Len(s) : s[i] \in T
      BY <2>2
    <3> QED
      BY <3>1
  <2> QED
    BY <1>1, <2>1, <2>3
<1>3. CASE Built /\ Standalones = {}
  <2>1. PICK type \in {"FreeWili", "FreeWili2"} : \E serial, id :
          device = DeviceOf(usbDevices, type, serial, id)
    BY <1>3, BuiltDevice
  <2>2. /\ device.deviceType = type /\ device.standalone = FALSE
        /\ device.usbDevices = SortUSBDevices(usbDevices)
    BY <2>1 DEF DeviceOf
  <2>3. type \in DeviceType
    BY DEF DeviceType
  <2>4. ToSet(SortUSBDevices(usbDevices)) = Gathered
    BY <1>1, SortedGroup DEF Gathered
  <2> QED
    BY <1>1, <1>2, <2>2, <2>3, <2>4 DEF TypeOK
<1>4. CASE Built /\ Standalones # {}
  BY <1>1, <1>2, <1>4, BuiltAlone DEF TypeOK, Gathered
<1>5. CASE ~Built
  BY <1>1, <1>2, <1>5 DEF TypeOK, Built
<1> QED
  BY <1>3, <1>4, <1>5

(* The lists fromUSBDevices is given and returns, for any hubs and children: *)
(* the device it makes holds exactly the USB devices it was given            *)
(* (fwfinder.cpp:165-305).                                                   *)
THEOREM GroupTypes == Spec => []TypeOK
<1>1. GroupInv => TypeOK
  BY TypesFollow
<1> QED
  BY <1>1, GroupInvariance, PTL

LEMMA OrderFollows ==
  ASSUME GroupInv
  PROVE  SortedAroundTheHub
<1>0. CASE Built /\ Standalones # {}
  BY <1>0, BuiltAlone DEF SortedAroundTheHub
<1> SUFFICES ASSUME Built, Standalones = {}
             PROVE  SortedAroundTheHub
  BY <1>0 DEF SortedAroundTheHub
<1>1. /\ IsGroup(hub, usbDevices) /\ \E i \in DOMAIN usbDevices : usbDevices[i] = hub
      /\ device.usbDevices = SortUSBDevices(usbDevices)
  <2>1. PICK type, serial, id : device = DeviceOf(usbDevices, type, serial, id)
    BY BuiltDevice
  <2>2. device.usbDevices = SortUSBDevices(usbDevices)
    BY <2>1 DEF DeviceOf
  <2>3. IsGroup(hub, usbDevices) /\ \E i \in DOMAIN usbDevices : usbDevices[i] = hub
    BY BuiltDevice
  <2> QED
    BY <2>2, <2>3
<1>2. PICK out, n : out = SortUSBDevices(usbDevices) /\ n = Len(usbDevices)
  OBVIOUS
<1>3. /\ DOMAIN out = 1..n /\ DOMAIN usbDevices = 1..n /\ n \in Nat
      /\ RoundInv(usbDevices, n, out)
      /\ \A i \in DOMAIN out : IsAHub(out[i]) <=> out[i] = hub
  BY <1>1, <1>2, SortedGroup
<1>4. n > 0 /\ Len(out) = n /\ IsAHub(hub)
  <2>1. n > 0
    BY <1>1, <1>3
  <2>2. Len(out) = n
    BY <1>3 DEF RoundInv
  <2>3. IsAHub(hub)
    BY <1>1, GroupIsGatherable
  <2> QED
    BY <2>1, <2>2, <2>3
<1>5. ASSUME NEW i \in DOMAIN out, NEW j \in DOMAIN out, i < j, out[i] # hub, out[j] # hub
      PROVE  out[i].location < out[j].location
  BY <1>3, <1>5 DEF RoundInv, InPortOrder
<1>6. usbDevices[1] = hub => out[1] = hub
  BY <1>3, <1>4 DEF RoundInv, HubsAtTheEnds
<1>7. usbDevices[n] = hub => out[n] = hub
  BY <1>2, <1>3, <1>4 DEF RoundInv, HubsAtTheEnds
<1>8. device.usbDevices = out
  BY <1>1, <1>2
<1>9. Head(usbDevices) = usbDevices[1] /\ Head(out) = out[1]
  BY DEF Head
<1>10. Last(usbDevices) = usbDevices[n] /\ Last(out) = out[n]
  BY <1>2, <1>4 DEF Last
<1> QED
  BY <1>5, <1>6, <1>7, <1>8, <1>9, <1>10 DEF SortedAroundTheHub

(* However many devices hang on the hub and in whatever order they were      *)
(* found: unless one of them stands alone, the comparator, which is no       *)
(* strict weak order, sorts them by port and leaves the hub at its end of    *)
(* the list (fwfinder.cpp:278-290).                                          *)
THEOREM HubKeepsItsEnd == Spec => []SortedAroundTheHub
<1>1. GroupInv => SortedAroundTheHub
  BY OrderFollows
<1> QED
  BY <1>1, GroupInvariance, PTL

-----------------------------------------------------------------------------
(* The processors. *)

Processors == {"main", "display", "fpga", "probe", "esp32"}

\* The table, for what may sit on a FreeWili's port.
LEMMA KindOfChild ==
  ASSUME NEW c \in Children, ~isStandAloneDevice(c.prod)
  PROVE  /\ c.prod \in {"MainCdc", "FW2Main"} => c.kind = "SerialMain"
         /\ c.prod \in {"DisplayCdc", "FW2Display"} => c.kind = "SerialDisplay"
         /\ c.prod = "FTDI" => c.kind = "FTDI"
         /\ c.prod = "DebugProbe" => c.kind = "DebugProbe"
         /\ c.prod = "Esp32" => c.kind = "ESP32"
         /\ c.prod \in {"Rp2040Uf2", "FW2MassStorage"} => c.kind = "MassStorage"
         /\ c.prod = "RpiCdc" =>
              c.kind = IF c.location = MainLocation THEN "SerialMain"
                       ELSE IF c.location = DisplayLocation THEN "SerialDisplay" ELSE "Serial"
         /\ c.prod \notin {"MainCdc", "FW2Main", "DisplayCdc", "FW2Display", "FTDI", "DebugProbe",
                           "Esp32", "Rp2040Uf2", "FW2MassStorage", "RpiCdc"} => c.kind = "Other"
<1>1. /\ c.kind = getUSBDeviceTypeFrom(c.prod, c.location)
      /\ c.prod \notin HubProduct /\ c.prod \notin StandaloneProduct
  BY ChildrenAssumption DEF ChildrenAssumption, is_freewili_hub, isStandAloneDevice
<1>2. PICK prod, location : prod = c.prod /\ location = c.location
  OBVIOUS
<1>3. DOMAIN usbDeviceTypeMap = WhitelistVIDPID
  BY DEF usbDeviceTypeMap
<1>4. ASSUME prod \in WhitelistVIDPID
      PROVE  /\ prod \in {"MainCdc", "FW2Main"} => usbDeviceTypeMap[prod] = "SerialMain"
             /\ prod \in {"DisplayCdc", "FW2Display"} => usbDeviceTypeMap[prod] = "SerialDisplay"
             /\ prod = "FTDI" => usbDeviceTypeMap[prod] = "FTDI"
             /\ prod = "DebugProbe" => usbDeviceTypeMap[prod] = "DebugProbe"
             /\ prod = "Esp32" => usbDeviceTypeMap[prod] = "ESP32"
             /\ prod \in {"Rp2040Uf2", "FW2MassStorage"} => usbDeviceTypeMap[prod] = "MassStorage"
             /\ prod = "RpiCdc" => usbDeviceTypeMap[prod] = "Serial"
  BY <1>4 DEF usbDeviceTypeMap, HubProduct
<1>5. prod \in WhitelistVIDPID <=>
        prod \in {"MainCdc", "FW2Main", "DisplayCdc", "FW2Display", "FTDI", "DebugProbe",
                  "Esp32", "Rp2040Uf2", "FW2MassStorage", "RpiCdc"}
  BY <1>1, <1>2 DEF WhitelistVIDPID
<1>6. MainLocation # DisplayLocation
  BY DEF MainLocation, DisplayLocation
<1>7. /\ prod \notin WhitelistVIDPID => getUSBDeviceTypeFrom(prod, location) = "Other"
      /\ prod \in WhitelistVIDPID /\ prod # "RpiCdc" =>
           getUSBDeviceTypeFrom(prod, location) = usbDeviceTypeMap[prod]
      /\ prod \in WhitelistVIDPID /\ prod = "RpiCdc" =>
           getUSBDeviceTypeFrom(prod, location) =
             IF location = MainLocation THEN "SerialMain"
             ELSE IF location = DisplayLocation THEN "SerialDisplay" ELSE usbDeviceTypeMap[prod]
  <2>1. CASE prod \notin WhitelistVIDPID
    <3>1. prod # "RpiCdc"
      BY <2>1 DEF WhitelistVIDPID
    <3> QED
      BY <1>3, <2>1, <3>1 DEF getUSBDeviceTypeFrom
  <2>2. CASE prod \in WhitelistVIDPID /\ prod # "RpiCdc"
    BY <1>3, <2>2 DEF getUSBDeviceTypeFrom
  <2>3. CASE prod \in WhitelistVIDPID /\ prod = "RpiCdc"
    <3>1. CASE location = MainLocation
      BY <1>3, <1>6, <2>3, <3>1 DEF getUSBDeviceTypeFrom
    <3>2. CASE location = DisplayLocation
      BY <1>3, <1>6, <2>3, <3>2 DEF getUSBDeviceTypeFrom
    <3>3. CASE location # MainLocation /\ location # DisplayLocation
      BY <1>3, <2>3, <3>3 DEF getUSBDeviceTypeFrom
    <3> QED
      BY <1>6, <2>3, <3>1, <3>2, <3>3
  <2> QED
    BY <2>1, <2>2, <2>3
<1>8. c.kind = getUSBDeviceTypeFrom(prod, location)
  BY <1>1, <1>2
<1> QED
  BY <1>2, <1>4, <1>5, <1>7, <1>8

\* A role has one port.
LEMMA RoleTellsPort ==
  ASSUME NEW c \in Children
  PROVE  /\ c.role # "hub"
         /\ c.role \in Processors =>
              \A other \in Children :
                other.hub = c.hub /\ other.role = c.role => other.location = c.location
BY RolesAssumption DEF RolesAssumption, Processors

\* Between a processor's kind, its port and its role, while it does not stand alone.
LEMMA KindTellsRole ==
  ASSUME NEW c \in Children, ~isStandAloneDevice(c.prod)
  PROVE  /\ c.kind = "SerialMain" \/ AtPort(c, MainLocation) <=> c.role = "main"
         /\ c.kind = "SerialDisplay" \/ AtPort(c, DisplayLocation) <=> c.role = "display"
         /\ c.kind = "FTDI" <=> c.role = "fpga"
         /\ AtPort(c, FPGALocation) => c.role = "fpga"
         /\ c.kind = "DebugProbe" <=> c.role = "probe"
         /\ c.kind = "ESP32" <=> c.role = "esp32"
         /\ c.hub = "FW2Hub" => (c.kind = "SerialMain" <=> c.role = "main")
         /\ c.hub = "FW2Hub" => (c.kind = "SerialDisplay" <=> c.role = "display")
<1> DEFINE shared == c.prod \in {"RpiCdc", "Rp2040Uf2"}
           known  == c.kind # "Other"
<1>1. /\ c.role = "main" <=>
           c.prod \in {"MainCdc", "FW2Main"} \/ (shared /\ c.location = MainLocation)
      /\ c.role = "display" <=>
           c.prod \in {"DisplayCdc", "FW2Display"} \/ (shared /\ c.location = DisplayLocation)
      /\ c.role = "fpga" <=> c.prod = "FTDI"
      /\ c.role = "probe" <=> c.prod = "DebugProbe"
      /\ c.role = "esp32" <=> c.prod = "Esp32"
      /\ known /\ c.location = MainLocation => c.role = "main"
      /\ known /\ c.location = DisplayLocation => c.role = "display"
      /\ known /\ c.location = FPGALocation => c.role = "fpga"
      /\ c.hub = "FW2Hub" => c.prod # "Rp2040Uf2"
  <2>1. c.prod # "Rp2350Uf2"
    BY DEF isStandAloneDevice, StandaloneProduct
  <2>2. shared <=> c.prod \in {"RpiCdc", "Rp2040Uf2", "Rp2350Uf2"}
    BY <2>1
  <2> HIDE DEF shared
  <2> QED
    BY <2>2, RolesAssumption DEF RolesAssumption
<1>2. c.kind # "Hub"
  BY ChildIsNoHub DEF IsAHub
<1>3. \A location : AtPort(c, location) <=> c.location = location /\ known
  BY <1>2 DEF AtPort
<1>4. c.kind = "SerialMain" <=>
        c.prod \in {"MainCdc", "FW2Main"} \/ (c.prod = "RpiCdc" /\ c.location = MainLocation)
  BY KindOfChild
<1>5. MainLocation # DisplayLocation
  BY DEF MainLocation, DisplayLocation
<1>6. c.kind = "SerialDisplay" <=>
        c.prod \in {"DisplayCdc", "FW2Display"} \/ (c.prod = "RpiCdc" /\ c.location = DisplayLocation)
  BY <1>5, KindOfChild
<1>7. /\ c.kind = "FTDI" <=> c.prod = "FTDI"
      /\ c.kind = "DebugProbe" <=> c.prod = "DebugProbe"
      /\ c.kind = "ESP32" <=> c.prod = "Esp32"
  BY KindOfChild
<1>8. c.prod = "Rp2040Uf2" => known
  BY KindOfChild
<1> HIDE DEF known
<1>9. c.kind = "SerialMain" \/ AtPort(c, MainLocation) <=> c.role = "main"
  BY <1>1, <1>3, <1>4, <1>8
<1>10. c.kind = "SerialDisplay" \/ AtPort(c, DisplayLocation) <=> c.role = "display"
  BY <1>1, <1>3, <1>6, <1>8
<1>11. /\ c.hub = "FW2Hub" => (c.kind = "SerialMain" <=> c.role = "main")
       /\ c.hub = "FW2Hub" => (c.kind = "SerialDisplay" <=> c.role = "display")
  BY <1>1, <1>4, <1>6
<1>12. AtPort(c, FPGALocation) => c.role = "fpga"
  BY <1>1, <1>3
<1>13. /\ c.kind = "FTDI" <=> c.role = "fpga"
       /\ c.kind = "DebugProbe" <=> c.role = "probe"
       /\ c.kind = "ESP32" <=> c.role = "esp32"
  BY <1>1, <1>7
<1> QED
  BY <1>9, <1>10, <1>11, <1>12, <1>13

\* A group has one device in each role.
LEMMA OnePerRole ==
  ASSUME NEW h, NEW list, IsGroup(h, list), NEW x \in ToSet(list), NEW y \in ToSet(list),
         x # h, y # h, x.role = y.role, x.role \in Processors
  PROVE  x = y
<1>1. PICK i, j \in DOMAIN list : x = list[i] /\ y = list[j]
  BY DEF ToSet
<1>2. x \in Children /\ y \in Children
  BY <1>1, MemberOfGroup
<1>3. x.hub = y.hub
  BY <1>1 DEF IsGroup
<1>4. x.location = y.location
  BY <1>2, <1>3, RoleTellsPort
<1>5. i = j
  BY <1>1, <1>4 DEF IsGroup
<1> QED
  BY <1>1, <1>5

\* What a group's sorted list says of one processor.
LEMMA GotIsRole ==
  ASSUME NEW h, NEW list, IsGroup(h, list), NEW role \in Processors,
         NEW out, out = SortUSBDevices(list), NEW k,
         \/ k = 0 /\ \A i \in DOMAIN out : out[i] # h => out[i].role # role
         \/ k # 0 /\ k \in DOMAIN out /\ out[k] # h /\ out[k].role = role
  PROVE  (IF k = 0 THEN {} ELSE {out[k]}) = {dev \in ToSet(list) \ {h} : dev.role = role}
<1>1. ToSet(out) = ToSet(list)
  BY SortedGroup
<1>2. CASE k = 0
  BY <1>1, <1>2 DEF ToSet
<1>3. CASE k # 0
  <2>1. out[k] \in ToSet(list) /\ out[k] # h /\ out[k].role = role
    BY <1>1, <1>3 DEF ToSet
  <2>2. ASSUME NEW x \in ToSet(list), NEW y \in ToSet(list), x # h, y # h,
               x.role = role, y.role = role
        PROVE  x = y
    BY <2>2, OnePerRole
  <2> QED
    BY <1>3, <2>1, <2>2
<1> QED
  BY <1>2, <1>3

\* One that stands alone hides them all.
LEMMA AloneFollows ==
  ASSUME GroupInv, Built, Standalones # {}
  PROVE  ProcessorsFoundUnlessOneStandsAlone
<1>1. /\ device.standalone = TRUE /\ device.usbDevices = usbDevices
      /\ usbDevices \in Seq({hub} \cup Children)
  BY BuiltAlone DEF GroupInv, IsGroup
<1>2. /\ getDisplayUSBDevice(device) = 0 /\ getFPGAUSBDevice(device) = 0
      /\ getHubUSBDevice(device) = 0 /\ getDebugProbeUSBDevice(device) = 0
      /\ getESP32USBDevice(device) = 0
  BY <1>1 DEF getDisplayUSBDevice, getFPGAUSBDevice, getHubUSBDevice, getDebugProbeUSBDevice,
              getESP32USBDevice
<1>3. getMainUSBDevice(device) =
        IF usbDevices # <<>> /\ isStandAloneDevice(usbDevices[1].prod) THEN 1 ELSE 0
  BY <1>1 DEF getMainUSBDevice
<1>4. PICK dev : dev \in Standalones
  OBVIOUS
<1>5. PICK S : usbDevices \in Seq(S)
  BY <1>1
<1>6. \E i \in DOMAIN usbDevices : usbDevices[i] = dev
  BY <1>4 DEF Standalones, Gathered, ToSet
<1>7. usbDevices # <<>> /\ 1 \in DOMAIN usbDevices /\ Head(usbDevices) = usbDevices[1]
  BY <1>5, <1>6
<1>8. PICK x : x = usbDevices[1]
  OBVIOUS
<1>9. x \in Gathered
  BY <1>7, <1>8 DEF Gathered, ToSet
<1>10. Standalones \cap {Head(usbDevices)} = IF isStandAloneDevice(x.prod) THEN {x} ELSE {}
  BY <1>7, <1>8, <1>9 DEF Standalones
<1>11. Got(getMainUSBDevice(device)) = IF isStandAloneDevice(x.prod) THEN {x} ELSE {}
  <2>1. PICK k : k = getMainUSBDevice(device)
    OBVIOUS
  <2>2. k = IF isStandAloneDevice(x.prod) THEN 1 ELSE 0
    BY <1>3, <1>7, <1>8, <2>1
  <2>3. Got(k) = IF k = 0 THEN {} ELSE {usbDevices[k]}
    BY <1>1 DEF Got
  <2>4. CASE isStandAloneDevice(x.prod)
    BY <1>8, <2>1, <2>2, <2>3, <2>4
  <2>5. CASE ~isStandAloneDevice(x.prod)
    BY <2>1, <2>2, <2>3, <2>5
  <2> QED
    BY <2>4, <2>5
<1> QED
  BY <1>1, <1>2, <1>10, <1>11 DEF ProcessorsFoundUnlessOneStandsAlone

LEMMA RolesFollow ==
  ASSUME GroupInv
  PROVE  ProcessorsFoundUnlessOneStandsAlone
<1>0. CASE Built /\ Standalones # {}
  BY <1>0, AloneFollows
<1> SUFFICES ASSUME Built, Standalones = {}
             PROVE  ProcessorsFoundUnlessOneStandsAlone
  BY <1>0 DEF ProcessorsFoundUnlessOneStandsAlone
<1>1. /\ IsGroup(hub, usbDevices) /\ \E i \in DOMAIN usbDevices : usbDevices[i] = hub
      /\ device.usbDevices = SortUSBDevices(usbDevices) /\ device.standalone = FALSE
  <2>1. PICK type, serial, id : device = DeviceOf(usbDevices, type, serial, id)
    BY BuiltDevice
  <2>2. device.usbDevices = SortUSBDevices(usbDevices) /\ device.standalone = FALSE
    BY <2>1 DEF DeviceOf
  <2>3. IsGroup(hub, usbDevices) /\ \E i \in DOMAIN usbDevices : usbDevices[i] = hub
    BY BuiltDevice
  <2> QED
    BY <2>2, <2>3
<1>2. PICK out : out = SortUSBDevices(usbDevices)
  OBVIOUS
<1>3. PICK S : S = {hub} \cup Children
  OBVIOUS
<1>4. /\ out \in Seq(S) /\ device.usbDevices = out
      /\ ToSet(out) = Gathered
      /\ \A i \in DOMAIN out : IsAHub(out[i]) <=> out[i] = hub
  <2>1. IsGroup(hub, usbDevices)
    BY <1>1
  <2>2. /\ out \in Seq(S) /\ ToSet(out) = ToSet(usbDevices)
        /\ \A i \in DOMAIN out : IsAHub(out[i]) <=> out[i] = hub
    BY <1>2, <1>3, <2>1, SortedGroup
  <2> QED
    BY <1>1, <1>2, <2>2 DEF Gathered
<1> DEFINE PlainChildren == {c \in Children : ~isStandAloneDevice(c.prod)}
<1>5. \A i \in DOMAIN out : out[i] = hub \/ (out[i] # hub /\ out[i] \in PlainChildren)
  <2>1. \A i \in DOMAIN out : out[i] \in S
    BY <1>4
  <2>2. \A i \in DOMAIN out : out[i] \in Gathered
    BY <1>4 DEF ToSet
  <2>3. \A i \in DOMAIN out : ~isStandAloneDevice(out[i].prod)
    BY <2>2 DEF Standalones
  <2> QED
    BY <1>3, <2>1, <2>3
<1> HIDE DEF PlainChildren
<1>6. IsAHub(hub) /\ \A location : ~AtPort(hub, location)
  BY <1>1, GroupIsGatherable DEF IsAHub, AtPort
<1>7. ASSUME NEW role \in Processors, NEW k,
             \/ k = 0 /\ \A i \in DOMAIN out : out[i] # hub => out[i].role # role
             \/ k # 0 /\ k \in DOMAIN out /\ out[k] # hub /\ out[k].role = role
      PROVE  Got(k) = InRole(role)
  <2>1. (IF k = 0 THEN {} ELSE {out[k]}) = {dev \in ToSet(usbDevices) \ {hub} : dev.role = role}
    BY <1>1, <1>2, <1>7, GotIsRole
  <2> QED
    BY <1>4, <2>1 DEF Got, InRole, Gathered
<1>8. ASSUME NEW role \in Processors, NEW kind, NEW location, kind # "Hub",
             \A c \in PlainChildren : c.kind = kind \/ AtPort(c, location) <=> c.role = role
      PROVE  Got(ByKindElseLocation(device, kind, location)) = InRole(role)
  <2>1. PICK k : k = ByKindElseLocation(device, kind, location)
    OBVIOUS
  <2>2. \/ k = 0 /\ \A i \in DOMAIN out : out[i].kind # kind /\ ~AtPort(out[i], location)
        \/ k # 0 /\ k \in DOMAIN out /\ (out[k].kind = kind \/ AtPort(out[k], location))
    <3>1. Finds(out, kind, location, k)
      BY <1>4, <2>1, ByKindElseLocationIs
    <3> QED
      BY <3>1 DEF Finds
  <2>3. hub.kind # kind /\ ~AtPort(hub, location)
    BY <1>6, <1>8 DEF IsAHub
  <2>4. \/ k = 0 /\ \A i \in DOMAIN out : out[i] # hub => out[i].role # role
        \/ k # 0 /\ k \in DOMAIN out /\ out[k] # hub /\ out[k].role = role
    BY <1>5, <1>8, <2>2, <2>3
  <2> QED
    BY <1>7, <2>1, <2>4
<1>9. ASSUME NEW role \in Processors, NEW kind, kind # "Hub",
             \A c \in PlainChildren : c.kind = kind <=> c.role = role
      PROVE  Got(FirstOfKind(device.usbDevices, kind)) = InRole(role)
  <2>1. PICK k : k = FirstOfKind(out, kind)
    OBVIOUS
  <2>2. \/ k = 0 /\ \A i \in DOMAIN out : out[i].kind # kind
        \/ k # 0 /\ k \in DOMAIN out /\ out[k].kind = kind
    BY <1>4, <2>1, FirstOfKindIs
  <2>3. hub.kind # kind
    BY <1>6, <1>9 DEF IsAHub
  <2>4. \/ k = 0 /\ \A i \in DOMAIN out : out[i] # hub => out[i].role # role
        \/ k # 0 /\ k \in DOMAIN out /\ out[k] # hub /\ out[k].role = role
    BY <1>5, <1>9, <2>2, <2>3
  <2> QED
    BY <1>4, <1>7, <2>1, <2>4
<1>10. Got(getMainUSBDevice(device)) = InRole("main")
  <2>1. \A c \in PlainChildren : c.kind = "SerialMain" \/ AtPort(c, MainLocation) <=> c.role = "main"
    BY KindTellsRole DEF PlainChildren
  <2>2. "main" \in Processors
    BY DEF Processors
  <2> QED
    BY <1>1, <1>8, <2>1, <2>2 DEF getMainUSBDevice
<1>11. Got(getDisplayUSBDevice(device)) = InRole("display")
  <2>1. \A c \in PlainChildren :
          c.kind = "SerialDisplay" \/ AtPort(c, DisplayLocation) <=> c.role = "display"
    BY KindTellsRole DEF PlainChildren
  <2>2. "display" \in Processors
    BY DEF Processors
  <2> QED
    BY <1>1, <1>8, <2>1, <2>2 DEF getDisplayUSBDevice
<1>12. Got(getFPGAUSBDevice(device)) = InRole("fpga")
  <2>1. \A c \in PlainChildren : c.kind = "FTDI" \/ AtPort(c, FPGALocation) <=> c.role = "fpga"
    BY KindTellsRole DEF PlainChildren
  <2>2. "fpga" \in Processors
    BY DEF Processors
  <2> QED
    BY <1>1, <1>8, <2>1, <2>2 DEF getFPGAUSBDevice
<1>13. Got(getDebugProbeUSBDevice(device)) = InRole("probe")
  <2>1. \A c \in PlainChildren : c.kind = "DebugProbe" <=> c.role = "probe"
    BY KindTellsRole DEF PlainChildren
  <2>2. "probe" \in Processors
    BY DEF Processors
  <2> QED
    BY <1>1, <1>9, <2>1, <2>2 DEF getDebugProbeUSBDevice
<1>14. Got(getESP32USBDevice(device)) = InRole("esp32")
  <2>1. \A c \in PlainChildren : c.kind = "ESP32" <=> c.role = "esp32"
    BY KindTellsRole DEF PlainChildren
  <2>2. "esp32" \in Processors
    BY DEF Processors
  <2> QED
    BY <1>1, <1>9, <2>1, <2>2 DEF getESP32USBDevice
<1>15. Got(getHubUSBDevice(device)) = {hub}
  <2>1. PICK k : k = FirstOfKind(out, "Hub")
    OBVIOUS
  <2>2. hub \in ToSet(out)
    BY <1>1, <1>4 DEF Gathered, ToSet
  <2>3. PICK i \in DOMAIN out : out[i] = hub
    BY <2>2 DEF ToSet
  <2>4. \/ k = 0 /\ \A j \in DOMAIN out : out[j].kind # "Hub"
        \/ k # 0 /\ k \in DOMAIN out /\ out[k].kind = "Hub"
    BY <1>4, <2>1, FirstOfKindIs
  <2>5. out[i].kind = "Hub"
    BY <1>6, <2>3 DEF IsAHub
  <2>6. k # 0 /\ out[k] = hub
    BY <1>4, <2>4, <2>5 DEF IsAHub
  <2> QED
    BY <1>1, <1>4, <2>1, <2>6 DEF getHubUSBDevice, Got
<1> QED
  BY <1>10, <1>11, <1>12, <1>13, <1>14, <1>15 DEF ProcessorsFoundUnlessOneStandsAlone

(* For any set of devices wired as RolesAssumption says and any order they   *)
(* are found in: while none of them stands alone, each getter returns        *)
(* exactly the processor it is named for (fwfinder.cpp:315, 327, 365, 400);  *)
(* once one does, a processor in the RP2350's bootloader or a badge, none    *)
(* is found but what stands alone at the head of the list (310).             *)
THEOREM ProcessorsFound == Spec => []ProcessorsFoundUnlessOneStandsAlone
<1>1. GroupInv => ProcessorsFoundUnlessOneStandsAlone
  BY RolesFollow
<1> QED
  BY <1>1, GroupInvariance, PTL

-----------------------------------------------------------------------------
(* The serial. *)

LEMMA SerialFollows ==
  ASSUME GroupInv
  PROVE  SerialIsTheUnits
<1> DEFINE readable == {dev \in Gathered :
                          /\ dev.role \in {"hub", "fpga", "main", "display"}
                          /\ dev.serial # ""}
           muteFTDI == \E dev \in Gathered : dev.prod = "FTDI" /\ dev.serial = ""
           WantedAlone == \E dev \in Standalones :
                            IF device = BuildError
                            THEN dev.name = "" \/ dev.serial = ""
                            ELSE dev.serial = device.serial
           Wanted == IF hub.prod = "FW2Hub"
                     THEN IF readable = {}
                          THEN device = BuildError
                          ELSE device # BuildError /\ \E dev \in readable : device.serial = dev.serial
                     ELSE (device = BuildError) = muteFTDI
<1>0. CASE device # NotBuilt /\ Standalones # {}
  <2>1. device = fromUSBDevices(usbDevices) /\ IsGroup(hub, usbDevices) /\ ~Plain(usbDevices)
    BY <1>0, StandalonesAre DEF GroupInv
  <2>2. PICK i \in DOMAIN usbDevices : \E type \in DeviceType : \E id :
          /\ isStandAloneDevice(usbDevices[i].prod)
          /\ fromUSBDevices(usbDevices) =
               IF usbDevices[i].name = "" \/ usbDevices[i].serial = ""
               THEN BuildError
               ELSE DeviceRecord(type, usbDevices[i].name, usbDevices[i].serial, id, TRUE, usbDevices)
    BY <2>1, StandaloneMakes
  <2>3. PICK dev : dev = usbDevices[i]
    OBVIOUS
  <2>4. PICK type, id :
          device = IF dev.name = "" \/ dev.serial = "" THEN BuildError
                   ELSE DeviceRecord(type, dev.name, dev.serial, id, TRUE, usbDevices)
    BY <2>1, <2>2, <2>3
  <2>5. DeviceRecord(type, dev.name, dev.serial, id, TRUE, usbDevices) # BuildError
    BY DeviceIsNoError
  <2>6. DeviceRecord(type, dev.name, dev.serial, id, TRUE, usbDevices).serial = dev.serial
    BY DEF DeviceRecord
  <2>7. dev \in Standalones
    BY <2>2, <2>3, StandalonesAre
  <2>8. WantedAlone
    BY <2>4, <2>5, <2>6, <2>7
  <2> QED
    BY <1>0, <2>8 DEF SerialIsTheUnits
<1> SUFFICES ASSUME device # NotBuilt, Standalones = {}
             PROVE  Wanted
  BY <1>0 DEF SerialIsTheUnits
<1>1. /\ IsGroup(hub, usbDevices) /\ hub \in Gathered
      /\ device = fromUSBDevices(usbDevices)
  BY DEF GroupInv
<1>2. PICK type, serial, id :
        /\ IsUnitSerial(hub, usbDevices, serial)
        /\ device = IF serial = "" THEN BuildError ELSE DeviceOf(usbDevices, type, serial, id)
  <2>1. \E i \in DOMAIN usbDevices : usbDevices[i] = hub
    BY <1>1 DEF Gathered, ToSet
  <2>2. PICK type \in {"FreeWili", "FreeWili2"} : \E serial, id :
          /\ IsUnitSerial(hub, usbDevices, serial)
          /\ fromUSBDevices(usbDevices) =
               IF serial = "" THEN BuildError ELSE DeviceOf(usbDevices, type, serial, id)
    <3>1. Plain(usbDevices)
      BY StandalonesAre
    <3> QED
      BY <1>1, <2>1, <3>1, GroupMakes
  <2> QED
    BY <1>1, <2>2
<1>3. /\ serial = "" => device = BuildError
      /\ serial # "" => device # BuildError /\ device.serial = serial
  <2>1. DeviceOf(usbDevices, type, serial, id) # BuildError
    BY DeviceOrNot DEF DeviceOf
  <2>2. DeviceOf(usbDevices, type, serial, id).serial = serial
    BY DEF DeviceOf
  <2> QED
    BY <1>2, <2>1, <2>2
<1>4. /\ hub.role = "hub" /\ IsAHub(hub) /\ is_freewili_hub(hub.prod)
      /\ usbDevices \in Seq({hub} \cup Children)
  BY <1>1, GroupIsGatherable
<1>5. \A i \in DOMAIN usbDevices : usbDevices[i] \in Gathered
  BY DEF Gathered, ToSet
<1>6. ASSUME NEW dev \in Gathered
      PROVE  /\ \E i \in DOMAIN usbDevices : usbDevices[i] = dev
             /\ dev # hub => dev \in Children /\ dev.hub = hub.prod
             /\ ~isStandAloneDevice(dev.prod)
  <2>1. PICK i \in DOMAIN usbDevices : usbDevices[i] = dev
    BY DEF Gathered, ToSet
  <2>2. dev # hub => dev \in Children
    BY <1>1, <2>1, MemberOfGroup
  <2>3. dev # hub => dev.hub = hub.prod
    BY <1>1, <2>1 DEF IsGroup
  <2>4. ~isStandAloneDevice(dev.prod)
    BY DEF Standalones
  <2> QED
    BY <2>1, <2>2, <2>3, <2>4
<1>7. hub.kind = "Hub" /\ hub.prod # "FTDI"
  BY <1>4 DEF IsAHub, is_freewili_hub, HubProduct
<1>8. CASE hub.prod = "FW2Hub"
  <2>1. serial = IF hub.serial # "" THEN hub.serial ELSE FallbackSerial(usbDevices)
    BY <1>2, <1>8 DEF IsUnitSerial
  <2>2. ASSUME NEW dev \in Gathered
        PROVE  dev.role \in {"fpga", "main", "display"} <=> dev.kind \in CarrierKinds
    <3>1. CASE dev = hub
      BY <1>4, <1>7, <3>1 DEF CarrierKinds
    <3>2. CASE dev # hub
      <4>1. dev \in Children /\ dev.hub = "FW2Hub" /\ ~isStandAloneDevice(dev.prod)
        BY <1>6, <1>8, <3>2
      <4>2. /\ dev.kind = "SerialMain" <=> dev.role = "main"
            /\ dev.kind = "SerialDisplay" <=> dev.role = "display"
            /\ dev.kind = "FTDI" <=> dev.role = "fpga"
        BY <4>1, KindTellsRole
      <4> QED
        BY <4>2 DEF CarrierKinds
    <3> QED
      BY <3>1, <3>2
  <2>3. ASSUME NEW dev \in Gathered, dev.role = "hub"
        PROVE  dev = hub
    BY <1>6, <2>3, RoleTellsPort
  <2>4. PICK fallback : fallback = FallbackSerial(usbDevices)
    OBVIOUS
  <2>5. \/ /\ fallback = ""
           /\ \A i \in DOMAIN usbDevices :
                usbDevices[i].kind \in CarrierKinds => usbDevices[i].serial = ""
        \/ /\ fallback # ""
           /\ \E i \in DOMAIN usbDevices : /\ usbDevices[i].kind \in CarrierKinds
                                          /\ fallback = usbDevices[i].serial
    BY <1>4, <2>4, FallbackSerialIs
  <2>6. CASE readable = {}
    <3>1. hub.serial = ""
      BY <1>1, <1>4, <2>6
    <3>2. fallback = ""
      BY <1>5, <2>2, <2>5, <2>6
    <3> QED
      BY <1>3, <1>8, <2>1, <2>4, <2>6, <3>1, <3>2
  <2>7. CASE readable # {}
    <3>1. CASE hub.serial # ""
      <4>1. hub \in readable
        BY <1>1, <1>4, <3>1
      <4> QED
        BY <1>3, <1>8, <2>1, <2>7, <3>1, <4>1
    <3>2. CASE hub.serial = ""
      <4>1. PICK dev \in readable : TRUE
        BY <2>7
      <4>2. dev.kind \in CarrierKinds /\ dev.serial # "" /\ dev \in Gathered
        BY <2>2, <2>3, <3>2, <4>1
      <4>3. PICK i \in DOMAIN usbDevices : usbDevices[i] = dev
        BY <1>6, <4>2
      <4>4. PICK j \in DOMAIN usbDevices : /\ usbDevices[j].kind \in CarrierKinds
                                          /\ fallback = usbDevices[j].serial /\ fallback # ""
        BY <2>5, <4>2, <4>3
      <4>5. usbDevices[j] \in readable
        BY <1>5, <2>2, <4>4
      <4>6. serial = fallback
        BY <2>1, <2>4, <3>2
      <4> QED
        BY <1>3, <1>8, <2>7, <4>4, <4>5, <4>6
    <3> QED
      BY <3>1, <3>2
  <2> QED
    BY <2>6, <2>7
<1>9. CASE hub.prod # "FW2Hub"
  <2>1. PICK ftdi : ftdi = FirstOfKind(usbDevices, "FTDI")
    OBVIOUS
  <2>2. serial = IF ftdi # 0 THEN usbDevices[ftdi].serial ELSE "Unknown"
    BY <1>2, <1>9, <2>1 DEF IsUnitSerial
  <2>3. \/ ftdi = 0 /\ \A i \in DOMAIN usbDevices : usbDevices[i].kind # "FTDI"
        \/ ftdi # 0 /\ ftdi \in DOMAIN usbDevices /\ usbDevices[ftdi].kind = "FTDI"
    BY <1>4, <2>1, FirstOfKindIs
  <2>4. ASSUME NEW dev \in Gathered
        PROVE  /\ dev.prod = "FTDI" <=> dev.kind = "FTDI"
               /\ dev.prod = "FTDI" => dev # hub /\ dev.role = "fpga"
    <3>1. CASE dev = hub
      BY <1>7, <3>1
    <3>2. CASE dev # hub
      <4>1. dev \in Children /\ ~isStandAloneDevice(dev.prod)
        BY <1>6, <3>2
      <4>2. dev.kind = "FTDI" <=> dev.role = "fpga"
        BY <4>1, KindTellsRole
      <4>3. dev.prod = "FTDI" <=> dev.kind = "FTDI"
        BY <4>1, KindOfChild
      <4> QED
        BY <3>2, <4>2, <4>3
    <3> QED
      BY <3>1, <3>2
  <2>5. CASE ftdi = 0
    <3>1. ~muteFTDI
      BY <1>6, <2>3, <2>4, <2>5
    <3>2. device # BuildError
      BY <1>3, <2>2, <2>5
    <3> QED
      BY <1>9, <3>1, <3>2
  <2>6. CASE ftdi # 0
    <3>1. PICK chip \in Gathered : chip = usbDevices[ftdi]
      BY <1>5, <2>3, <2>6
    <3>2. chip.kind = "FTDI" /\ serial = chip.serial
      BY <2>2, <2>3, <2>6, <3>1
    <3>3. chip.prod = "FTDI" /\ chip # hub /\ chip.role = "fpga"
      BY <2>4, <3>2
    <3>4. ASSUME NEW dev \in Gathered, dev.prod = "FTDI"
          PROVE  dev = chip
      <4>1. dev # hub /\ dev.role = "fpga" /\ "fpga" \in Processors
        BY <2>4, <3>4 DEF Processors
      <4> QED
        BY <1>1, <3>3, <4>1, OnePerRole DEF Gathered
    <3>5. muteFTDI <=> chip.serial = ""
      BY <3>3, <3>4
    <3>6. device = BuildError <=> chip.serial = ""
      BY <1>3, <3>2
    <3> QED
      BY <1>9, <3>5, <3>6
  <2> QED
    BY <2>5, <2>6
<1> QED
  BY <1>8, <1>9

(* For any set of devices wired as RolesAssumption says and any order they   *)
(* are found in: while none of them stands alone, a FREE-WILi2 gets the      *)
(* serial of its hub or of a device that carries the unit's, and is dropped  *)
(* only when none of them can be read, and a FREE-WILi is dropped exactly    *)
(* when its FTDI chip is mute (fwfinder.cpp:215-263); one that stands alone  *)
(* gives its own serial, and the unit is dropped when it has none (193).     *)
THEOREM UnitSerial == Spec => []SerialIsTheUnits
<1>1. GroupInv => SerialIsTheUnits
  BY SerialFollows
<1> QED
  BY <1>1, GroupInvariance, PTL
=============================================================================
