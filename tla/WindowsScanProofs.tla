-------------------------- MODULE WindowsScanProofs --------------------------
(***************************************************************************)
(* What can fail a scan on Windows and what it reports, for any            *)
(* controllers, devices and changes while it runs.                         *)
(*                                                                         *)
(* The first part, with the invariant WInv, is about what the list of      *)
(* devices of the FreeWili pass knows: at first everything that is         *)
(* attached, each device with its driver key if it has its driver.  A      *)
(* device that leaves stays in the list but is not live; one that arrives  *)
(* is missing from it, and so is the key of one that gets its driver.      *)
(*                                                                         *)
(* The second, with GInv, is about what the passes gather: what was read   *)
(* at a place stays true until the place changes, a hub's ports are asked  *)
(* in order, and no hub and no badge's node is visited twice.              *)
(***************************************************************************)
EXTENDS WindowsScan, OperatorProofs

-----------------------------------------------------------------------------
(* What the list knows. *)

\* The device, or it once it has its driver.
BoundLater(dev) == {dev, [dev EXCEPT !.bound = TRUE]}

\* A live record is of a device that is still attached, perhaps with its driver since.
LiveIsAttached(r) == r.live => r.path \in DOMAIN tree /\ tree[r.path] \in BoundLater(r.dev)

\* The device at a place is in the pass's list, and its driver key is.
IsListed(place) == ByInstanceId(place, tree[place]) # {}

KeyIsListed(place) == ByDriverKey(place, tree[place]) # {}

OnFreeWiliPort(place) == Len(place) > 1 /\ is_freewili_hub(tree[Front(place)].prod)

TreeInv ==
  /\ DOMAIN tree \subseteq Places
  /\ \A p \in DOMAIN tree : Len(p) = 1 \/ Front(p) \in DOMAIN tree
  /\ \A p \in DOMAIN tree : tree[p] \in Attachable

RecordsInv ==
  /\ \A r \in devices \cup todo \cup hub : r \in Records /\ LiveIsAttached(r)
  /\ pc \in {"idle", "reading standalone", "reading freewilis"} => todo = {}
  /\ pc = "standalone" => \A r \in todo : isStandAloneDevice(r.dev.prod)
  /\ pc \in {"hubs", "opening", "ports"} =>
       \A r \in todo \cup hub : is_freewili_hub(r.dev.prod)
  /\ IF pc \in {"opening", "ports"} THEN \E h \in hub : hub = {h} ELSE hub = {}

LateInv ==
  InFreeWiliPass =>
    /\ "left" \notin late => \A r \in devices \cup todo \cup hub : r.live
    /\ late \cap {"left", "new key"} = {} =>
         \A p \in DOMAIN tree : OnFreeWiliPort(p) /\ tree[p].bound => KeyIsListed(p)
    /\ "hub arrived" \notin late =>
         \A p \in DOMAIN tree : is_freewili_hub(tree[p].prod) => IsListed(p)

ScanInv ==
  /\ pc \in {"idle", "reading standalone", "standalone", "reading freewilis", "hubs", "opening",
             "ports"}
  /\ port \in Nat
  /\ pc # "idle" => result = NoResult
  /\ FailsOnlyForAReason

WInv == TreeInv /\ RecordsInv /\ LateInv /\ ScanInv

-----------------------------------------------------------------------------
(* Places. *)

PathElement == Controllers \cup Nat

LEMMA PlacesArePaths ==
  ASSUME NEW p \in Places
  PROVE  p \in Seq(PathElement) /\ Len(p) \in Nat \ {0}
<1>1. CASE p \in {<<c>> : c \in Controllers}
  <2>1. PICK c \in Controllers : p = <<c>>
    BY <1>1
  <2> QED
    BY <2>1 DEF PathElement
<1>2. CASE p \in {slot.path : slot \in Slots}
  <2>1. PICK slot \in Slots : p = slot.path
    BY <1>2
  <2>2. p \in Seq(PathElement) /\ Len(p) > 1
    BY <2>1, SlotsAssumption DEF SlotsAssumption, PathElement
  <2> QED
    BY <2>2
<1> QED
  BY <1>1, <1>2 DEF Places

-----------------------------------------------------------------------------
(* The tree and the records. *)

NewDev(slot) == [f \in DOMAIN RootHub |-> slot[f]]

\* A device with its driver.
WithDriver(dev) == [dev EXCEPT !.bound = TRUE]

LEMMA NewDevIs ==
  ASSUME NEW slot \in Slots
  PROVE  /\ DOMAIN NewDev(slot) = {"prod", "serial", "parts", "bound"}
         /\ NewDev(slot).prod = slot.prod /\ NewDev(slot).serial = slot.serial
         /\ NewDev(slot).parts = slot.parts /\ NewDev(slot).bound = slot.bound
<1>1. DOMAIN RootHub = {"prod", "serial", "parts", "bound"}
  BY DEF RootHub
<1> QED
  BY <1>1 DEF NewDev

LEMMA WithDriverIs ==
  ASSUME NEW dev, DOMAIN dev = {"prod", "serial", "parts", "bound"},
         dev = [f \in DOMAIN dev |-> dev[f]], dev.bound \in BOOLEAN
  PROVE  /\ DOMAIN WithDriver(dev) = {"prod", "serial", "parts", "bound"}
         /\ WithDriver(dev).prod = dev.prod /\ WithDriver(dev).serial = dev.serial
         /\ WithDriver(dev).parts = dev.parts /\ WithDriver(dev).bound = TRUE
         /\ WithDriver(WithDriver(dev)) = WithDriver(dev)
         /\ WithDriver(dev) = [f \in DOMAIN WithDriver(dev) |-> WithDriver(dev)[f]]
         /\ dev.bound => WithDriver(dev) = dev
<1>1. WithDriver(dev) = [f \in DOMAIN dev |-> IF f = "bound" THEN TRUE ELSE dev[f]]
  BY DEF WithDriver
<1>2. PICK w : w = WithDriver(dev)
  OBVIOUS
<1>3. /\ DOMAIN w = {"prod", "serial", "parts", "bound"}
      /\ w.prod = dev.prod /\ w.serial = dev.serial /\ w.parts = dev.parts /\ w.bound = TRUE
      /\ w = [f \in DOMAIN w |-> w[f]]
  BY <1>1, <1>2
<1>4. WithDriver(w) = [f \in DOMAIN w |-> IF f = "bound" THEN TRUE ELSE w[f]]
  BY DEF WithDriver
<1>5. WithDriver(w) = w
  BY <1>3, <1>4
<1>6. ASSUME dev.bound
      PROVE  w = dev
  <2>1. dev.bound = TRUE
    BY <1>6
  <2>2. \A f \in DOMAIN dev : w[f] = dev[f]
    BY <1>1, <1>2, <2>1
  <2> QED
    BY <1>3, <2>2
<1> QED
  BY <1>2, <1>3, <1>5, <1>6

LEMMA AttachableAre ==
  Attachable = {RootHub} \cup UNION {{NewDev(slot), WithDriver(NewDev(slot))} : slot \in Slots}
BY DEF Attachable, NewDev, WithDriver

\* What is attached.
LEMMA AttachableIs ==
  ASSUME NEW dev \in Attachable
  PROVE  /\ DOMAIN dev = {"prod", "serial", "parts", "bound"}
         /\ dev = [f \in DOMAIN dev |-> dev[f]] /\ dev.bound \in BOOLEAN
         /\ WithDriver(dev) \in Attachable
         /\ IsHub(dev.prod) => dev.bound
<1>1. CASE dev = RootHub
  <2>1. /\ DOMAIN dev = {"prod", "serial", "parts", "bound"}
        /\ dev = [f \in DOMAIN dev |-> dev[f]] /\ dev.bound = TRUE
    BY <1>1 DEF RootHub
  <2>2. WithDriver(dev) = dev
    BY <2>1, WithDriverIs
  <2> QED
    BY <2>1, <2>2
<1>2. ASSUME NEW slot \in Slots, dev \in {NewDev(slot), WithDriver(NewDev(slot))}
      PROVE  /\ DOMAIN dev = {"prod", "serial", "parts", "bound"}
             /\ dev = [f \in DOMAIN dev |-> dev[f]] /\ dev.bound \in BOOLEAN
             /\ WithDriver(dev) \in Attachable
             /\ IsHub(dev.prod) => dev.bound
  <2>1. slot.bound \in BOOLEAN /\ (IsHub(slot.prod) => slot.bound)
    BY SlotsAssumption DEF SlotsAssumption
  <2>2. PICK new : new = NewDev(slot)
    OBVIOUS
  <2>3. /\ DOMAIN new = {"prod", "serial", "parts", "bound"}
        /\ new.prod = slot.prod /\ new.bound = slot.bound
    BY <2>2, NewDevIs
  <2>4. new = [f \in DOMAIN new |-> new[f]]
    BY <2>2 DEF NewDev
  <2>5. WithDriver(new) \in Attachable
    BY <2>2, AttachableAre
  <2>6. /\ DOMAIN WithDriver(new) = {"prod", "serial", "parts", "bound"}
        /\ WithDriver(new).prod = new.prod /\ WithDriver(new).bound = TRUE
        /\ WithDriver(WithDriver(new)) = WithDriver(new)
        /\ WithDriver(new) = [f \in DOMAIN WithDriver(new) |-> WithDriver(new)[f]]
    BY <2>1, <2>3, <2>4, WithDriverIs
  <2>7. CASE dev = new
    BY <2>1, <2>3, <2>4, <2>5, <2>7
  <2>8. CASE dev = WithDriver(new)
    BY <2>5, <2>6, <2>8
  <2> QED
    BY <1>2, <2>2, <2>7, <2>8
<1>3. dev = RootHub \/ \E slot \in Slots : dev \in {NewDev(slot), WithDriver(NewDev(slot))}
  BY AttachableAre
<1> QED
  BY <1>1, <1>2, <1>3

\* What a driver leaves alone.
LEMMA BoundKeeps ==
  ASSUME NEW dev \in Attachable, NEW other \in BoundLater(dev)
  PROVE  /\ other \in Attachable /\ other.prod = dev.prod /\ other.serial = dev.serial
         /\ other.parts = dev.parts
         /\ dev.bound => other = dev
         /\ WithDriver(other) \in BoundLater(dev)
<1>1. /\ DOMAIN dev = {"prod", "serial", "parts", "bound"}
      /\ dev = [f \in DOMAIN dev |-> dev[f]] /\ dev.bound \in BOOLEAN
      /\ WithDriver(dev) \in Attachable
  BY AttachableIs
<1>2. other = dev \/ other = WithDriver(dev)
  BY DEF BoundLater, WithDriver
<1>3. /\ WithDriver(dev).prod = dev.prod /\ WithDriver(dev).serial = dev.serial
      /\ WithDriver(dev).parts = dev.parts
      /\ WithDriver(WithDriver(dev)) = WithDriver(dev)
      /\ dev.bound => WithDriver(dev) = dev
  BY <1>1, WithDriverIs
<1>4. WithDriver(dev) \in BoundLater(dev)
  BY DEF BoundLater, WithDriver
<1> QED
  BY <1>1, <1>2, <1>3, <1>4

LEMMA SameInstanceId ==
  ASSUME NEW path, NEW dev \in Attachable, NEW other \in BoundLater(dev)
  PROVE  InstanceId(path, other) = InstanceId(path, dev)
BY BoundKeeps DEF InstanceId

LEMMA PlugTree ==
  ASSUME NEW slot \in Slots, Plug(slot)
  PROVE  /\ DOMAIN tree' = DOMAIN tree \cup {slot.path}
         /\ \A p \in DOMAIN tree : tree'[p] = tree[p]
         /\ tree'[slot.path] = NewDev(slot)
         /\ slot.path \notin DOMAIN tree /\ Front(slot.path) \in DOMAIN tree
<1>1. /\ slot.path \notin DOMAIN tree /\ Front(slot.path) \in DOMAIN tree
      /\ tree' = [p \in DOMAIN tree \cup {slot.path} |->
                    IF p = slot.path THEN NewDev(slot) ELSE tree[p]]
  BY DEF Plug, NewDev
<1> QED
  BY <1>1

LEMMA UnplugTree ==
  ASSUME NEW path, Unplug(path)
  PROVE  /\ DOMAIN tree' = DOMAIN tree \ Subtree(path)
         /\ \A p \in DOMAIN tree' : tree'[p] = tree[p]
BY DEF Unplug, Restrict

LEMMA BindTree ==
  ASSUME TreeInv, NEW path \in DOMAIN tree, Bind(path)
  PROVE  /\ DOMAIN tree' = DOMAIN tree
         /\ \A p \in DOMAIN tree : tree'[p] \in BoundLater(tree[p])
         /\ \A p \in DOMAIN tree : p # path => tree'[p] = tree[p]
         /\ tree'[path].bound /\ ~tree[path].bound
<1>1. tree' = [tree EXCEPT ![path] = WithDriver(tree[path])] /\ ~tree[path].bound
  BY DEF Bind, WithDriver
<1>2. tree[path] \in Attachable
  BY DEF TreeInv
<1>3. WithDriver(tree[path]).bound
  <2>1. /\ DOMAIN tree[path] = {"prod", "serial", "parts", "bound"}
        /\ tree[path] = [f \in DOMAIN tree[path] |-> tree[path][f]]
        /\ tree[path].bound \in BOOLEAN
    BY <1>2, AttachableIs
  <2> QED
    BY <2>1, WithDriverIs
<1>4. /\ DOMAIN tree' = DOMAIN tree /\ tree'[path] = WithDriver(tree[path])
      /\ \A p \in DOMAIN tree : p # path => tree'[p] = tree[p]
  BY <1>1
<1>5. \A p \in DOMAIN tree : tree[p] \in BoundLater(tree[p])
  BY DEF BoundLater
<1>6. WithDriver(tree[path]) \in BoundLater(tree[path])
  BY DEF BoundLater, WithDriver
<1> QED
  BY <1>1, <1>3, <1>4, <1>5, <1>6

LEMMA DeadRecords ==
  ASSUME NEW records, records \subseteq Records, NEW gone, NEW r \in WithDead(records, gone)
  PROVE  /\ r \in Records
         /\ \E old \in records : /\ r.path = old.path /\ r.dev = old.dev /\ r.node = old.node
                                 /\ r.key = old.key /\ r.chain = old.chain
                                 /\ r.live = (old.live /\ old.path \notin gone)
<1>1. PICK old \in records : r = [old EXCEPT !.live = old.live /\ old.path \notin gone]
  BY DEF WithDead
<1>2. old \in Records
  OBVIOUS
<1>3. (old.live /\ old.path \notin gone) \in BOOLEAN
  BY <1>2 DEF Records
<1> QED
  BY <1>1, <1>2, <1>3 DEF Records

LEMMA RecordsStay ==
  ASSUME NEW records, NEW gone, NEW old \in records, records \subseteq Records
  PROVE  \E r \in WithDead(records, gone) : r.path = old.path /\ r.dev = old.dev
<1> DEFINE r == [old EXCEPT !.live = old.live /\ old.path \notin gone]
<1>1. r \in WithDead(records, gone)
  BY DEF WithDead
<1>2. r.path = old.path /\ r.dev = old.dev
  BY DEF Records
<1> QED
  BY <1>1, <1>2

\* What reading a list leaves of a record.
ReadAs(old, cut, keyless) ==
  [old EXCEPT !.chain = IF old \in cut THEN <<>> ELSE old.chain,
              !.key = old.key /\ old \notin keyless]

LEMMA ReadingsAre ==
  ASSUME NEW records, NEW read \in Readings(records)
  PROVE  \E cut, keyless : /\ \A r \in records : r.live => r \notin cut /\ r \notin keyless
                           /\ read = {ReadAs(old, cut, keyless) : old \in records}
<1> DEFINE dead == {r \in records : ~r.live}
<1>1. PICK cut \in SUBSET dead :
        read \in {PartlyRead(records, cut, keyless) : keyless \in SUBSET cut}
  BY DEF Readings
<1>2. PICK keyless \in SUBSET cut : read = PartlyRead(records, cut, keyless)
  BY <1>1
<1>3. read = {ReadAs(old, cut, keyless) : old \in records}
  BY <1>2 DEF PartlyRead, ReadAs
<1>4. \A r \in records : r.live => r \notin cut /\ r \notin keyless
  BY <1>1, <1>2
<1> QED
  BY <1>3, <1>4

LEMMA ReadAsIs ==
  ASSUME NEW old \in Records, NEW cut, NEW keyless, NEW r, r = ReadAs(old, cut, keyless)
  PROVE  /\ r \in Records /\ r.path = old.path /\ r.dev = old.dev /\ r.node = old.node
         /\ r.live = old.live /\ (r.key => old.key)
         /\ r.chain = old.chain \/ r.chain = <<>>
         /\ old \notin cut /\ old \notin keyless => r = old
<1>1. /\ DOMAIN old = {"path", "dev", "node", "live", "key", "chain"}
      /\ old.key \in BOOLEAN
  BY DEF Records
<1>2. (IF old \in cut THEN <<>> ELSE old.chain) \in {<<>>} \cup {usbPortChain(p) : p \in Places}
  BY DEF Records
<1>3. (old.key /\ old \notin keyless) \in BOOLEAN
  BY <1>1
<1>4. DOMAIN r = DOMAIN old /\ r.path = old.path /\ r.dev = old.dev /\ r.node = old.node
      /\ r.live = old.live /\ r.key = (old.key /\ old \notin keyless)
      /\ r.chain = IF old \in cut THEN <<>> ELSE old.chain
  BY <1>1 DEF ReadAs
<1>5. r \in Records
  BY <1>1, <1>2, <1>3 DEF ReadAs, Records
<1>6. ASSUME old \notin cut, old \notin keyless
      PROVE  r = old
  <2>1. r.key = old.key /\ r.chain = old.chain
    BY <1>1, <1>4, <1>6
  <2> QED
    BY <1>4, <1>5, <2>1 DEF Records
<1> QED
  BY <1>4, <1>5, <1>6

\* What a record that is read was before, and what becomes of one.
ReadFrom(r, old) ==
  /\ r \in Records /\ r.path = old.path /\ r.dev = old.dev /\ r.node = old.node
  /\ r.live = old.live /\ (r.key => old.key)
  /\ r.chain = old.chain \/ r.chain = <<>>
  /\ old.live => r = old

LEMMA ReadingsKeep ==
  ASSUME NEW records, records \subseteq Records, NEW read \in Readings(records)
  PROVE  /\ \A r \in read : \E old \in records : ReadFrom(r, old)
         /\ \A old \in records : \E r \in read : ReadFrom(r, old)
<1>1. PICK cut, keyless :
        /\ \A r \in records : r.live => r \notin cut /\ r \notin keyless
        /\ read = {ReadAs(old, cut, keyless) : old \in records}
  BY ReadingsAre
<1>2. ASSUME NEW old \in records
      PROVE  ReadFrom(ReadAs(old, cut, keyless), old)
  <2>1. PICK r : r = ReadAs(old, cut, keyless)
    OBVIOUS
  <2>2. old \in Records
    OBVIOUS
  <2>3. /\ r \in Records /\ r.path = old.path /\ r.dev = old.dev /\ r.node = old.node
        /\ r.live = old.live /\ (r.key => old.key)
        /\ r.chain = old.chain \/ r.chain = <<>>
        /\ old \notin cut /\ old \notin keyless => r = old
    BY <2>1, <2>2, ReadAsIs
  <2> QED
    BY <1>1, <2>1, <2>3 DEF ReadFrom
<1> QED
  BY <1>1, <1>2

\* A live record is read whole.
LEMMA ReadingsOfLive ==
  ASSUME NEW records, records \subseteq Records, \A r \in records : r.live,
         NEW read \in Readings(records)
  PROVE  read = records
<1>1. /\ \A r \in read : \E old \in records : r = old
      /\ \A old \in records : \E r \in read : r = old
  BY ReadingsKeep DEF ReadFrom
<1> QED
  BY <1>1

\* What a list may learn of a driver.
LEMMA BindRecords ==
  ASSUME devices \subseteq Records, NEW path, Bind(path)
  PROVE  /\ \A r \in devices' : \E old \in devices :
              /\ r \in Records /\ r.path = old.path /\ r.dev = old.dev /\ r.node = old.node
              /\ r.live = old.live /\ r.chain = old.chain
         /\ \A old \in devices : \E r \in devices' :
              r.path = old.path /\ r.dev = old.dev /\ (old.key => r.key)
<1>1. CASE devices' = devices
  BY <1>1
<1>2. CASE devices' = {[r EXCEPT !.key = r.key \/ (r.live /\ r.path = path)] : r \in devices}
  <2>1. ASSUME NEW old \in devices,
               NEW r, r = [old EXCEPT !.key = old.key \/ (old.live /\ old.path = path)]
        PROVE  /\ r \in Records /\ r.path = old.path /\ r.dev = old.dev /\ r.node = old.node
               /\ r.live = old.live /\ r.chain = old.chain /\ (old.key => r.key)
    <3>1. old \in Records
      OBVIOUS
    <3>2. (old.key \/ (old.live /\ old.path = path)) \in BOOLEAN
      BY <3>1 DEF Records
    <3> QED
      BY <2>1, <3>1, <3>2 DEF Records
  <2>2. \A r \in devices' : \E old \in devices :
          r = [old EXCEPT !.key = old.key \/ (old.live /\ old.path = path)]
    BY <1>2
  <2>3. \A old \in devices : \E r \in devices' :
          r = [old EXCEPT !.key = old.key \/ (old.live /\ old.path = path)]
    BY <1>2
  <2> QED
    BY <2>1, <2>2, <2>3
<1> QED
  BY <1>1, <1>2 DEF Bind

\* The outcomes differ.
LEMMA Outcomes ==
  /\ NoResult # ScanError /\ NoResult # Crashed /\ ScanError # Crashed
  /\ \A list : Devices(list) # ScanError /\ Devices(list) # Crashed
<1>1. /\ NoResult.is = "none" /\ ScanError.is = "error" /\ Crashed.is = "crash"
      /\ \A list : Devices(list).is = "devices"
  BY DEF NoResult, ScanError, Crashed, Devices
<1>2. /\ "none" # "error" /\ "none" # "crash" /\ "error" # "crash"
      /\ "devices" # "error" /\ "devices" # "crash"
  OBVIOUS
<1> QED
  BY <1>1, <1>2, Zenon

-----------------------------------------------------------------------------
(* What each step keeps. *)

LEMMA PlugStep ==
  ASSUME WInv, NEW slot \in Slots, Plug(slot)
  PROVE  WInv'
<1>1. /\ DOMAIN tree' = DOMAIN tree \cup {slot.path}
      /\ \A p \in DOMAIN tree : tree'[p] = tree[p]
      /\ tree'[slot.path] = NewDev(slot)
      /\ slot.path \notin DOMAIN tree /\ Front(slot.path) \in DOMAIN tree
  BY PlugTree
<1>2. UNCHANGED <<devices, todo, hub, pc, port>>
  BY DEF Plug, Changed, scanVars
<1>3. TreeInv'
  <2>1. slot.path \in Places
    BY DEF Places
  <2>2. NewDev(slot) \in Attachable
    BY AttachableAre
  <2> QED
    BY <1>1, <2>1, <2>2 DEF WInv, TreeInv
<1>4. RecordsInv'
  <2>1. \A r : LiveIsAttached(r) => LiveIsAttached(r)'
    BY <1>1 DEF LiveIsAttached
  <2> QED
    BY <1>2, <2>1 DEF WInv, RecordsInv
<1>5. LateInv'
  <2> SUFFICES ASSUME InFreeWiliPass
               PROVE  LateInv'
    BY <1>2 DEF LateInv, InFreeWiliPass
  <2>1. late' = late \cup Arrival(slot)
    BY DEF Plug, Changed, InFreeWiliPass
  <2>2. \A p \in DOMAIN tree : IsListed(p) => IsListed(p)'
    BY <1>1, <1>2 DEF IsListed, ByInstanceId
  <2>6. \A p \in DOMAIN tree : KeyIsListed(p) => KeyIsListed(p)'
    BY <1>1, <1>2 DEF KeyIsListed, ByDriverKey, ByInstanceId
  <2>3. "left" \notin late' => \A r \in devices' \cup todo' \cup hub' : r.live
    BY <1>2, <2>1 DEF WInv, LateInv
  <2>4. ASSUME late' \cap {"left", "new key"} = {}, NEW p \in DOMAIN tree', OnFreeWiliPort(p)',
               tree'[p].bound
        PROVE  KeyIsListed(p)'
    <3>1. "new key" \notin Arrival(slot)
      BY <2>1, <2>4
    <3>2. slot.bound => ~is_freewili_hub(tree[Front(slot.path)].prod)
      BY <3>1 DEF Arrival, NewKey
    <3>3. p # slot.path
      <4>1. tree'[slot.path].bound = slot.bound
        BY <1>1, NewDevIs
      <4> QED
        BY <1>1, <2>4, <3>2, <4>1 DEF OnFreeWiliPort
    <3>4. p \in DOMAIN tree /\ Front(p) \in DOMAIN tree
      <4>1. p \in DOMAIN tree /\ p \in Places
        BY <1>1, <3>3 DEF WInv, TreeInv
      <4>2. Len(p) # 1
        <5>1. Len(p) > 1
          BY <2>4 DEF OnFreeWiliPort
        <5>2. Len(p) \in Nat
          BY <4>1, PlacesArePaths
        <5>3. PICK n : n = Len(p)
          OBVIOUS
        <5>4. n # 1
          <6>1. n > 1 /\ n \in Nat
            BY <5>1, <5>2, <5>3
          <6> QED
            BY <6>1
        <5> QED
          BY <5>3, <5>4
      <4> QED
        BY <4>1, <4>2 DEF WInv, TreeInv
    <3>5. OnFreeWiliPort(p)
      BY <1>1, <2>4, <3>4 DEF OnFreeWiliPort
    <3>6. late \cap {"left", "new key"} = {}
      BY <2>1, <2>4
    <3>7. tree[p].bound
      BY <1>1, <2>4, <3>4
    <3>8. KeyIsListed(p)
      BY <3>4, <3>5, <3>6, <3>7 DEF WInv, LateInv
    <3> QED
      BY <2>6, <3>4, <3>8
  <2>5. ASSUME "hub arrived" \notin late', NEW p \in DOMAIN tree', is_freewili_hub(tree'[p].prod)
        PROVE  IsListed(p)'
    <3>1. ~is_freewili_hub(slot.prod)
      BY <2>1, <2>5 DEF Arrival
    <3>2. NewDev(slot).prod = slot.prod
      BY NewDevIs
    <3>3. p \in DOMAIN tree
      BY <1>1, <2>5, <3>1, <3>2
    <3> QED
      BY <1>1, <2>1, <2>2, <2>5, <3>3 DEF WInv, LateInv
  <2> QED
    BY <2>3, <2>4, <2>5 DEF LateInv
<1>6. ScanInv'
  <2>1. result' = result \/ result' = NoResult
    BY DEF Plug, Changed, scanVars
  <2>2. CASE pc = "idle"
    BY <1>2, <2>2, Outcomes DEF Plug, Changed, WInv, ScanInv, FailsOnlyForAReason
  <2>3. CASE pc # "idle"
    BY <1>2, <2>1, <2>3, Outcomes DEF WInv, ScanInv, FailsOnlyForAReason
  <2> QED
    BY <2>2, <2>3
<1> QED
  BY <1>3, <1>4, <1>5, <1>6 DEF WInv

LEMMA UnplugStep ==
  ASSUME WInv, NEW path \in DOMAIN tree, Unplug(path)
  PROVE  WInv'
<1> DEFINE gone == Subtree(path)
<1>1. /\ DOMAIN tree' = DOMAIN tree \ gone
      /\ \A p \in DOMAIN tree' : tree'[p] = tree[p]
  BY UnplugTree
<1>2. /\ devices' = WithDead(devices, gone) /\ todo' = WithDead(todo, gone)
      /\ hub' = WithDead(hub, gone)
      /\ UNCHANGED <<pc, port>>
  BY DEF Unplug, Changed, scanVars
<1>3. TreeInv'
  <2>1. DOMAIN tree' \subseteq Places /\ \A p \in DOMAIN tree' : tree'[p] \in Attachable
    BY <1>1 DEF WInv, TreeInv
  <2>2. ASSUME NEW p \in DOMAIN tree', Len(p) # 1
        PROVE  Front(p) \in DOMAIN tree'
    <3>1. p \in DOMAIN tree /\ p \in Places /\ path \in Places /\ Front(p) \in DOMAIN tree
      BY <1>1, <2>2 DEF WInv, TreeInv
    <3>2. p \in Seq(PathElement) /\ Len(p) \in Nat \ {0} /\ path \in Seq(PathElement)
      BY <3>1, PlacesArePaths
    <3>3. p \notin gone
      BY <1>1
    <3>4. ~IsPrefix(path, p)
      BY <3>1, <3>3 DEF Subtree
    <3>5. ~IsPrefix(path, Front(p))
      BY <3>2, <3>4, PrefixOfFront
    <3> QED
      BY <1>1, <3>1, <3>5 DEF Subtree
  <2> QED
    BY <2>1, <2>2 DEF TreeInv
<1>4. devices \subseteq Records /\ todo \subseteq Records /\ hub \subseteq Records
  BY DEF WInv, RecordsInv
<1>5. ASSUME NEW records, records \subseteq devices \cup todo \cup hub,
             NEW r \in WithDead(records, gone)
      PROVE  /\ r \in Records /\ LiveIsAttached(r)'
             /\ \E old \in records : r.dev = old.dev
  <2>1. records \subseteq Records
    BY <1>4, <1>5
  <2>2. PICK old \in records : /\ r \in Records /\ r.path = old.path /\ r.dev = old.dev
                               /\ r.live = (old.live /\ old.path \notin gone)
    BY <2>1, DeadRecords
  <2>3. LiveIsAttached(old)
    BY <1>5 DEF WInv, RecordsInv
  <2> HIDE DEF gone
  <2>4. LiveIsAttached(r)'
    <3> SUFFICES ASSUME r.live
                 PROVE  r.path \in DOMAIN tree' /\ tree'[r.path] \in BoundLater(r.dev)
      BY DEF LiveIsAttached
    <3>1. old.path \in DOMAIN tree /\ tree[old.path] \in BoundLater(old.dev) /\ old.path \notin gone
      BY <2>2, <2>3 DEF LiveIsAttached
    <3> QED
      BY <1>1, <2>2, <3>1
  <2> QED
    BY <2>2, <2>4
<1>6. RecordsInv'
  <2> HIDE DEF gone
  <2>1. \A r \in devices' \cup todo' \cup hub' : r \in Records /\ LiveIsAttached(r)'
    BY <1>2, <1>5
  <2>2. pc' \in {"idle", "reading standalone", "reading freewilis"} => todo' = {}
    BY <1>2 DEF WInv, RecordsInv, WithDead
  <2>3. pc' = "standalone" => \A r \in todo' : isStandAloneDevice(r.dev.prod)
    BY <1>2, <1>5 DEF WInv, RecordsInv
  <2>4. pc' \in {"hubs", "opening", "ports"} =>
          \A r \in todo' \cup hub' : is_freewili_hub(r.dev.prod)
    <3> SUFFICES ASSUME pc' \in {"hubs", "opening", "ports"}, NEW r \in todo' \cup hub'
                 PROVE  is_freewili_hub(r.dev.prod)
      OBVIOUS
    <3>1. \E old \in todo \cup hub : r.dev = old.dev
      <4>1. CASE r \in todo'
        BY <1>2, <1>5, <4>1
      <4>2. CASE r \in hub'
        BY <1>2, <1>5, <4>2
      <4> QED
        BY <4>1, <4>2
    <3> QED
      BY <1>2, <3>1 DEF WInv, RecordsInv
  <2>5. IF pc' \in {"opening", "ports"} THEN \E h \in hub' : hub' = {h} ELSE hub' = {}
    <3>1. CASE pc \in {"opening", "ports"}
      <4>1. PICK h : hub = {h}
        BY <3>1 DEF WInv, RecordsInv
      <4>2. hub' = {[h EXCEPT !.live = h.live /\ h.path \notin gone]}
        BY <1>2, <4>1 DEF WithDead
      <4> QED
        BY <1>2, <3>1, <4>2
    <3>2. CASE pc \notin {"opening", "ports"}
      BY <1>2, <3>2 DEF WInv, RecordsInv, WithDead
    <3> QED
      BY <3>1, <3>2
  <2> QED
    BY <2>1, <2>2, <2>3, <2>4, <2>5 DEF RecordsInv
<1>7. LateInv'
  <2> SUFFICES ASSUME InFreeWiliPass
               PROVE  LateInv'
    BY <1>2 DEF LateInv, InFreeWiliPass
  <2>1. late' = late \cup {"left"}
    BY DEF Unplug, Changed, InFreeWiliPass
  <2>2. ASSUME "hub arrived" \notin late', NEW p \in DOMAIN tree', is_freewili_hub(tree'[p].prod)
        PROVE  IsListed(p)'
    <3>1. IsListed(p)
      BY <1>1, <2>1, <2>2 DEF WInv, LateInv
    <3>2. PICK old \in devices : InstanceId(old.path, old.dev) = InstanceId(p, tree[p])
      BY <3>1 DEF IsListed, ByInstanceId
    <3>3. PICK r \in devices' : r.path = old.path /\ r.dev = old.dev
      BY <1>2, <1>4, RecordsStay
    <3> QED
      BY <1>1, <3>2, <3>3 DEF IsListed, ByInstanceId
  <2> QED
    BY <2>1, <2>2 DEF LateInv
<1>8. ScanInv'
  <2>1. CASE pc = "idle"
    BY <1>2, <2>1, Outcomes DEF Unplug, Changed, WInv, ScanInv, FailsOnlyForAReason
  <2>2. CASE pc # "idle"
    <3>1. result' = result
      BY <2>2 DEF Unplug, Changed, scanVars
    <3> QED
      BY <1>2, <2>2, <3>1, Outcomes DEF WInv, ScanInv, FailsOnlyForAReason
  <2> QED
    BY <2>1, <2>2
<1> QED
  BY <1>3, <1>6, <1>7, <1>8 DEF WInv

LEMMA BindStep ==
  ASSUME WInv, NEW path \in DOMAIN tree, Bind(path)
  PROVE  WInv'
<1>1. TreeInv /\ devices \subseteq Records /\ todo \subseteq Records /\ hub \subseteq Records
  BY DEF WInv, RecordsInv
<1>2. /\ DOMAIN tree' = DOMAIN tree
      /\ \A p \in DOMAIN tree : tree'[p] \in BoundLater(tree[p])
      /\ \A p \in DOMAIN tree : p # path => tree'[p] = tree[p]
      /\ tree'[path] = WithDriver(tree[path])
  <2>1. tree' = [tree EXCEPT ![path] = WithDriver(tree[path])]
    BY DEF Bind, WithDriver
  <2> QED
    BY <1>1, <2>1, BindTree
<1>3. /\ \A r \in devices' : \E old \in devices :
           /\ r \in Records /\ r.path = old.path /\ r.dev = old.dev /\ r.node = old.node
           /\ r.live = old.live /\ r.chain = old.chain
      /\ \A old \in devices : \E r \in devices' :
           r.path = old.path /\ r.dev = old.dev /\ (old.key => r.key)
  BY <1>1, BindRecords
<1>4. UNCHANGED <<todo, hub, pc, port>>
  BY DEF Bind, Changed, scanVars
<1>5. \A p \in DOMAIN tree : /\ tree[p] \in Attachable /\ tree'[p] \in Attachable
                            /\ tree'[p].prod = tree[p].prod
                            /\ InstanceId(p, tree'[p]) = InstanceId(p, tree[p])
  <2>1. ASSUME NEW p \in DOMAIN tree
        PROVE  /\ tree[p] \in Attachable /\ tree'[p] \in Attachable
               /\ tree'[p].prod = tree[p].prod
               /\ InstanceId(p, tree'[p]) = InstanceId(p, tree[p])
    <3>1. tree[p] \in Attachable /\ tree'[p] \in BoundLater(tree[p])
      BY <1>1, <1>2 DEF TreeInv
    <3> QED
      BY <3>1, BoundKeeps, SameInstanceId
  <2> QED
    BY <2>1
<1>6. TreeInv'
  BY <1>1, <1>2, <1>5 DEF TreeInv
<1>7. \A r \in Records : LiveIsAttached(r) => LiveIsAttached(r)'
  <2>1. ASSUME NEW r \in Records, r.path \in DOMAIN tree, tree[r.path] \in BoundLater(r.dev)
        PROVE  tree'[r.path] \in BoundLater(r.dev)
    <3>1. r.dev \in Attachable
      BY DEF Records
    <3>2. WithDriver(tree[r.path]) \in BoundLater(r.dev)
      BY <2>1, <3>1, BoundKeeps
    <3> QED
      BY <1>2, <2>1, <3>2
  <2> QED
    BY <1>2, <2>1 DEF LiveIsAttached
<1>8. RecordsInv'
  <2>1. \A r \in devices \cup todo \cup hub : LiveIsAttached(r)
    BY DEF WInv, RecordsInv
  <2>2. \A r \in devices' \cup todo' \cup hub' : r \in Records /\ LiveIsAttached(r)'
    <3>1. ASSUME NEW r \in devices'
          PROVE  r \in Records /\ LiveIsAttached(r)'
      <4>1. PICK old \in devices : /\ r \in Records /\ r.path = old.path /\ r.dev = old.dev
                                   /\ r.live = old.live
        BY <1>3
      <4>2. LiveIsAttached(old)'
        BY <1>1, <1>7, <2>1
      <4> QED
        BY <4>1, <4>2 DEF LiveIsAttached
    <3> QED
      BY <1>1, <1>4, <1>7, <2>1, <3>1
  <2> QED
    BY <1>4, <2>2 DEF WInv, RecordsInv
<1>9. LateInv'
  <2> SUFFICES ASSUME InFreeWiliPass
               PROVE  LateInv'
    BY <1>4 DEF LateInv, InFreeWiliPass
  <2>1. late' = late \cup NewKey(path)
    BY DEF Bind, Changed, InFreeWiliPass
  <2>2. "left" \notin late' => \A r \in devices' \cup todo' \cup hub' : r.live
    BY <1>3, <1>4, <2>1 DEF WInv, LateInv
  <2>3. \A p \in DOMAIN tree : IsListed(p) => IsListed(p)'
    BY <1>3, <1>5 DEF IsListed, ByInstanceId
  <2>4. \A p \in DOMAIN tree : KeyIsListed(p) => KeyIsListed(p)'
    BY <1>3, <1>5 DEF KeyIsListed, ByDriverKey, ByInstanceId
  <2>5. ASSUME late' \cap {"left", "new key"} = {}, NEW p \in DOMAIN tree', OnFreeWiliPort(p)',
               tree'[p].bound
        PROVE  KeyIsListed(p)'
    <3>1. p \in DOMAIN tree /\ Front(p) \in DOMAIN tree
      <4>1. p \in Places /\ p \in DOMAIN tree
        BY <1>1, <1>2 DEF TreeInv
      <4>2. Len(p) > 1
        BY <2>5 DEF OnFreeWiliPort
      <4>3. Len(p) # 1
        <5>1. PICK n : n = Len(p)
          OBVIOUS
        <5>2. n > 1 /\ n \in Nat
          BY <4>1, <4>2, <5>1, PlacesArePaths
        <5>3. n # 1
          BY <5>2
        <5> QED
          BY <5>1, <5>3
      <4> QED
        BY <1>1, <4>1, <4>3 DEF TreeInv
    <3>2. OnFreeWiliPort(p)
      BY <1>5, <2>5, <3>1 DEF OnFreeWiliPort
    <3>3. p # path
      <4>1. "new key" \notin NewKey(path)
        BY <2>1, <2>5
      <4> QED
        BY <3>2, <4>1 DEF NewKey, OnFreeWiliPort
    <3>4. tree[p].bound
      BY <1>2, <2>5, <3>1, <3>3
    <3>5. late \cap {"left", "new key"} = {}
      BY <2>1, <2>5
    <3> QED
      BY <2>4, <3>1, <3>2, <3>4, <3>5 DEF WInv, LateInv
  <2>6. ASSUME "hub arrived" \notin late', NEW p \in DOMAIN tree', is_freewili_hub(tree'[p].prod)
        PROVE  IsListed(p)'
    BY <1>2, <1>5, <2>1, <2>3, <2>6 DEF WInv, LateInv
  <2> QED
    BY <2>2, <2>5, <2>6 DEF LateInv
<1>10. ScanInv'
  <2>1. CASE pc = "idle"
    BY <1>4, <2>1, Outcomes DEF Bind, Changed, WInv, ScanInv, FailsOnlyForAReason
  <2>2. CASE pc # "idle"
    <3>1. result' = result
      BY <2>2 DEF Bind, Changed, scanVars
    <3> QED
      BY <1>4, <2>2, <3>1, Outcomes DEF WInv, ScanInv, FailsOnlyForAReason
  <2> QED
    BY <2>1, <2>2
<1> QED
  BY <1>6, <1>8, <1>9, <1>10 DEF WInv

\* find_all ends.
LEMMA OverStep ==
  ASSUME WInv, NEW outcome, Over(outcome), FailsOnlyForAReason'
  PROVE  WInv'
<1>1. /\ tree' = tree /\ pc' = "idle" /\ devices' = {} /\ todo' = {} /\ hub' = {} /\ port' = 0
  BY DEF Over
<1>2. TreeInv'
  BY <1>1 DEF WInv, TreeInv
<1>3. RecordsInv'
  BY <1>1 DEF RecordsInv
<1>4. LateInv'
  BY <1>1 DEF LateInv, InFreeWiliPass
<1>5. ScanInv'
  BY <1>1 DEF ScanInv
<1> QED
  BY <1>2, <1>3, <1>4, <1>5 DEF WInv

\* A list just read is of live records, one for each device.
LEMMA ListedNow ==
  ASSUME WInv, NEW paths, paths \subseteq DOMAIN tree
  PROVE  /\ \A r \in Enumerated(paths) :
              /\ r \in Records /\ LiveIsAttached(r) /\ r.live /\ r.path \in paths
              /\ r.dev = tree[r.path] /\ r.key = tree[r.path].bound
              /\ r.chain = usbPortChain(r.path) /\ r.node = "device"
         /\ \A p \in paths : \E r \in Enumerated(paths) :
              r.path = p /\ r.dev = tree[p] /\ r.key = tree[p].bound
<1>1. ASSUME NEW p \in paths
      PROVE  LET r == Record(p, tree[p])
             IN  /\ r \in Records /\ r.live /\ r.path = p /\ r.dev = tree[p]
                 /\ r.key = tree[p].bound /\ r.chain = usbPortChain(p) /\ r.node = "device"
                 /\ r \in Enumerated(paths)
  <2>1. p \in Places /\ tree[p] \in Attachable
    BY DEF WInv, TreeInv
  <2>2. tree[p].bound \in BOOLEAN
    BY <2>1, AttachableIs
  <2> QED
    BY <2>1, <2>2 DEF Record, Records, Enumerated
<1>2. \A r \in Enumerated(paths) : \E p \in paths : r = Record(p, tree[p])
  BY DEF Enumerated
<1>3. \A dev : dev \in BoundLater(dev)
  BY DEF BoundLater
<1> QED
  BY <1>1, <1>2, <1>3 DEF LiveIsAttached

LEMMA FindStandaloneStep ==
  ASSUME WInv, FindStandalone
  PROVE  WInv'
<1>1. /\ pc = "idle" /\ todo = {} /\ hub = {}
      /\ UNCHANGED <<tree, todo, hub, port>> /\ result' = NoResult
      /\ pc' \in {"reading standalone", "standalone"}
      /\ devices' = Enumerated(DOMAIN tree) \/ devices' = {}
  BY DEF FindStandalone, WInv, RecordsInv
<1>2. TreeInv'
  BY <1>1 DEF WInv, TreeInv
<1>3. RecordsInv'
  <2>1. \A r \in devices' : r \in Records /\ LiveIsAttached(r)
    <3>1. \A r \in Enumerated(DOMAIN tree) : r \in Records /\ LiveIsAttached(r)
      BY ListedNow
    <3> QED
      BY <1>1, <3>1
  <2>2. \A r : LiveIsAttached(r)' <=> LiveIsAttached(r)
    BY <1>1 DEF LiveIsAttached
  <2> QED
    BY <1>1, <2>1, <2>2 DEF RecordsInv
<1>4. LateInv'
  BY <1>1 DEF LateInv, InFreeWiliPass
<1>5. ScanInv'
  BY <1>1, Outcomes DEF WInv, ScanInv, FailsOnlyForAReason
<1> QED
  BY <1>2, <1>3, <1>4, <1>5 DEF WInv

LEMMA ReadStandaloneStep ==
  ASSUME WInv, ReadStandalone
  PROVE  WInv'
<1> DEFINE nodes == UNION {Nodes(r) : r \in {d \in devices : isStandAloneDevice(d.dev.prod)}}
<1>1. /\ pc = "reading standalone" /\ pc' = "standalone" /\ hub = {}
      /\ UNCHANGED <<tree, hub, port, result>> /\ devices' = {}
      /\ \/ \E read \in Readings(nodes) : todo' = {r \in read : r.key}
         \/ todo' = {}
  BY DEF ReadStandalone, WInv, RecordsInv
<1>2. TreeInv'
  BY <1>1 DEF WInv, TreeInv
<1>3. RecordsInv'
  <2>1. ASSUME NEW d \in devices, NEW r \in Nodes(d)
        PROVE  r \in Records /\ LiveIsAttached(r) /\ r.dev = d.dev
    <3>1. d \in Records /\ LiveIsAttached(d)
      BY DEF WInv, RecordsInv
    <3>2. r = d \/ r = [d EXCEPT !.node = "interface"]
      BY DEF Nodes
    <3>3. r \in Records /\ r.path = d.path /\ r.dev = d.dev /\ r.live = d.live
      BY <3>1, <3>2 DEF Records
    <3> QED
      BY <3>1, <3>3 DEF LiveIsAttached
  <2>2. \A r \in nodes : r \in Records /\ LiveIsAttached(r) /\ isStandAloneDevice(r.dev.prod)
    BY <2>1
  <2> HIDE DEF nodes
  <2>4. ASSUME NEW r \in todo'
        PROVE  r \in Records /\ LiveIsAttached(r) /\ isStandAloneDevice(r.dev.prod)
    <3>1. PICK read \in Readings(nodes) : r \in read
      BY <1>1
    <3>2. nodes \subseteq Records
      BY <2>2
    <3>3. PICK old \in nodes : ReadFrom(r, old)
      BY <3>1, <3>2, ReadingsKeep
    <3> QED
      BY <2>2, <3>3 DEF ReadFrom, LiveIsAttached
  <2>3. \A r : LiveIsAttached(r)' <=> LiveIsAttached(r)
    BY <1>1 DEF LiveIsAttached
  <2> QED
    BY <1>1, <2>3, <2>4 DEF RecordsInv
<1>4. LateInv'
  BY <1>1 DEF LateInv, InFreeWiliPass
<1>5. ScanInv'
  BY <1>1, Outcomes DEF WInv, ScanInv, FailsOnlyForAReason
<1> QED
  BY <1>2, <1>3, <1>4, <1>5 DEF WInv

LEMMA VisitStandaloneStep ==
  ASSUME WInv, VisitStandalone
  PROVE  WInv'
<1>1. /\ pc = "standalone" /\ pc' = pc /\ todo' \subseteq todo
      /\ UNCHANGED <<tree, devices, hub, port, result>>
  BY DEF VisitStandalone
<1>2. TreeInv'
  BY <1>1 DEF WInv, TreeInv
<1>3. RecordsInv'
  <2>1. \A r : LiveIsAttached(r)' <=> LiveIsAttached(r)
    BY <1>1 DEF LiveIsAttached
  <2> QED
    BY <1>1, <2>1 DEF WInv, RecordsInv
<1>4. LateInv'
  BY <1>1 DEF LateInv, InFreeWiliPass
<1>5. ScanInv'
  BY <1>1, Outcomes DEF WInv, ScanInv, FailsOnlyForAReason
<1> QED
  BY <1>2, <1>3, <1>4, <1>5 DEF WInv

LEMMA FindFreeWilisStep ==
  ASSUME WInv, FindFreeWilis
  PROVE  WInv'
<1>1. CASE Over(ScanError) /\ failed' = failed \cup {"freewilis"}
  BY <1>1, OverStep, Outcomes DEF FailsOnlyForAReason, Over
<1>2. CASE pc' = "reading freewilis"
  <2>1. /\ pc' = "reading freewilis" /\ devices' = Enumerated(DOMAIN tree)
        /\ todo = {} /\ hub = {} /\ UNCHANGED <<tree, todo, hub, port, result, late>>
    BY <1>2 DEF FindFreeWilis, Over, WInv, RecordsInv, history
  <2>2. TreeInv'
    BY <2>1 DEF WInv, TreeInv
  <2>3. RecordsInv'
    <3>1. \A r \in devices' : r \in Records /\ LiveIsAttached(r)
      BY <2>1, ListedNow
    <3>2. \A r : LiveIsAttached(r)' <=> LiveIsAttached(r)
      BY <2>1 DEF LiveIsAttached
    <3> QED
      BY <2>1, <3>1, <3>2 DEF RecordsInv
  <2>4. LateInv'
    <3>1. \A r \in devices' : r.live
      BY <2>1, ListedNow
    <3>2. ASSUME NEW p \in DOMAIN tree'
          PROVE  IsListed(p)' /\ (tree[p].bound => KeyIsListed(p)')
      <4>1. PICK r \in devices' : r.path = p /\ r.dev = tree[p] /\ r.key = tree[p].bound
        <5>1. \A q \in DOMAIN tree : \E r \in Enumerated(DOMAIN tree) :
                r.path = q /\ r.dev = tree[q] /\ r.key = tree[q].bound
          BY ListedNow
        <5> QED
          BY <2>1, <5>1
      <4> QED
        BY <2>1, <4>1 DEF IsListed, KeyIsListed, ByInstanceId, ByDriverKey
    <3> QED
      BY <2>1, <3>1, <3>2 DEF LateInv
  <2>5. ScanInv'
    <3>1. result = NoResult
      BY <1>2 DEF FindFreeWilis, WInv, ScanInv
    <3> QED
      BY <2>1, <3>1, Outcomes DEF WInv, ScanInv, FailsOnlyForAReason
  <2> QED
    BY <2>2, <2>3, <2>4, <2>5 DEF WInv
<1> QED
  BY <1>1, <1>2 DEF FindFreeWilis, Over

\* The error of a record whose device left.
LEMMA DeadRecordFails ==
  ASSUME WInv, InFreeWiliPass, NEW r \in devices \cup todo \cup hub, ~r.live,
         Over(ScanError), UNCHANGED failed
  PROVE  WInv'
<1>1. "left" \in late
  BY DEF WInv, LateInv
<1>2. result' = ScanError /\ late' = late
  BY DEF Over, history
<1>3. FailsOnlyForAReason'
  BY <1>1, <1>2, Outcomes DEF FailsOnlyForAReason
<1> QED
  BY <1>3, OverStep

LEMMA ReadDevicesStep ==
  ASSUME WInv, ReadDevices
  PROVE  WInv'
<1> DEFINE hubs == {p \in DOMAIN tree : is_freewili_hub(tree[p].prod)}
<1>1. CASE (\E d \in devices : ~d.live) /\ Over(ScanError) /\ UNCHANGED failed
  BY <1>1, DeadRecordFails DEF ReadDevices, InFreeWiliPass
<1>2. CASE pc' = "hubs"
  <2>1. /\ pc = "reading freewilis" /\ pc' = "hubs" /\ todo' = Enumerated(hubs) /\ hub = {}
        /\ devices' \in Readings(devices)
        /\ UNCHANGED <<tree, hub, port, result, late>>
    BY <1>2 DEF ReadDevices, Over, WInv, RecordsInv, history
  <2>2. \A r \in todo' : /\ r \in Records /\ LiveIsAttached(r) /\ r.live
                         /\ is_freewili_hub(r.dev.prod)
    <3>1. hubs \subseteq DOMAIN tree /\ \A p \in hubs : is_freewili_hub(tree[p].prod)
      OBVIOUS
    <3> HIDE DEF hubs
    <3>2. \A r \in Enumerated(hubs) :
            /\ r \in Records /\ LiveIsAttached(r) /\ r.live /\ r.path \in hubs
            /\ r.dev = tree[r.path]
      BY <3>1, ListedNow
    <3> QED
      BY <2>1, <3>1, <3>2
  <2>3. \A r : LiveIsAttached(r)' <=> LiveIsAttached(r)
    BY <2>1 DEF LiveIsAttached
  <2> HIDE DEF hubs
  <2>4. TreeInv'
    BY <2>1 DEF WInv, TreeInv
  <2>10. devices \subseteq Records /\ \A r \in devices : LiveIsAttached(r)
    BY DEF WInv, RecordsInv
  <2>8. /\ \A r \in devices' : \E old \in devices : ReadFrom(r, old)
        /\ \A old \in devices : \E r \in devices' : ReadFrom(r, old)
    BY <2>1, <2>10, ReadingsKeep
  <2>9. ASSUME NEW r \in devices'
        PROVE  r \in Records /\ LiveIsAttached(r)
    BY <2>8, <2>10 DEF ReadFrom, LiveIsAttached
  <2>5. RecordsInv'
    BY <2>1, <2>2, <2>3, <2>9 DEF WInv, RecordsInv
  <2>6. LateInv'
    <3>1. ASSUME NEW p
          PROVE  /\ IsListed(p) => IsListed(p)'
                 /\ OnFreeWiliPort(p)' <=> OnFreeWiliPort(p)
      <4>1. \A old \in devices : \E r \in devices' : r.path = old.path /\ r.dev = old.dev
        BY <2>8 DEF ReadFrom
      <4>2. IsListed(p) => IsListed(p)'
        BY <2>1, <4>1 DEF IsListed, ByInstanceId
      <4> QED
        BY <2>1, <4>2 DEF OnFreeWiliPort
    <3>2. ASSUME "left" \notin late
          PROVE  devices' = devices
      <4>1. \A r \in devices : r.live
        BY <2>1, <3>2 DEF WInv, LateInv, InFreeWiliPass
      <4> QED
        BY <2>1, <2>10, <4>1, ReadingsOfLive
    <3>3. "left" \notin late => \A p : KeyIsListed(p) => KeyIsListed(p)'
      BY <2>1, <3>2 DEF KeyIsListed, ByDriverKey, ByInstanceId
    <3>4. "left" \notin late => \A r \in devices' \cup todo' \cup hub' : r.live
      BY <2>1, <2>2, <3>2 DEF WInv, LateInv, InFreeWiliPass
    <3> QED
      BY <2>1, <3>1, <3>3, <3>4 DEF WInv, LateInv, InFreeWiliPass
  <2>7. ScanInv'
    BY <2>1, Outcomes DEF WInv, ScanInv, FailsOnlyForAReason
  <2> QED
    BY <2>4, <2>5, <2>6, <2>7 DEF WInv
<1>3. CASE Over(ScanError) /\ failed' = failed \cup {"hubs"}
  BY <1>3, OverStep, Outcomes DEF FailsOnlyForAReason, Over
<1> QED
  BY <1>1, <1>2, <1>3 DEF ReadDevices

LEMMA IdentifyHubStep ==
  ASSUME WInv, IdentifyHub
  PROVE  WInv'
<1>1. PICK h \in todo :
        \/ /\ todo' = todo \ {h}
           /\ UNCHANGED <<tree, pc, devices, hub, port, result, history>>
        \/ h.live /\ ByInstanceId(h.path, h.dev) = {} /\ Over(Crashed)
        \/ /\ todo' = todo \ {h} /\ hub' = {h} /\ pc' = "opening"
           /\ UNCHANGED <<tree, devices, port, result, history>>
  BY DEF IdentifyHub
<1>2. pc = "hubs" /\ failed' = failed /\ hub = {}
  BY DEF IdentifyHub, WInv, RecordsInv
<1>3. CASE h.live /\ ByInstanceId(h.path, h.dev) = {} /\ Over(Crashed)
  <2>6. /\ h.path \in DOMAIN tree /\ tree[h.path] \in BoundLater(h.dev)
        /\ h.dev \in Attachable /\ is_freewili_hub(h.dev.prod)
    BY <1>2, <1>3 DEF WInv, RecordsInv, LiveIsAttached, Records
  <2>1. h.path \in DOMAIN tree /\ is_freewili_hub(tree[h.path].prod)
    BY <2>6, BoundKeeps
  <2>2. ~IsListed(h.path)
    <3>1. InstanceId(h.path, tree[h.path]) = InstanceId(h.path, h.dev)
      BY <2>6, SameInstanceId
    <3> QED
      BY <1>3, <3>1 DEF IsListed, ByInstanceId
  <2>3. "hub arrived" \in late
    BY <1>2, <2>1, <2>2 DEF WInv, LateInv, InFreeWiliPass
  <2>4. result' = Crashed /\ late' = late
    BY <1>3 DEF Over, history
  <2>5. FailsOnlyForAReason'
    BY <2>3, <2>4, Outcomes DEF FailsOnlyForAReason
  <2> QED
    BY <1>3, <2>5, OverStep
<1>4. CASE /\ todo' = todo \ {h}
           /\ \/ pc' = pc /\ hub' = hub
              \/ pc' = "opening" /\ hub' = {h}
           /\ UNCHANGED <<tree, devices, port, result, late>>
  <2>1. /\ todo' \subseteq todo /\ hub' \subseteq todo
        /\ pc' \in {"hubs", "opening"}
        /\ IF pc' \in {"opening", "ports"} THEN \E x \in hub' : hub' = {x} ELSE hub' = {}
    BY <1>2, <1>4
  <2>2. TreeInv'
    BY <1>4 DEF WInv, TreeInv
  <2>3. RecordsInv'
    <3>1. \A r : LiveIsAttached(r)' <=> LiveIsAttached(r)
      BY <1>4 DEF LiveIsAttached
    <3> QED
      BY <1>2, <1>4, <2>1, <3>1 DEF WInv, RecordsInv
  <2>4. LateInv'
    <3>1. \A p : /\ IsListed(p)' <=> IsListed(p)
                 /\ KeyIsListed(p)' <=> KeyIsListed(p)
                 /\ OnFreeWiliPort(p)' <=> OnFreeWiliPort(p)
      BY <1>4 DEF IsListed, KeyIsListed, ByInstanceId, ByDriverKey, OnFreeWiliPort
    <3> QED
      BY <1>2, <1>4, <2>1, <3>1 DEF WInv, LateInv, InFreeWiliPass
  <2>5. ScanInv'
    BY <1>2, <1>4, <2>1, Outcomes DEF WInv, ScanInv, FailsOnlyForAReason
  <2> QED
    BY <2>2, <2>3, <2>4, <2>5 DEF WInv
<1> QED
  BY <1>1, <1>3, <1>4 DEF history

\* A step that only looks at the hub's ports.
LEMMA PortStep ==
  ASSUME WInv, pc \in {"opening", "ports"}, port' \in Nat,
         \/ pc' \in {"opening", "ports"} /\ hub' = hub
         \/ pc' = "hubs" /\ hub' = {},
         UNCHANGED <<tree, devices, todo, result, late>>, failed' = failed
  PROVE  WInv'
<1>1. TreeInv'
  BY DEF WInv, TreeInv
<1>2. RecordsInv'
  <2>1. \A r : LiveIsAttached(r)' <=> LiveIsAttached(r)
    BY DEF LiveIsAttached
  <2> QED
    BY <2>1 DEF WInv, RecordsInv
<1>3. LateInv'
  <2>1. \A p : /\ IsListed(p)' <=> IsListed(p)
               /\ KeyIsListed(p)' <=> KeyIsListed(p)
               /\ OnFreeWiliPort(p)' <=> OnFreeWiliPort(p)
    BY DEF IsListed, KeyIsListed, ByInstanceId, ByDriverKey, OnFreeWiliPort
  <2> QED
    BY <2>1 DEF WInv, LateInv, InFreeWiliPass
<1>4. ScanInv'
  BY Outcomes DEF WInv, ScanInv, FailsOnlyForAReason
<1> QED
  BY <1>1, <1>2, <1>3, <1>4 DEF WInv

LEMMA OpenHubStep ==
  ASSUME WInv, OpenHub
  PROVE  WInv'
<1>1. PICK h \in hub :
        \/ /\ pc' = "ports" /\ port' = 0
           /\ UNCHANGED <<tree, devices, todo, hub, result, history, failed>>
        \/ ~h.live /\ Over(ScanError) /\ UNCHANGED failed
        \/ Over(ScanError) /\ failed' = failed \cup {"hub"}
  BY DEF OpenHub
<1>2. pc = "opening"
  BY DEF OpenHub
<1>3. CASE ~h.live /\ Over(ScanError) /\ UNCHANGED failed
  BY <1>2, <1>3, DeadRecordFails DEF InFreeWiliPass
<1>4. CASE /\ pc' = "ports" /\ port' = 0
           /\ UNCHANGED <<tree, devices, todo, hub, result, history, failed>>
  BY <1>2, <1>4, PortStep DEF history
<1>5. CASE Over(ScanError) /\ failed' = failed \cup {"hub"}
  BY <1>5, OverStep, Outcomes DEF FailsOnlyForAReason, Over
<1> QED
  BY <1>1, <1>3, <1>4, <1>5

LEMMA VisitPortStep ==
  ASSUME WInv, VisitPort
  PROVE  WInv'
<1> DEFINE place(h) == Append(h.path, port)
           found(h) == h.live /\ place(h) \in DOMAIN tree /\ tree[place(h)].bound
           known(h) == IF found(h) THEN ByDriverKey(place(h), tree[place(h)]) ELSE {}
<1>1. PICK h \in hub :
        \/ /\ port' = port + 1
           /\ UNCHANGED <<tree, pc, devices, todo, hub, result, history>>
        \/ found(h) /\ known(h) = {} /\ Over(ScanError)
  BY DEF VisitPort
<1>2. pc = "ports" /\ failed' = failed /\ port \in Nat
  BY DEF VisitPort, WInv, ScanInv
<1>3. CASE found(h) /\ known(h) = {} /\ Over(ScanError)
  <2>1. h \in Records /\ LiveIsAttached(h) /\ is_freewili_hub(h.dev.prod)
    BY <1>2 DEF WInv, RecordsInv
  <2>2. h.path \in Seq(PathElement) /\ Len(h.path) \in Nat \ {0}
    BY <2>1, PlacesArePaths DEF Records
  <2>3. port \in PathElement
    BY <1>2 DEF PathElement
  <2>4. Front(place(h)) = h.path /\ Len(place(h)) = Len(h.path) + 1
    BY <2>2, <2>3, FrontOfAppend
  <2>5. OnFreeWiliPort(place(h))
    <3>1. tree[h.path].prod = h.dev.prod
      <4>1. tree[h.path] \in BoundLater(h.dev) /\ h.dev \in Attachable
        BY <1>3, <2>1 DEF LiveIsAttached, Records
      <4> QED
        BY <4>1, BoundKeeps
    <3>2. Len(place(h)) > 1
      <4>1. PICK n : n = Len(h.path)
        OBVIOUS
      <4>2. n \in Nat \ {0}
        BY <2>2, <4>1
      <4>3. n + 1 > 1
        BY <4>2
      <4> QED
        BY <2>4, <4>1, <4>3
    <3> QED
      BY <2>1, <2>4, <3>1, <3>2 DEF OnFreeWiliPort
  <2>6. place(h) \in DOMAIN tree /\ tree[place(h)].bound /\ ~KeyIsListed(place(h))
    BY <1>3 DEF KeyIsListed
  <2> HIDE DEF place
  <2>7. late \cap {"left", "new key"} # {}
    BY <1>2, <2>5, <2>6 DEF WInv, LateInv, InFreeWiliPass
  <2>8. result' = ScanError /\ late' = late
    BY <1>3 DEF Over, history
  <2>9. FailsOnlyForAReason'
    BY <2>7, <2>8, Outcomes DEF FailsOnlyForAReason
  <2> QED
    BY <1>3, <2>9, OverStep
<1>4. CASE port' = port + 1 /\ UNCHANGED <<tree, pc, devices, todo, hub, result, history>>
  BY <1>2, <1>4, PortStep DEF history
<1> HIDE DEF found, known
<1> QED
  BY <1>1, <1>3, <1>4

LEMMA EndHubStep ==
  ASSUME WInv, EndHub
  PROVE  WInv'
BY PortStep DEF EndHub, history

LEMMA ReturnStep ==
  ASSUME WInv, Return
  PROVE  WInv'
<1>1. PICK list : Over(Devices(list))
  BY DEF Return
<1>2. result' = Devices(list)
  BY <1>1 DEF Over
<1>3. FailsOnlyForAReason'
  BY <1>2, Outcomes DEF FailsOnlyForAReason
<1> QED
  BY <1>1, <1>3, OverStep

LEMMA NoStep ==
  ASSUME WInv, UNCHANGED vars
  PROVE  WInv'
<1>1. UNCHANGED <<tree, pc, devices, todo, hub, port, result, late, failed>>
  BY DEF vars
<1>2. TreeInv'
  BY <1>1 DEF WInv, TreeInv
<1>3. \A r : LiveIsAttached(r)' <=> LiveIsAttached(r)
  BY <1>1 DEF LiveIsAttached
<1>4. RecordsInv'
  BY <1>1, <1>3 DEF WInv, RecordsInv
<1>5. \A p : /\ IsListed(p)' <=> IsListed(p)
             /\ KeyIsListed(p)' <=> KeyIsListed(p)
             /\ OnFreeWiliPort(p)' <=> OnFreeWiliPort(p)
  BY <1>1 DEF IsListed, KeyIsListed, ByInstanceId, ByDriverKey, OnFreeWiliPort
<1>6. LateInv'
  BY <1>1, <1>5 DEF WInv, LateInv, InFreeWiliPass
<1>7. ScanInv'
  BY <1>1 DEF WInv, ScanInv, FailsOnlyForAReason
<1> QED
  BY <1>2, <1>4, <1>6, <1>7 DEF WInv

LEMMA InitInv ==
  ASSUME Init
  PROVE  WInv
<1>1. TreeInv
  <2>1. DOMAIN tree = {<<c>> : c \in Controllers} /\ \A p \in DOMAIN tree : tree[p] = RootHub
    BY DEF Init
  <2> QED
    BY <2>1 DEF TreeInv, Places, Attachable
<1>2. RecordsInv /\ LateInv
  BY DEF Init, RecordsInv, LateInv, InFreeWiliPass
<1>3. ScanInv
  BY Outcomes DEF Init, ScanInv, FailsOnlyForAReason
<1> QED
  BY <1>1, <1>2, <1>3 DEF WInv

-----------------------------------------------------------------------------

LEMMA Invariance == Spec => []WInv
<1>1. Init => WInv
  BY InitInv
<1>2. WInv /\ [Next]_vars => WInv'
  <2> SUFFICES ASSUME WInv, [Next]_vars
               PROVE  WInv'
    OBVIOUS
  <2>1. ASSUME NEW slot \in Slots, Plug(slot)
        PROVE  WInv'
    BY <2>1, PlugStep
  <2>2. ASSUME NEW path \in DOMAIN tree, Unplug(path)
        PROVE  WInv'
    BY <2>2, UnplugStep
  <2>14. ASSUME NEW path \in DOMAIN tree, Bind(path)
         PROVE  WInv'
    BY <2>14, BindStep
  <2>3. CASE FindStandalone
    BY <2>3, FindStandaloneStep
  <2>4. CASE ReadStandalone
    BY <2>4, ReadStandaloneStep
  <2>5. CASE VisitStandalone
    BY <2>5, VisitStandaloneStep
  <2>6. CASE FindFreeWilis
    BY <2>6, FindFreeWilisStep
  <2>7. CASE ReadDevices
    BY <2>7, ReadDevicesStep
  <2>8. CASE IdentifyHub
    BY <2>8, IdentifyHubStep
  <2>9. CASE OpenHub
    BY <2>9, OpenHubStep
  <2>10. CASE VisitPort
    BY <2>10, VisitPortStep
  <2>11. CASE EndHub
    BY <2>11, EndHubStep
  <2>12. CASE Return
    BY <2>12, ReturnStep
  <2>13. CASE UNCHANGED vars
    BY <2>13, NoStep
  <2> QED
    BY <2>1, <2>2, <2>3, <2>4, <2>5, <2>6, <2>7, <2>8, <2>9, <2>10, <2>11, <2>12, <2>13, <2>14
    DEF Next
<1> QED
  BY <1>1, <1>2, PTL DEF Spec

(* Whatever the controllers, devices and ports, and however many devices     *)
(* come, go and get their drivers: unless a call of the system fails by      *)
(* itself, a scan fails only when a device left, or one on a FreeWili's port *)
(* got its driver, after the FreeWili pass had begun; the process ends only  *)
(* when a FreeWili's hub arrived in that time (fwfinder_windows.cpp:533,     *)
(* 561-568, 1003, 1034, 1066-1143, 1172).                                    *)
THEOREM ScansFailForAReason == Spec => []FailsOnlyForAReason
<1>1. WInv => FailsOnlyForAReason
  BY DEF WInv, ScanInv
<1> QED
  BY <1>1, Invariance, PTL

-----------------------------------------------------------------------------
(* What a scan makes and returns. *)

\* The hub being visited is the first of its group.
IsGroupOfHub(list) == \E S : list \in Seq(S) /\ Len(list) > 0 /\ list[1].kind = "Hub"

Failures == {"standalone", "freewilis", "hubs", "hub"}

MadeInv ==
  /\ port \in 0..(NumberOfPorts + 1)
  /\ pc \in {"opening", "ports"} => IsGroupOfHub(group)
  /\ \A list \in hubGroups : list[1].kind = "Hub"
  /\ \A device \in standalone : device.standalone /\ device.deviceType \in DeviceType
  /\ result.is \in {"none", "error", "crash", "devices"}
  /\ result.is = "devices" => \A d \in ToSet(result.list) : d.deviceType \in DeviceType
  /\ disturbed \subseteq Places
  /\ late \subseteq {"left", "hub arrived", "new key"}
  /\ failed \subseteq Failures

\* The result's devices are those that were sorted.
LEMMA SortedAreFound ==
  ASSUME NEW found, NEW list \in SortedByUniqueID(found)
  PROVE  ToSet(list) \subseteq found
<1>1. list \in [1..Cardinality(found) -> found]
  BY DEF SortedByUniqueID, SetToSeqs
<1> QED
  BY <1>1 DEF ToSet

LEMMA PortsAsked ==
  ASSUME NEW n, \/ n = 0
                \/ n \in 0..(NumberOfPorts + 1)
                \/ \E m \in 0..(NumberOfPorts + 1) : m <= NumberOfPorts /\ n = m + 1
  PROVE  n \in 0..(NumberOfPorts + 1)
<1>1. PICK N \in Nat : N = NumberOfPorts
  BY NumberOfPortsAssumption DEF NumberOfPortsAssumption
<1> QED
  BY <1>1

LEMMA ResultTypes ==
  /\ \A r \in {NoResult, ScanError, Crashed} :
       r.is \in {"none", "error", "crash", "devices"} /\ r.is # "devices"
  /\ \A list : Devices(list).is = "devices" /\ Devices(list).list = list
BY DEF NoResult, ScanError, Crashed, Devices

LEMMA ChangedMade ==
  ASSUME MadeInv, NEW paths, paths \subseteq Places,
         NEW events, events \subseteq {"left", "hub arrived", "new key"},
         Changed(paths, events)
  PROVE  MadeInv'
<1>1. CASE pc = "idle"
  <2>1. /\ result' = NoResult /\ hubGroups' = {} /\ standalone' = {}
        /\ disturbed' = {} /\ late' = {} /\ failed' = {}
        /\ pc' = pc /\ port' = port /\ group' = group
    BY <1>1 DEF Changed
  <2> QED
    BY <2>1, ResultTypes DEF MadeInv
<1>2. CASE pc # "idle"
  <2>1. /\ disturbed' = disturbed \cup paths
        /\ late' \subseteq late \cup events
        /\ pc' = pc /\ port' = port /\ group' = group /\ hubGroups' = hubGroups
        /\ standalone' = standalone /\ result' = result /\ failed' = failed
    BY <1>2 DEF Changed, scanVars
  <2> QED
    BY <2>1 DEF MadeInv
<1> QED
  BY <1>1, <1>2

LEMMA OverMade ==
  ASSUME MadeInv, NEW outcome, Over(outcome), failed' \subseteq Failures,
         \/ outcome \in {ScanError, Crashed}
         \/ \E list : /\ outcome = Devices(list)
                      /\ \A d \in ToSet(list) : d.deviceType \in DeviceType
  PROVE  MadeInv'
<1>1. /\ pc' = "idle" /\ result' = outcome /\ port' = 0
      /\ hubGroups' = {} /\ standalone' = {} /\ disturbed' = disturbed /\ late' = late
  BY DEF Over, history
<1>2. /\ result'.is \in {"none", "error", "crash", "devices"}
      /\ result'.is = "devices" => \A d \in ToSet(result'.list) : d.deviceType \in DeviceType
  BY <1>1, ResultTypes
<1>3. port' \in 0..(NumberOfPorts + 1)
  BY <1>1, PortsAsked
<1> QED
  BY <1>1, <1>2, <1>3 DEF MadeInv

\* A step that makes nothing.
LEMMA NothingMade ==
  ASSUME MadeInv,
         hubGroups' \subseteq hubGroups, standalone' \subseteq standalone,
         result' \in {result, NoResult},
         disturbed' \subseteq disturbed, late' \subseteq late,
         failed' \subseteq failed \cup {"standalone"},
         port' \in {0, port},
         pc' \in {"opening", "ports"} => group' = group /\ pc \in {"opening", "ports"}
  PROVE  MadeInv'
<1>1. result'.is \in {"none", "error", "crash", "devices"}
      /\ (result'.is = "devices" => \A d \in ToSet(result'.list) : d.deviceType \in DeviceType)
  BY ResultTypes DEF MadeInv
<1>2. port' \in 0..(NumberOfPorts + 1)
  BY PortsAsked DEF MadeInv
<1>3. failed' \subseteq Failures
  BY DEF MadeInv, Failures
<1> QED
  BY <1>1, <1>2, <1>3 DEF MadeInv

\* A call that fails by itself.
LEMMA FailureMade ==
  ASSUME MadeInv, Over(ScanError), NEW call \in Failures, failed' = failed \cup {call}
  PROVE  MadeInv'
<1>1. failed' \subseteq Failures
  BY DEF MadeInv
<1> QED
  BY <1>1, OverMade

LEMMA VisitStandaloneMade ==
  ASSUME WInv, MadeInv, VisitStandalone
  PROVE  MadeInv'
<1>1. PICK node \in todo : \E tty, letters :
        standalone' = standalone \cup
          (IF IsSkipped(node) THEN {}
           ELSE Made({<<USBDevice(node, 0, OwnSerial(node), tty, letters)>>}))
  BY DEF VisitStandalone
<1>2. /\ pc = "standalone" /\ pc' = pc
      /\ UNCHANGED <<port, hubGroups, result, disturbed, late, failed>>
  BY DEF VisitStandalone, history
<1>3. PICK tty, letters, dev :
        /\ dev = USBDevice(node, 0, OwnSerial(node), tty, letters)
        /\ standalone' = standalone \cup (IF IsSkipped(node) THEN {} ELSE Made({<<dev>>}))
  BY <1>1
<1>4. isStandAloneDevice(dev.prod)
  <2>1. dev.prod = node.dev.prod
    BY <1>3 DEF USBDevice
  <2> QED
    BY <1>2, <2>1 DEF WInv, RecordsInv
<1>5. \A device \in Made({<<dev>>}) : device = fromUSBDevices(<<dev>>) /\ device # BuildError
  BY DEF Made
<1>6. \A device \in Made({<<dev>>}) : device.standalone /\ device.deviceType \in DeviceType
  BY <1>4, <1>5, MadeType, MadeStandalone
<1>7. \A device \in standalone' : device.standalone /\ device.deviceType \in DeviceType
  BY <1>3, <1>6 DEF MadeInv
<1> QED
  BY <1>2, <1>7 DEF MadeInv

LEMMA IdentifyHubMade ==
  ASSUME WInv, MadeInv, IdentifyHub
  PROVE  MadeInv'
<1>1. PICK h \in todo :
        \/ UNCHANGED <<pc, port, group, hubGroups, standalone, result, history>>
        \/ Over(Crashed)
        \/ /\ \E known \in ByInstanceId(h.path, h.dev), serial \in HubSerials(h) :
                group' = <<USBDevice(known, 0, serial, NoPort, NoPort)>>
           /\ UNCHANGED <<port, hubGroups, standalone, result, history>>
  BY DEF IdentifyHub
<1>2. pc = "hubs" /\ failed' = failed
  BY DEF IdentifyHub
<1>3. CASE UNCHANGED <<pc, port, group, hubGroups, standalone, result, history>>
  BY <1>2, <1>3, NothingMade DEF history
<1>4. CASE Over(Crashed)
  BY <1>2, <1>4, OverMade DEF MadeInv
<1>5. CASE /\ \E known \in ByInstanceId(h.path, h.dev), serial \in HubSerials(h) :
                group' = <<USBDevice(known, 0, serial, NoPort, NoPort)>>
           /\ UNCHANGED <<port, hubGroups, standalone, result, history>>
  <2>1. PICK known \in ByInstanceId(h.path, h.dev), serial \in HubSerials(h) :
          group' = <<USBDevice(known, 0, serial, NoPort, NoPort)>>
    BY <1>5
  <2>2. is_freewili_hub(known.dev.prod)
    <3>1. InstanceId(known.path, known.dev) = InstanceId(h.path, h.dev)
      BY DEF ByInstanceId
    <3>2. known.dev.prod = h.dev.prod
      BY <3>1 DEF InstanceId
    <3> QED
      BY <1>2, <3>2 DEF WInv, RecordsInv
  <2>3. PICK dev : dev = USBDevice(known, 0, serial, NoPort, NoPort)
    OBVIOUS
  <2>4. dev.kind = "Hub"
    BY <2>2, <2>3, HubKind DEF USBDevice
  <2>5. group' = <<dev>>
    BY <2>1, <2>3
  <2>6. group' \in Seq({dev}) /\ Len(group') > 0 /\ group'[1].kind = "Hub"
    BY <2>4, <2>5
  <2>7. IsGroupOfHub(group)'
    BY <2>6 DEF IsGroupOfHub
  <2> QED
    BY <1>2, <1>5, <2>7 DEF MadeInv, history
<1> QED
  BY <1>1, <1>3, <1>4, <1>5

LEMMA VisitPortMade ==
  ASSUME MadeInv, VisitPort
  PROVE  MadeInv'
<1>1. /\ pc = "ports" /\ failed' = failed
      /\ \/ Over(ScanError)
         \/ /\ group' = group \/ \E dev : group' = Append(group, dev)
            /\ port <= NumberOfPorts /\ port' = port + 1
            /\ UNCHANGED <<pc, hubGroups, standalone, result, history>>
  BY DEF VisitPort, MorePorts
<1>2. CASE Over(ScanError)
  BY <1>1, <1>2, OverMade DEF MadeInv
<1>3. CASE /\ group' = group \/ \E dev : group' = Append(group, dev)
           /\ port <= NumberOfPorts /\ port' = port + 1
           /\ UNCHANGED <<pc, hubGroups, standalone, result, history>>
  <2>1. port' \in 0..(NumberOfPorts + 1)
    BY <1>3, PortsAsked DEF MadeInv
  <2>2. PICK S : group \in Seq(S) /\ Len(group) > 0 /\ group[1].kind = "Hub"
    BY <1>1 DEF MadeInv, IsGroupOfHub
  <2>3. IsGroupOfHub(group')
    <3>1. CASE group' = group
      BY <2>2, <3>1 DEF IsGroupOfHub
    <3>2. ASSUME NEW dev, group' = Append(group, dev)
          PROVE  IsGroupOfHub(group')
      <4>1. PICK T : T = S \cup {dev}
        OBVIOUS
      <4>2. group \in Seq(T) /\ dev \in T
        <5>1. \A i \in 1..Len(group) : group[i] \in T
          BY <2>2, <4>1
        <5> QED
          BY <2>2, <4>1, <5>1
      <4>3. group' \in Seq(T) /\ Len(group') = Len(group) + 1 /\ group'[1] = group[1]
        BY <2>2, <3>2, <4>2
      <4>4. Len(group) \in Nat
        BY <4>2
      <4>5. Len(group') > 0 /\ group'[1].kind = "Hub"
        BY <2>2, <4>3, <4>4
      <4> QED
        BY <4>3, <4>5 DEF IsGroupOfHub
    <3> QED
      BY <1>3, <3>1, <3>2
  <2> QED
    BY <1>1, <1>3, <2>1, <2>3 DEF MadeInv, history
<1> QED
  BY <1>1, <1>2, <1>3

LEMMA EndHubMade ==
  ASSUME MadeInv, EndHub
  PROVE  MadeInv'
<1>1. /\ pc = "ports" /\ pc' = "hubs" /\ port' = 0
      /\ hubGroups' = hubGroups \cup {group}
      /\ UNCHANGED <<standalone, result, disturbed, late, failed>>
  BY DEF EndHub, history
<1>2. group[1].kind = "Hub"
  BY <1>1 DEF MadeInv, IsGroupOfHub
<1>3. port' \in 0..(NumberOfPorts + 1)
  BY <1>1, PortsAsked
<1> QED
  BY <1>1, <1>2, <1>3 DEF MadeInv

LEMMA ReturnMade ==
  ASSUME MadeInv, Return
  PROVE  MadeInv'
<1>1. PICK list \in SortedByUniqueID(standalone \cup Made(hubGroups)) : Over(Devices(list))
  BY DEF Return
<1>2. failed' = failed
  BY DEF Return
<1>3. \A d \in Made(hubGroups) : d.deviceType \in DeviceType
  <2>1. \A d \in Made(hubGroups) : \E l : d = fromUSBDevices(l) /\ d # BuildError
    BY DEF Made
  <2> QED
    BY <2>1, MadeType
<1>4. \A d \in standalone \cup Made(hubGroups) : d.deviceType \in DeviceType
  BY <1>3 DEF MadeInv
<1>5. \A d \in ToSet(list) : d.deviceType \in DeviceType
  BY <1>4, SortedAreFound
<1> QED
  BY <1>1, <1>2, <1>5, OverMade DEF MadeInv

LEMMA MadeStep ==
  ASSUME WInv, MadeInv, [Next]_vars
  PROVE  MadeInv'
<1>1. ASSUME NEW slot \in Slots, Plug(slot)
      PROVE  MadeInv'
  <2>1. {slot.path} \subseteq Places
    BY DEF Places
  <2>2. Arrival(slot) \subseteq {"left", "hub arrived", "new key"}
    BY DEF Arrival, NewKey
  <2>3. Changed({slot.path}, Arrival(slot))
    BY <1>1 DEF Plug
  <2> QED
    BY <2>1, <2>2, <2>3, ChangedMade
<1>2. ASSUME NEW path \in DOMAIN tree, Unplug(path)
      PROVE  MadeInv'
  <2>1. Subtree(path) \subseteq Places
    BY DEF Subtree, WInv, TreeInv
  <2>2. Changed(Subtree(path), {"left"})
    BY <1>2 DEF Unplug
  <2> QED
    BY <2>1, <2>2, ChangedMade
<1>14. ASSUME NEW path \in DOMAIN tree, Bind(path)
       PROVE  MadeInv'
  <2>1. {path} \subseteq Places
    BY DEF WInv, TreeInv
  <2>2. NewKey(path) \subseteq {"left", "hub arrived", "new key"}
    BY DEF NewKey
  <2>3. Changed({path}, NewKey(path))
    BY <1>14 DEF Bind
  <2> QED
    BY <2>1, <2>2, <2>3, ChangedMade
<1>3. CASE FindStandalone
  <2>1. /\ pc' \in {"reading standalone", "standalone"} /\ failed' \subseteq {"standalone"}
        /\ hubGroups' = {} /\ standalone' = {} /\ result' = NoResult
        /\ disturbed' = {} /\ late' = {} /\ port' = port
    BY <1>3 DEF FindStandalone
  <2> QED
    BY <2>1, NothingMade
<1>4. CASE ReadStandalone
  <2>1. /\ pc' = "standalone" /\ failed' \subseteq failed \cup {"standalone"}
        /\ UNCHANGED <<port, hubGroups, standalone, result, disturbed, late>>
    BY <1>4 DEF ReadStandalone, history
  <2> QED
    BY <2>1, NothingMade
<1>5. CASE VisitStandalone
  BY <1>5, VisitStandaloneMade
<1>6. CASE FindFreeWilis
  <2>1. CASE /\ pc' = "reading freewilis"
             /\ UNCHANGED <<port, hubGroups, standalone, result, disturbed, late, failed>>
    BY <2>1, NothingMade
  <2>2. CASE Over(ScanError) /\ failed' = failed \cup {"freewilis"}
    BY <2>2, FailureMade DEF Failures
  <2> QED
    BY <1>6, <2>1, <2>2 DEF FindFreeWilis, history
<1>7. CASE ReadDevices
  <2>1. CASE /\ pc' = "hubs"
             /\ UNCHANGED <<port, hubGroups, standalone, result, disturbed, late, failed>>
    BY <2>1, NothingMade
  <2>2. CASE Over(ScanError) /\ UNCHANGED failed
    BY <2>2, OverMade DEF MadeInv
  <2>3. CASE Over(ScanError) /\ failed' = failed \cup {"hubs"}
    BY <2>3, FailureMade DEF Failures
  <2> QED
    BY <1>7, <2>1, <2>2, <2>3 DEF ReadDevices, history
<1>8. CASE IdentifyHub
  BY <1>8, IdentifyHubMade
<1>9. CASE OpenHub
  <2>1. pc = "opening"
    BY <1>9 DEF OpenHub
  <2>2. CASE /\ pc' = "ports" /\ port' = 0
             /\ UNCHANGED <<group, hubGroups, standalone, result, disturbed, late, failed>>
    BY <2>1, <2>2, NothingMade
  <2>3. CASE Over(ScanError) /\ UNCHANGED failed
    BY <2>3, OverMade DEF MadeInv
  <2>4. CASE Over(ScanError) /\ failed' = failed \cup {"hub"}
    BY <2>4, FailureMade DEF Failures
  <2> QED
    BY <1>9, <2>2, <2>3, <2>4 DEF OpenHub, history
<1>10. CASE VisitPort
  BY <1>10, VisitPortMade
<1>11. CASE EndHub
  BY <1>11, EndHubMade
<1>12. CASE Return
  BY <1>12, ReturnMade
<1>13. CASE UNCHANGED vars
  BY <1>13 DEF vars, MadeInv
<1> QED
  BY <1>1, <1>2, <1>3, <1>4, <1>5, <1>6, <1>7, <1>8, <1>9, <1>10, <1>11, <1>12, <1>13,
     <1>14 DEF Next

(* Whatever is plugged and unplugged while a scan runs, it works on devices  *)
(* that can be there, asks no port past the last, keeps each group under its *)
(* hub, and hands out only devices of a known type, standalone ones from the *)
(* standalone pass (fwfinder_windows.cpp:1107-1209, 1305-1398).              *)
THEOREM WindowsTypes == Spec => []TypeOK
<1>1. Init => MadeInv
  <2> SUFFICES ASSUME Init PROVE MadeInv
    OBVIOUS
  <2>1. /\ port = 0 /\ pc = "idle" /\ hubGroups = {} /\ standalone = {} /\ result = NoResult
        /\ disturbed = {} /\ late = {} /\ failed = {}
    BY DEF Init
  <2>2. port \in 0..(NumberOfPorts + 1)
    BY <2>1, PortsAsked
  <2> QED
    BY <2>1, <2>2, ResultTypes DEF MadeInv
<1>2. WInv /\ MadeInv => TypeOK
  <2> SUFFICES ASSUME WInv, MadeInv PROVE TypeOK
    OBVIOUS
  <2>1. Cardinality(hub) = IF pc \in {"opening", "ports"} THEN 1 ELSE 0
    BY FS_EmptySet, FS_Singleton DEF WInv, RecordsInv
  <2>2. /\ DOMAIN tree \subseteq Places
        /\ \A p \in DOMAIN tree : Len(p) = 1 \/ Front(p) \in DOMAIN tree
    BY DEF WInv, TreeInv
  <2>3. devices \subseteq Records /\ todo \subseteq Records /\ hub \subseteq Records
    BY DEF WInv, RecordsInv
  <2>4. pc \in {"idle", "reading standalone", "standalone", "reading freewilis", "hubs",
                "opening", "ports"}
    BY DEF WInv, ScanInv
  <2> QED
    BY <2>1, <2>2, <2>3, <2>4 DEF TypeOK, MadeInv, Failures
<1> QED
  BY <1>1, <1>2, Invariance, MadeStep, PTL DEF Spec

-----------------------------------------------------------------------------
(* What a scan has read. *)

\* A controller's root hub, or a device that can be there, with its driver or not.
IsPlaced(path, dev) ==
  IF Len(path) = 1 THEN dev = RootHub
  ELSE \E slot \in Slots : slot.path = path /\ dev \in BoundLater(NewDev(slot))

PlacedInv ==
  /\ \A p \in DOMAIN tree : IsPlaced(p, tree[p])
  /\ \A p \in DOMAIN tree : Len(p) > 1 => IsHub(tree[Front(p)].prod)
  /\ \A p \in DOMAIN tree : OnFreeWiliPort(p) => Last(p) \in 1..NumberOfPorts
  /\ \A p, q \in DOMAIN tree : InstanceId(p, tree[p]) = InstanceId(q, tree[q]) => p = q

Steady(p) == p \in DOMAIN tree /\ p \notin disturbed

\* The pass has a list of devices.
HasList == pc = "reading standalone" \/ InFreeWiliPass

SamePathSame(records) == \A r, s \in records : r.path = s.path => r = s

SameIDSamePath(records) ==
  \A r, s \in records : InstanceId(r.path, r.dev) = InstanceId(s.path, s.dev) => r.path = s.path

\* What was read of the ports that lead to a place.
IsChain(chain, place) ==
  chain = usbPortChain(place) \/ (chain = <<>> /\ place \in disturbed)

ListInv ==
  /\ \A r \in devices \cup todo \cup hub :
       /\ IsPlaced(r.path, r.dev) /\ IsChain(r.chain, r.path)
       /\ ~r.live => r.path \in disturbed
  /\ \A r \in devices : r.node = "device"
  /\ SamePathSame(devices) /\ SameIDSamePath(devices)
  /\ ~HasList => devices = {}
  /\ HasList => \A p : Steady(p) => \E r \in devices :
                    r.path = p /\ r.dev = tree[p] /\ r.key = tree[p].bound

\* The node's first interface is that of the device.
IsOwnNode(node, parts) == node = "device" \/ (parts # <<>> /\ Head(parts) = "disk")

\* A device was read at a place that changed since, or it tells what is there.
IsRead(dev) ==
  /\ dev.place \in Places /\ Len(dev.place) > 1
  /\ IsChain(dev.portChain, dev.place) /\ dev.name = "name" /\ dev.serial # ""
  /\ \/ dev.place \in disturbed
     \/ /\ dev.place \in DOMAIN tree /\ dev.prod = tree[dev.place].prod
        /\ IsOwnNode(dev.node, tree[dev.place].parts) => Fits(dev, dev.place)

-----------------------------------------------------------------------------
(* What the FreeWili pass gathers. *)

Has(list, p) == \E k \in DOMAIN list : list[k].place = p

HubAt(list) == list[1].place

\* The device at a place has its driver, or something changed there.
HasDriver(place) == place \in disturbed \/ (place \in DOMAIN tree /\ tree[place].bound)

\* The group of a hub: it and devices on it, or that were not where they had been.
IsHubGroup(list) ==
  /\ list \in Seq(ToSet(list)) /\ Len(list) > 0
  /\ list[1].kind = "Hub" /\ is_freewili_hub(list[1].prod) /\ OfFreeWiliHub(HubAt(list))
  /\ \A k \in DOMAIN list : IsRead(list[k]) /\ list[k].node = "device"
  /\ \A k \in DOMAIN list : k > 1 =>
       /\ HasDriver(list[k].place)
       /\ \/ Front(list[k].place) = HubAt(list)
          \/ list[k].place \in disturbed /\ ~Undisturbed(HubAt(list))
  /\ Undisturbed(HubAt(list)) =>
       \A k, l \in DOMAIN list : list[k].place = list[l].place => k = l

HasBelow(list, n) ==
  Undisturbed(HubAt(list)) =>
    \A p \in OnPorts(HubAt(list)) : Last(p) < n => Has(list, p)

HasAll(list) == Undisturbed(HubAt(list)) => \A p \in OnPorts(HubAt(list)) : Has(list, p)

VisitingHub == pc \in {"opening", "ports"}

ListingHubs == pc \in {"hubs", "opening", "ports"}

\* The hub being visited has what is on the ports that were asked.
VisitInv ==
  VisitingHub =>
    /\ IsHubGroup(group)
    /\ \A h \in hub : h.path = HubAt(group)
    /\ pc = "opening" => Len(group) = 1
    /\ pc = "ports" =>
         /\ HasBelow(group, port)
         /\ Undisturbed(HubAt(group)) =>
              \A k \in DOMAIN group : k > 1 => Last(group[k].place) < port

GroupsInv(groups) ==
  /\ IsFiniteSet(groups)
  /\ \A list \in groups : IsHubGroup(list) /\ HasAll(list)
  /\ \A list, other \in groups : HubAt(list) = HubAt(other) => list = other

\* No hub is visited twice.
HubsInv ==
  /\ ~ListingHubs => hubGroups = {}
  /\ ListingHubs =>
       /\ SamePathSame(todo)
       /\ \A r \in todo, list \in hubGroups : r.path # HubAt(list)
  /\ VisitingHub =>
       /\ \A r \in todo : r.path # HubAt(group)
       /\ \A list \in hubGroups : HubAt(list) # HubAt(group)

\* A steady hub is visited.
HubsCovered(groups, waiting) ==
  \A p : (Steady(p) /\ is_freewili_hub(tree[p].prod)) =>
           p \in waiting \/ \E list \in groups : HubAt(list) = p

HubsWaiting == {r.path : r \in todo} \cup (IF VisitingHub THEN {HubAt(group)} ELSE {})

-----------------------------------------------------------------------------
(* What the standalone pass gathers. *)

BadgeAt(device) == device.usbDevices[1].place

BadgeNode(device) == device.usbDevices[1].node

\* The nodes of a badge or bootloader that are reported: it, its disk.
ReportedNodes(dev) ==
  (IF dev.prod = "Rp2350Uf2" /\ Len(dev.parts) > 1 /\ EnglishDescriptions THEN {} ELSE {"device"})
    \cup (IF Len(dev.parts) > 1 /\ "disk" \in ToSet(dev.parts) THEN {"interface"} ELSE {})

IsReported(dev) == dev.place \in disturbed \/ dev.node \in ReportedNodes(tree[dev.place])

IsBadge(device) ==
  \E dev : /\ isStandAloneDevice(dev.prod) /\ device = fromUSBDevices(<<dev>>)
           /\ device # BuildError /\ device.usbDevices = <<dev>>
           /\ IsRead(dev) /\ IsReported(dev)

BadgesInv(badges) ==
  /\ IsFiniteSet(badges)
  /\ \A device \in badges : IsBadge(device)
  /\ \A device, other \in badges :
       (BadgeAt(device) = BadgeAt(other) /\ BadgeNode(device) = BadgeNode(other)) => device = other

NodesOnce(records) ==
  \A n, m \in records : (n.path = m.path /\ n.node = m.node) => n = m

IsNodeOf(device, n) == BadgeAt(device) = n.path /\ BadgeNode(device) = n.node

\* No node is visited twice.
NodesInv ==
  /\ pc = "reading standalone" => standalone = {}
  /\ pc = "standalone" =>
       /\ \A n \in todo : ~IsSkipped(n) => n.node \in ReportedNodes(n.dev)
       /\ NodesOnce(todo)
       /\ \A n \in todo, device \in standalone : ~IsNodeOf(device, n)

\* A badge or bootloader with its driver, in a place that did not change.
SteadyBadge(p) == Steady(p) /\ isStandAloneDevice(tree[p].prod) /\ tree[p].bound

\* A steady one is visited, it and its disk.
IsVisited(badges, waiting, p, node) ==
  \/ <<p, node>> \in waiting
  \/ \E device \in badges : BadgeAt(device) = p /\ BadgeNode(device) = node

BadgesCovered(badges, waiting) ==
  "standalone" \notin failed =>
    \A p : SteadyBadge(p) =>
      \A node \in ReportedNodes(tree[p]) : IsVisited(badges, waiting, p, node)

NodesWaiting == IF pc = "standalone" THEN {<<n.path, n.node>> : n \in todo} ELSE {}

-----------------------------------------------------------------------------
(* What the scan has gathered. *)

CoveredInv ==
  /\ ListingHubs => HubsCovered(hubGroups, HubsWaiting)
  /\ pc \notin {"idle", "reading standalone"} => BadgesCovered(standalone, NodesWaiting)

ResultInv ==
  Returned =>
    \E badges, groups :
      /\ BadgesInv(badges) /\ GroupsInv(groups)
      /\ BadgesCovered(badges, {}) /\ HubsCovered(groups, {})
      /\ result.list \in SortedByUniqueID(badges \cup Made(groups))

GInv ==
  /\ PlacedInv /\ ListInv /\ VisitInv /\ GroupsInv(hubGroups) /\ HubsInv
  /\ BadgesInv(standalone) /\ NodesInv /\ CoveredInv /\ ResultInv

-----------------------------------------------------------------------------
(* Places of devices. *)

LEMMA SlotPlace ==
  ASSUME NEW slot \in Slots
  PROVE  LET p == slot.path
         IN  /\ p \in Places /\ p \in Seq(PathElement) /\ Len(p) \in Nat /\ Len(p) > 1 /\ Len(p) # 1
             /\ \A i \in 2..Len(p) : p[i] \in Nat \ {0}
             /\ Head(p) \in Controllers
<1>1. PICK p : p = slot.path
  OBVIOUS
<1>2. p \in Places
  BY <1>1 DEF Places
<1>3. p \in Seq(PathElement) /\ Len(p) > 1 /\ \A i \in 2..Len(p) : p[i] \in Nat \ {0}
  BY <1>1, SlotsAssumption DEF SlotsAssumption, PathElement
<1>4. PICK n : n = Len(p)
  OBVIOUS
<1>5. n \in Nat /\ n > 1
  BY <1>3, <1>4
<1>6. n # 1
  BY <1>5
<1>7. Head(p) \in Controllers
  BY <1>1, SlotsAssumption DEF SlotsAssumption
<1> QED
  BY <1>1, <1>2, <1>3, <1>4, <1>5, <1>6, <1>7

LEMMA PlaceIs ==
  ASSUME NEW p \in Places
  PROVE  /\ p \in Seq(PathElement) /\ Len(p) \in Nat /\ Len(p) > 0
         /\ \/ Len(p) = 1 /\ \E c \in Controllers : p = <<c>>
            \/ Len(p) > 1 /\ \E slot \in Slots : p = slot.path
<1>1. CASE \E c \in Controllers : p = <<c>>
  <2>1. PICK c \in Controllers : p = <<c>>
    BY <1>1
  <2>2. p \in Seq(PathElement) /\ Len(p) = 1
    BY <2>1 DEF PathElement
  <2> QED
    BY <2>1, <2>2
<1>2. CASE \E slot \in Slots : p = slot.path
  <2>1. PICK slot \in Slots : p = slot.path
    BY <1>2
  <2>2. p \in Seq(PathElement) /\ Len(p) \in Nat /\ Len(p) > 1
    BY <2>1, SlotPlace
  <2>3. PICK n : n = Len(p)
    OBVIOUS
  <2>4. n > 0
    BY <2>2, <2>3
  <2> QED
    BY <2>1, <2>2, <2>3, <2>4
<1> QED
  BY <1>1, <1>2 DEF Places

\* A device's place is its port on the hub it hangs on.
LEMMA PortOfPlace ==
  ASSUME NEW p \in Places, Len(p) > 1
  PROVE  /\ Last(p) \in Nat \ {0} /\ Front(p) \in Seq(PathElement)
         /\ Len(Front(p)) = Len(p) - 1 /\ IsPrefix(Front(p), p) /\ Front(p) # p
         /\ p = Append(Front(p), Last(p))
         /\ Len(usbPortChain(p)) > 0 /\ Last(usbPortChain(p)) = Last(p)
         /\ usbPortChain(p) \in Seq(Nat)
<1>1. Len(p) # 1
  <2>1. PICK n : n = Len(p)
    OBVIOUS
  <2>2. n \in Nat /\ n > 1
    BY <2>1, PlaceIs
  <2>3. n # 1
    BY <2>2
  <2> QED
    BY <2>1, <2>3
<1>2. PICK slot \in Slots : p = slot.path
  BY <1>1, PlaceIs
<1>3. PICK n : n = Len(p)
  OBVIOUS
<1>4. /\ p \in Seq(PathElement) /\ n \in Nat /\ n > 1
      /\ \A i \in 2..n : p[i] \in Nat \ {0}
      /\ Head(p) \in Controllers
  BY <1>2, <1>3, SlotPlace
<1>5. Last(p) = p[n] /\ p[n] \in Nat \ {0}
  <2>1. n \in 2..n
    BY <1>4
  <2> QED
    BY <1>3, <1>4, <2>1 DEF Last
<1>6. PICK f : f = Front(p)
  OBVIOUS
<1>7. f \in Seq(PathElement) /\ Len(f) = n - 1 /\ \A i \in 1..(n - 1) : f[i] = p[i]
  BY <1>3, <1>4, <1>6, FrontElements
<1>8. IsPrefix(f, p) /\ f # p
  BY <1>3, <1>4, <1>6, FrontIsPrefix
<1>9. p = Append(f, p[n])
  <2>1. PICK x : x = p[n] /\ x \in PathElement
    BY <1>5 DEF PathElement
  <2>2. PICK a : a = Append(f, x)
    OBVIOUS
  <2>3. a \in Seq(PathElement) /\ Len(a) = n
    BY <1>4, <1>7, <2>1, <2>2
  <2>4. \A i \in 1..n : a[i] = p[i]
    BY <1>4, <1>7, <2>1, <2>2
  <2> QED
    BY <1>3, <1>4, <2>1, <2>2, <2>3, <2>4, SameSequence
<1>10. PICK t : t = Tail(p)
  OBVIOUS
<1>11. t \in Seq(Nat) /\ Len(t) = n - 1 /\ t[n - 1] = p[n]
  <2>1. t \in Seq(PathElement) /\ Len(t) = n - 1 /\ \A i \in 1..(n - 1) : t[i] = p[i + 1]
    BY <1>3, <1>4, <1>10
  <2>2. PICK m \in Nat : m = n - 1 /\ m > 0
    BY <1>4
  <2>3. \A i \in 1..m : t[i] \in Nat
    <3>1. ASSUME NEW i \in 1..m PROVE t[i] \in Nat
      <4>1. i + 1 \in 2..n
        BY <1>4, <2>2
      <4>2. t[i] = p[i + 1]
        BY <2>1, <2>2
      <4> QED
        BY <1>4, <4>1, <4>2
    <3> QED
      BY <3>1
  <2>4. t \in [1..m -> Nat]
    <3>1. t = [i \in 1..m |-> t[i]]
      BY <2>1, <2>2
    <3> QED
      BY <2>3, <3>1
  <2>5. t[m] = p[n]
    <3>1. m \in 1..(n - 1) /\ m + 1 = n
      BY <1>4, <2>2
    <3> QED
      BY <2>1, <3>1
  <2>6. t \in Seq(Nat)
    BY <2>2, <2>4
  <2>7. t[n - 1] = p[n]
    BY <2>2, <2>5
  <2> QED
    BY <2>1, <2>6, <2>7
<1>12. PICK c : c = PciChain[Head(p)]
  OBVIOUS
<1>13. c \in Seq(Nat)
  <2>1. c \in Seq(0..31)
    BY <1>4, <1>12, PciChainAssumption DEF PciChainAssumption
  <2>2. 0..31 \subseteq Nat
    OBVIOUS
  <2> QED
    BY <2>1, <2>2, SeqOfMore
<1>14. PICK u : u = c \o t
  OBVIOUS
<1>15. PICK k : k = Len(c) /\ k \in Nat
  BY <1>13
<1>16. u \in Seq(Nat) /\ Len(u) = k + (n - 1) /\ u[k + (n - 1)] = t[n - 1]
  <2>1. PICK m : m = n - 1
    OBVIOUS
  <2>2. m \in Nat /\ m > 0
    BY <1>4, <2>1
  <2>3. t \in Seq(Nat) /\ Len(t) = m
    BY <1>11, <2>1
  <2>4. u \in Seq(Nat) /\ Len(u) = k + m
    <3>1. u \in Seq(Nat)
      BY <1>13, <1>14, <2>3
    <3>2. Len(c \o t) = Len(c) + Len(t)
      BY <1>13, <2>3, ConcatProperties
    <3> QED
      BY <1>14, <1>15, <2>3, <3>1, <3>2
  <2>5. \A i \in 1..m : u[k + i] = t[i]
    BY <1>13, <1>14, <1>15, <2>2, <2>3
  <2> QED
    BY <2>1, <2>2, <2>4, <2>5
<1>17. Len(u) > 0 /\ Last(u) = p[n]
  BY <1>4, <1>11, <1>15, <1>16 DEF Last
<1>18. usbPortChain(p) = u
  BY <1>10, <1>12, <1>14 DEF usbPortChain
<1> QED
  BY <1>3, <1>5, <1>6, <1>7, <1>8, <1>9, <1>16, <1>17, <1>18

-----------------------------------------------------------------------------
(* A hot-plug event changes the tree at some places only. *)

Leaves(paths) ==
  /\ \A p \in DOMAIN tree : (p \in DOMAIN tree' /\ tree'[p] = tree[p]) \/ p \in paths
  /\ \A p \in DOMAIN tree' : p \in DOMAIN tree \/ p \in paths

\* At these places a device may be gone, or its key be known by now.
IsAged(new, old, paths) ==
  /\ new.path = old.path /\ new.dev = old.dev /\ new.node = old.node /\ new.chain = old.chain
  /\ ~new.live => ~old.live \/ old.path \in paths
  /\ new.key = old.key \/ old.path \in paths

\* The records of before, but for those at these places.
Aged(old, new, paths) ==
  \E f : new = {f[r] : r \in old} /\ \A r \in old : IsAged(f[r], r, paths)

LEMMA NoneAged ==
  ASSUME NEW records, NEW paths
  PROVE  Aged(records, records, paths)
<1>1. PICK f : f = [r \in records |-> r]
  OBVIOUS
<1>2. records = {f[r] : r \in records} /\ \A r \in records : f[r] = r
  BY <1>1
<1>3. \A r \in records : IsAged(f[r], r, paths)
  BY <1>2 DEF IsAged
<1> QED
  BY <1>2, <1>3 DEF Aged

LEMMA SomeAged ==
  ASSUME NEW records, records \subseteq Records, NEW gone
  PROVE  Aged(records, WithDead(records, gone), gone)
<1> DEFINE dead(r) == [r EXCEPT !.live = r.live /\ r.path \notin gone]
<1>1. PICK f : f = [r \in records |-> dead(r)]
  OBVIOUS
<1>2. \A r \in records : f[r] = dead(r)
  BY <1>1
<1>3. WithDead(records, gone) = {f[r] : r \in records}
  <2>1. WithDead(records, gone) = {dead(r) : r \in records}
    BY DEF WithDead
  <2> HIDE DEF dead
  <2>2. {dead(r) : r \in records} = {f[r] : r \in records}
    BY <1>2
  <2> QED
    BY <2>1, <2>2
<1>4. ASSUME NEW r \in records
      PROVE  IsAged(f[r], r, gone)
  <2>1. r \in Records /\ f[r] = dead(r)
    BY <1>2
  <2>2. DOMAIN r = {"path", "dev", "node", "live", "key", "chain"}
    BY <2>1 DEF Records
  <2>3. /\ dead(r).path = r.path /\ dead(r).dev = r.dev /\ dead(r).node = r.node
        /\ dead(r).chain = r.chain /\ dead(r).key = r.key
        /\ dead(r).live = (r.live /\ r.path \notin gone)
    BY <2>2
  <2> QED
    BY <2>1, <2>3 DEF IsAged
<1> QED
  BY <1>3, <1>4 DEF Aged

LEMMA KeysAged ==
  ASSUME NEW records, records \subseteq Records, NEW path
  PROVE  Aged(records, {[r EXCEPT !.key = r.key \/ (r.live /\ r.path = path)] : r \in records},
              {path})
<1> DEFINE bound(r) == [r EXCEPT !.key = r.key \/ (r.live /\ r.path = path)]
<1>1. PICK f : f = [r \in records |-> bound(r)]
  OBVIOUS
<1>2. \A r \in records : f[r] = bound(r)
  BY <1>1
<1>3. ASSUME NEW r \in records
      PROVE  IsAged(f[r], r, {path})
  <2>1. r \in Records /\ f[r] = bound(r)
    BY <1>2
  <2>2. DOMAIN r = {"path", "dev", "node", "live", "key", "chain"} /\ r.key \in BOOLEAN
    BY <2>1 DEF Records
  <2>3. /\ bound(r).path = r.path /\ bound(r).dev = r.dev /\ bound(r).node = r.node
        /\ bound(r).chain = r.chain /\ bound(r).live = r.live
        /\ bound(r).key = (r.key \/ (r.live /\ r.path = path))
    BY <2>2
  <2>4. bound(r).key = r.key \/ r.path = path
    BY <2>2, <2>3
  <2> QED
    BY <2>1, <2>3, <2>4 DEF IsAged
<1> HIDE DEF bound
<1>4. {bound(r) : r \in records} = {f[r] : r \in records}
  BY <1>2
<1>5. Aged(records, {bound(r) : r \in records}, {path})
  BY <1>3, <1>4 DEF Aged
<1> QED
  BY <1>5 DEF bound

LEMMA PlugPlaced ==
  ASSUME WInv, PlacedInv, NEW slot \in Slots, Plug(slot)
  PROVE  PlacedInv' /\ Leaves({slot.path})
<1>1. PICK x : x = slot.path
  OBVIOUS
<1>2. /\ DOMAIN tree' = DOMAIN tree \cup {x}
      /\ \A p \in DOMAIN tree : tree'[p] = tree[p]
      /\ tree'[x] = NewDev(slot)
      /\ x \notin DOMAIN tree /\ Front(x) \in DOMAIN tree
  BY <1>1, PlugTree
<1>3. IsPlaced(x, NewDev(slot))
  <2>1. NewDev(slot) \in BoundLater(NewDev(slot))
    BY DEF BoundLater
  <2> QED
    BY <1>1, <2>1, SlotPlace DEF IsPlaced
<1>4. \A p \in DOMAIN tree' : IsPlaced(p, tree'[p])
  BY <1>2, <1>3 DEF PlacedInv
<1>5. ASSUME NEW p \in DOMAIN tree', OnFreeWiliPort(p)'
      PROVE  Last(p) \in 1..NumberOfPorts
  <2>1. CASE p = x
    <3>1. is_freewili_hub(tree[Front(x)].prod)
      BY <1>2, <1>5, <2>1 DEF OnFreeWiliPort
    <3> QED
      BY <1>1, <2>1, <3>1 DEF Plug
  <2>2. CASE p # x
    <3>1. p \in DOMAIN tree /\ p \in Places
      BY <1>2, <2>2 DEF WInv, TreeInv
    <3>2. Len(p) > 1 /\ Len(p) # 1
      <4>1. PICK n : n = Len(p) /\ n \in Nat
        BY <3>1, PlaceIs
      <4>2. n > 1
        BY <1>5, <4>1 DEF OnFreeWiliPort
      <4> QED
        BY <4>1, <4>2
    <3>3. Front(p) \in DOMAIN tree
      BY <3>1, <3>2 DEF WInv, TreeInv
    <3>4. OnFreeWiliPort(p)
      BY <1>2, <1>5, <3>3 DEF OnFreeWiliPort
    <3> QED
      BY <3>1, <3>4 DEF PlacedInv
  <2> QED
    BY <2>1, <2>2
<1>9. ASSUME NEW p \in DOMAIN tree', Len(p) > 1
      PROVE  IsHub(tree'[Front(p)].prod)
  <2>1. CASE p = x
    <3>1. IsHub(tree[Front(x)].prod)
      BY <1>1 DEF Plug
    <3> QED
      BY <1>2, <2>1, <3>1
  <2>2. CASE p # x
    <3>1. p \in DOMAIN tree /\ p \in Places
      BY <1>2, <2>2 DEF WInv, TreeInv
    <3>2. Len(p) # 1
      <4>1. PICK n : n = Len(p) /\ n \in Nat
        BY <3>1, PlaceIs
      <4>2. n > 1
        BY <1>9, <4>1
      <4>3. n # 1
        BY <4>1, <4>2
      <4> QED
        BY <4>1, <4>3
    <3>3. Front(p) \in DOMAIN tree /\ IsHub(tree[Front(p)].prod)
      BY <1>9, <3>1, <3>2 DEF WInv, TreeInv, PlacedInv
    <3> QED
      BY <1>2, <3>3
  <2> QED
    BY <2>1, <2>2
<1>6. ASSUME NEW p \in DOMAIN tree', NEW q \in DOMAIN tree',
             InstanceId(p, tree'[p]) = InstanceId(q, tree'[q])
      PROVE  p = q
  <2>1. \A y \in DOMAIN tree : InstanceId(y, tree[y]) # InstanceId(x, NewDev(slot))
    BY <1>1 DEF Plug, NewDev
  <2>2. CASE p = x /\ q = x
    BY <2>2
  <2>3. CASE p = x /\ q # x
    BY <1>2, <1>6, <2>1, <2>3
  <2>4. CASE p # x /\ q = x
    BY <1>2, <1>6, <2>1, <2>4
  <2>5. CASE p # x /\ q # x
    BY <1>2, <1>6, <2>5 DEF PlacedInv
  <2> QED
    BY <2>2, <2>3, <2>4, <2>5
<1>7. PlacedInv'
  <2>1. \A p \in DOMAIN tree' : OnFreeWiliPort(p)' => Last(p) \in 1..NumberOfPorts
    BY <1>5
  <2>2. \A p, q \in DOMAIN tree' :
          InstanceId(p, tree'[p]) = InstanceId(q, tree'[q]) => p = q
    BY <1>6
  <2> QED
    BY <1>4, <1>9, <2>1, <2>2 DEF PlacedInv, IsPlaced, InstanceId
<1>8. Leaves({x})
  BY <1>2 DEF Leaves
<1> QED
  BY <1>1, <1>7, <1>8

LEMMA UnplugPlaced ==
  ASSUME WInv, PlacedInv, NEW path \in DOMAIN tree, Unplug(path), WInv'
  PROVE  PlacedInv' /\ Leaves(Subtree(path))
<1>1. PICK gone : gone = Subtree(path)
  OBVIOUS
<1>2. /\ DOMAIN tree' = DOMAIN tree \ gone
      /\ \A p \in DOMAIN tree' : tree'[p] = tree[p]
  BY <1>1, UnplugTree
<1>3. Leaves(gone)
  BY <1>2 DEF Leaves
<1>4. ASSUME NEW p \in DOMAIN tree', OnFreeWiliPort(p)'
      PROVE  Last(p) \in 1..NumberOfPorts
  <2>1. p \in DOMAIN tree' /\ p \in Places
    BY DEF WInv, TreeInv
  <2>2. Len(p) > 1 /\ Len(p) # 1
    <3>1. PICK n : n = Len(p) /\ n \in Nat
      BY <2>1, PlaceIs
    <3>2. n > 1
      BY <1>4, <3>1 DEF OnFreeWiliPort
    <3> QED
      BY <3>1, <3>2
  <2>3. Front(p) \in DOMAIN tree'
    BY <2>1, <2>2 DEF WInv, TreeInv
  <2>4. OnFreeWiliPort(p)
    BY <1>2, <1>4, <2>3 DEF OnFreeWiliPort
  <2> QED
    BY <1>2, <2>4 DEF PlacedInv
<1>5. PlacedInv'
  <2>1. \A p \in DOMAIN tree' : OnFreeWiliPort(p)' => Last(p) \in 1..NumberOfPorts
    BY <1>4
  <2>2. \A p \in DOMAIN tree' : IsPlaced(p, tree'[p])
    BY <1>2 DEF PlacedInv
  <2>3. \A p, q \in DOMAIN tree' :
          InstanceId(p, tree'[p]) = InstanceId(q, tree'[q]) => p = q
    BY <1>2 DEF PlacedInv
  <2>4. ASSUME NEW p \in DOMAIN tree', Len(p) > 1
        PROVE  IsHub(tree'[Front(p)].prod)
    <3>1. p \in Places
      BY DEF WInv, TreeInv
    <3>2. Len(p) # 1
      <4>1. PICK n : n = Len(p) /\ n \in Nat
        BY <3>1, PlaceIs
      <4>2. n > 1
        BY <2>4, <4>1
      <4> QED
        BY <4>1, <4>2
    <3>3. Front(p) \in DOMAIN tree'
      BY <3>2 DEF WInv, TreeInv
    <3>4. IsHub(tree[Front(p)].prod)
      BY <1>2, <2>4 DEF PlacedInv
    <3> QED
      BY <1>2, <3>3, <3>4
  <2> QED
    BY <2>1, <2>2, <2>3, <2>4 DEF PlacedInv, IsPlaced, InstanceId
<1> QED
  BY <1>1, <1>3, <1>5

LEMMA BindPlaced ==
  ASSUME WInv, PlacedInv, NEW path \in DOMAIN tree, Bind(path)
  PROVE  PlacedInv' /\ Leaves({path})
<1>1. TreeInv
  BY DEF WInv
<1>2. /\ DOMAIN tree' = DOMAIN tree
      /\ \A p \in DOMAIN tree : tree'[p] \in BoundLater(tree[p])
      /\ \A p \in DOMAIN tree : p # path => tree'[p] = tree[p]
      /\ tree'[path].bound /\ ~tree[path].bound
  BY <1>1, BindTree
<1>3. \A p \in DOMAIN tree : tree[p] \in Attachable
  BY <1>1 DEF TreeInv
<1>4. \A p \in DOMAIN tree : /\ tree'[p].prod = tree[p].prod
                            /\ InstanceId(p, tree'[p]) = InstanceId(p, tree[p])
  BY <1>2, <1>3, BoundKeeps, SameInstanceId
<1>5. IsPlaced(path, tree'[path])
  <2>1. IsPlaced(path, tree[path])
    BY DEF PlacedInv
  <2>2. ~RootHub.bound => FALSE
    BY DEF RootHub
  <2>3. Len(path) # 1
    BY <1>2, <2>1, <2>2 DEF IsPlaced
  <2>4. PICK slot \in Slots : slot.path = path /\ tree[path] \in BoundLater(NewDev(slot))
    BY <2>1, <2>3 DEF IsPlaced
  <2>5. NewDev(slot) \in Attachable
    BY AttachableAre
  <2>6. WithDriver(tree[path]) \in BoundLater(NewDev(slot))
    BY <2>4, <2>5, BoundKeeps
  <2>7. tree'[path] = tree[path] \/ tree'[path] = WithDriver(tree[path])
    BY <1>2 DEF BoundLater, WithDriver
  <2> QED
    BY <2>3, <2>4, <2>6, <2>7 DEF IsPlaced
<1>6. \A p \in DOMAIN tree' : IsPlaced(p, tree'[p])
  BY <1>2, <1>5 DEF PlacedInv
<1>7. \A p \in DOMAIN tree' : Len(p) > 1 => Front(p) \in DOMAIN tree
  <2>1. ASSUME NEW p \in DOMAIN tree', Len(p) > 1
        PROVE  Front(p) \in DOMAIN tree
    <3>1. p \in DOMAIN tree /\ p \in Places
      BY <1>1, <1>2 DEF TreeInv
    <3>2. Len(p) # 1
      <4>1. PICK n : n = Len(p) /\ n \in Nat
        BY <3>1, PlaceIs
      <4>2. n > 1
        BY <2>1, <4>1
      <4> QED
        BY <4>1, <4>2
    <3> QED
      BY <1>1, <3>1, <3>2 DEF TreeInv
  <2> QED
    BY <2>1
<1>8. \A p \in DOMAIN tree' : Len(p) > 1 => IsHub(tree'[Front(p)].prod)
  BY <1>2, <1>4, <1>7 DEF PlacedInv
<1>9. \A p \in DOMAIN tree' : OnFreeWiliPort(p)' => Last(p) \in 1..NumberOfPorts
  <2>1. ASSUME NEW p \in DOMAIN tree', OnFreeWiliPort(p)'
        PROVE  Last(p) \in 1..NumberOfPorts
    <3>1. OnFreeWiliPort(p)
      BY <1>2, <1>4, <1>7, <2>1 DEF OnFreeWiliPort
    <3> QED
      BY <1>2, <3>1 DEF PlacedInv
  <2> QED
    BY <2>1
<1>10. \A p, q \in DOMAIN tree' :
         InstanceId(p, tree'[p]) = InstanceId(q, tree'[q]) => p = q
  BY <1>2, <1>4 DEF PlacedInv
<1>11. PlacedInv'
  BY <1>6, <1>8, <1>9, <1>10 DEF PlacedInv, IsPlaced, InstanceId
<1>12. Leaves({path})
  BY <1>2 DEF Leaves
<1> QED
  BY <1>11, <1>12

-----------------------------------------------------------------------------
(* What was read stays true, or is of a place that changed. *)

Disturbs(paths) == Leaves(paths) /\ disturbed' = disturbed \cup paths

\* A step of the scan leaves the devices alone.
LEMMA NoneDisturbs ==
  ASSUME UNCHANGED <<tree, disturbed>>
  PROVE  Disturbs({})
BY DEF Disturbs, Leaves

LEMMA SteadyStays ==
  ASSUME NEW paths, Disturbs(paths), NEW p, Steady(p)'
  PROVE  Steady(p) /\ tree'[p] = tree[p]
BY DEF Disturbs, Leaves, Steady

LEMMA UndisturbedStays ==
  ASSUME NEW paths, Disturbs(paths), NEW hubPlace, Undisturbed(hubPlace)'
  PROVE  /\ Undisturbed(hubPlace)
         /\ \A p \in OnPorts(hubPlace)' : p \in OnPorts(hubPlace) /\ tree'[p] = tree[p]
<1>1. Undisturbed(hubPlace)
  BY DEF Undisturbed, Disturbs
<1>2. ASSUME NEW p \in OnPorts(hubPlace)'
      PROVE  p \in OnPorts(hubPlace) /\ tree'[p] = tree[p]
  <2>1. p \in DOMAIN tree' /\ IsPrefix(hubPlace, p) /\ Len(p) = Len(hubPlace) + 1
    BY DEF OnPorts, Subtree
  <2>2. p \notin disturbed'
    BY <2>1 DEF Undisturbed
  <2>3. p \in DOMAIN tree /\ tree'[p] = tree[p]
    BY <2>1, <2>2 DEF Disturbs, Leaves
  <2> QED
    BY <2>1, <2>3 DEF OnPorts, Subtree
<1> QED
  BY <1>1, <1>2

LEMMA ChainStays ==
  ASSUME NEW paths, Disturbs(paths), NEW chain, NEW place, IsChain(chain, place)
  PROVE  IsChain(chain, place)'
BY DEF Disturbs, IsChain

LEMMA ReadStays ==
  ASSUME NEW paths, Disturbs(paths), NEW dev, IsRead(dev)
  PROVE  IsRead(dev)'
<1>1. PICK p : p = dev.place
  OBVIOUS
<1>2. IsChain(dev.portChain, dev.place)'
  BY ChainStays DEF IsRead
<1>3. CASE p \in disturbed'
  BY <1>1, <1>2, <1>3 DEF IsRead
<1>4. CASE p \notin disturbed'
  <2>1. p \notin disturbed /\ p \notin paths
    BY <1>4 DEF Disturbs
  <2>2. /\ p \in DOMAIN tree /\ dev.prod = tree[p].prod
        /\ IsOwnNode(dev.node, tree[p].parts) => Fits(dev, p)
    BY <1>1, <2>1 DEF IsRead
  <2>3. p \in DOMAIN tree' /\ tree'[p] = tree[p]
    BY <2>1, <2>2 DEF Disturbs, Leaves
  <2>4. VolumesDisturbed => VolumesDisturbed'
    BY DEF VolumesDisturbed, Disturbs
  <2>5. Fits(dev, p) => Fits(dev, p)'
    BY <2>3, <2>4 DEF Fits
  <2> QED
    BY <1>1, <1>2, <2>2, <2>3, <2>5 DEF IsRead
<1> QED
  BY <1>3, <1>4

LEMMA HubGroupStays ==
  ASSUME NEW paths, Disturbs(paths), NEW list, IsHubGroup(list)
  PROVE  IsHubGroup(list)'
<1>1. \A k \in DOMAIN list : IsRead(list[k])' /\ list[k].node = "device"
  BY ReadStays DEF IsHubGroup
<1>2. PICK h : h = HubAt(list)
  OBVIOUS
<1>3. Undisturbed(h)' => Undisturbed(h)
  BY UndisturbedStays
<1>4. \A k \in DOMAIN list : k > 1 =>
        \/ Front(list[k].place) = h
        \/ list[k].place \in disturbed' /\ ~Undisturbed(h)'
  BY <1>2, <1>3 DEF IsHubGroup, Disturbs
<1>8. \A k \in DOMAIN list : k > 1 => HasDriver(list[k].place)'
  <2>1. \A p : HasDriver(p) => HasDriver(p)'
    BY DEF HasDriver, Disturbs, Leaves
  <2> QED
    BY <2>1 DEF IsHubGroup
<1>5. Undisturbed(h)' =>
        \A k, l \in DOMAIN list : list[k].place = list[l].place => k = l
  BY <1>2, <1>3 DEF IsHubGroup
<1>6. HubAt(list)' = h
  BY <1>2 DEF HubAt
<1>7. OfFreeWiliHub(h)'
  BY <1>2 DEF IsHubGroup, OfFreeWiliHub
<1> QED
  BY <1>1, <1>4, <1>5, <1>6, <1>7, <1>8 DEF IsHubGroup

LEMMA HasStays ==
  ASSUME NEW paths, Disturbs(paths), NEW list, NEW n
  PROVE  /\ HasBelow(list, n) => HasBelow(list, n)'
         /\ HasAll(list) => HasAll(list)'
<1>1. PICK h : h = HubAt(list)
  OBVIOUS
<1>2. Undisturbed(h)' => Undisturbed(h) /\ \A p \in OnPorts(h)' : p \in OnPorts(h)
  BY UndisturbedStays
<1>3. HubAt(list)' = h
  BY <1>1 DEF HubAt
<1>4. HasBelow(list, n) => HasBelow(list, n)'
  BY <1>1, <1>2, <1>3 DEF HasBelow, Has
<1>5. HasAll(list) => HasAll(list)'
  BY <1>1, <1>2, <1>3 DEF HasAll, Has
<1> QED
  BY <1>4, <1>5

LEMMA GroupsStay ==
  ASSUME NEW paths, Disturbs(paths), NEW groups, GroupsInv(groups)
  PROVE  GroupsInv(groups)'
<1>1. \A list \in groups : IsHubGroup(list)' /\ HasAll(list)'
  BY HubGroupStays, HasStays DEF GroupsInv
<1> QED
  BY <1>1 DEF GroupsInv, HubAt

LEMMA HubsStayCovered ==
  ASSUME NEW paths, Disturbs(paths), NEW groups, NEW waiting, HubsCovered(groups, waiting)
  PROVE  HubsCovered(groups, waiting)'
<1> SUFFICES ASSUME NEW p, Steady(p)', is_freewili_hub(tree'[p].prod)
             PROVE  p \in waiting \/ \E list \in groups : HubAt(list) = p
  BY DEF HubsCovered, HubAt
<1>1. Steady(p) /\ tree'[p] = tree[p]
  BY SteadyStays
<1> QED
  BY <1>1 DEF HubsCovered

LEMMA BadgesStay ==
  ASSUME NEW paths, Disturbs(paths), NEW badges, BadgesInv(badges)
  PROVE  BadgesInv(badges)'
<1>1. ASSUME NEW device \in badges
      PROVE  IsBadge(device)'
  <2>1. PICK dev : /\ isStandAloneDevice(dev.prod) /\ device = fromUSBDevices(<<dev>>)
                   /\ device # BuildError /\ device.usbDevices = <<dev>>
                   /\ IsRead(dev) /\ IsReported(dev)
    BY DEF BadgesInv, IsBadge
  <2>2. IsRead(dev)'
    BY <2>1, ReadStays
  <2>3. IsReported(dev)'
    <3> SUFFICES ASSUME dev.place \notin disturbed'
                 PROVE  dev.node \in ReportedNodes(tree'[dev.place])
      BY DEF IsReported
    <3>1. dev.place \notin disturbed /\ dev.place \notin paths
      BY DEF Disturbs
    <3>2. dev.place \in DOMAIN tree /\ dev.node \in ReportedNodes(tree[dev.place])
      BY <2>1, <3>1 DEF IsRead, IsReported
    <3>3. tree'[dev.place] = tree[dev.place]
      BY <3>1, <3>2 DEF Disturbs, Leaves
    <3> QED
      BY <3>2, <3>3
  <2> QED
    BY <2>1, <2>2, <2>3 DEF IsBadge
<1> QED
  BY <1>1 DEF BadgesInv, BadgeAt, BadgeNode

LEMMA BadgesStayCovered ==
  ASSUME NEW paths, Disturbs(paths), failed' = failed,
         NEW badges, NEW waiting, BadgesCovered(badges, waiting)
  PROVE  BadgesCovered(badges, waiting)'
<1> SUFFICES ASSUME "standalone" \notin failed, NEW p, SteadyBadge(p)',
                    NEW node \in ReportedNodes(tree'[p])
             PROVE  IsVisited(badges, waiting, p, node)
  BY DEF BadgesCovered
<1>1. Steady(p)'
  BY DEF SteadyBadge
<1>2. Steady(p) /\ tree'[p] = tree[p]
  BY <1>1, SteadyStays
<1>3. SteadyBadge(p)
  BY <1>2 DEF SteadyBadge
<1>4. node \in ReportedNodes(tree[p])
  BY <1>2
<1> QED
  BY <1>3, <1>4 DEF BadgesCovered

LEMMA AgedRecords ==
  ASSUME NEW old, NEW new, NEW paths, Aged(old, new, paths)
  PROVE  /\ \A r \in new : \E o \in old : IsAged(r, o, paths)
         /\ \A o \in old : \E r \in new : IsAged(r, o, paths)
         /\ SamePathSame(old) => SamePathSame(new)
         /\ NodesOnce(old) => NodesOnce(new)
         /\ {r.path : r \in new} = {o.path : o \in old}
         /\ {<<r.path, r.node>> : r \in new} = {<<o.path, o.node>> : o \in old}
<1>1. PICK f : new = {f[r] : r \in old} /\ \A r \in old : IsAged(f[r], r, paths)
  BY DEF Aged
<1>2. \A r \in new : \E o \in old : r = f[o]
  BY <1>1
<1>3. \A o \in old : f[o] \in new
  BY <1>1
<1>4. \A o \in old : f[o].path = o.path /\ f[o].node = o.node
  BY <1>1 DEF IsAged
<1>5. \A r \in new : \E o \in old : IsAged(r, o, paths)
  BY <1>1, <1>2
<1>6. \A o \in old : \E r \in new : IsAged(r, o, paths)
  BY <1>1, <1>3
<1>7. SamePathSame(old) => SamePathSame(new)
  BY <1>2, <1>4 DEF SamePathSame
<1>8. NodesOnce(old) => NodesOnce(new)
  BY <1>2, <1>4 DEF NodesOnce
<1>9. {r.path : r \in new} = {o.path : o \in old}
  BY <1>2, <1>3, <1>4
<1>10. {<<r.path, r.node>> : r \in new} = {<<o.path, o.node>> : o \in old}
  BY <1>2, <1>3, <1>4
<1> QED
  BY <1>5, <1>6, <1>7, <1>8, <1>9, <1>10

\* What holds of every record.
IsOld(r) ==
  IsPlaced(r.path, r.dev) /\ IsChain(r.chain, r.path) /\ (~r.live => r.path \in disturbed)

LEMMA AgedStayOld ==
  ASSUME NEW paths, Disturbs(paths), NEW old, \A r \in old : IsOld(r),
         NEW new, Aged(old, new, paths)
  PROVE  \A r \in new : IsOld(r)'
<1>1. ASSUME NEW r \in new
      PROVE  IsOld(r)'
  <2>1. PICK o \in old : IsAged(r, o, paths)
    BY AgedRecords
  <2>2. IsOld(o) /\ r.path = o.path /\ r.dev = o.dev /\ r.chain = o.chain
    BY <2>1 DEF IsAged
  <2>3. IsChain(r.chain, r.path)'
    BY <2>2, ChainStays DEF IsOld
  <2>4. ~r.live => r.path \in disturbed'
    BY <2>1, <2>2 DEF IsAged, IsOld, Disturbs
  <2>5. IsPlaced(r.path, r.dev)'
    BY <2>2 DEF IsOld, IsPlaced
  <2> QED
    BY <2>3, <2>4, <2>5 DEF IsOld
<1> QED
  BY <1>1

LEMMA ListStays ==
  ASSUME ListInv, NEW paths, Disturbs(paths), pc' = pc,
         Aged(devices, devices', paths), Aged(todo, todo', paths), Aged(hub, hub', paths)
  PROVE  ListInv'
<1>1. \A r \in devices \cup todo \cup hub : IsOld(r)
  BY DEF ListInv, IsOld
<1>2. \A r \in devices' \cup todo' \cup hub' : IsOld(r)'
  <2>1. \A r \in devices' : IsOld(r)'
    BY <1>1, AgedStayOld
  <2>2. \A r \in todo' : IsOld(r)'
    BY <1>1, AgedStayOld
  <2>3. \A r \in hub' : IsOld(r)'
    BY <1>1, AgedStayOld
  <2> QED
    BY <2>1, <2>2, <2>3
<1>3. /\ \A r \in devices' : \E o \in devices : IsAged(r, o, paths)
      /\ \A o \in devices : \E r \in devices' : IsAged(r, o, paths)
      /\ SamePathSame(devices')
  BY AgedRecords DEF ListInv
<1>4. \A r \in devices' : r.node = "device"
  BY <1>3 DEF ListInv, IsAged
<1>5. ASSUME NEW r \in devices', NEW s \in devices',
             InstanceId(r.path, r.dev) = InstanceId(s.path, s.dev)
      PROVE  r.path = s.path
  <2>1. PICK o \in devices, q \in devices :
          r.path = o.path /\ r.dev = o.dev /\ s.path = q.path /\ s.dev = q.dev
    BY <1>3 DEF IsAged
  <2>2. InstanceId(o.path, o.dev) = InstanceId(q.path, q.dev)
    BY <1>5, <2>1
  <2> QED
    BY <2>1, <2>2 DEF ListInv, SameIDSamePath
<1>6. ~HasList' => devices' = {}
  BY <1>3 DEF ListInv, HasList, InFreeWiliPass
<1>7. ASSUME HasList, NEW p, Steady(p)'
      PROVE  \E r \in devices' : r.path = p /\ r.dev = tree'[p] /\ r.key = tree'[p].bound
  <2>1. Steady(p) /\ tree'[p] = tree[p]
    BY <1>7, SteadyStays
  <2>2. PICK o \in devices : o.path = p /\ o.dev = tree[p] /\ o.key = tree[p].bound
    BY <1>7, <2>1 DEF ListInv
  <2>3. PICK r \in devices' : IsAged(r, o, paths)
    BY <1>3
  <2>4. p \notin paths
    BY <1>7 DEF Steady, Disturbs
  <2> QED
    BY <2>1, <2>2, <2>3, <2>4 DEF IsAged
<1>8. HasList' = HasList
  BY DEF HasList, InFreeWiliPass
<1>9. SameIDSamePath(devices)'
  BY <1>5 DEF SameIDSamePath, InstanceId
<1>10. SamePathSame(devices)'
  BY <1>3 DEF SamePathSame
<1> QED
  BY <1>2, <1>4, <1>6, <1>7, <1>8, <1>9, <1>10 DEF ListInv, IsPlaced, IsOld

LEMMA VisitStays ==
  ASSUME VisitInv, NEW paths, Disturbs(paths), Aged(hub, hub', paths),
         UNCHANGED <<pc, port, group>>
  PROVE  VisitInv'
<1> SUFFICES ASSUME VisitingHub PROVE VisitInv'
  BY DEF VisitInv, VisitingHub
<1>1. PICK list : list = group
  OBVIOUS
<1>2. group' = list
  BY <1>1
<1>3. PICK h : h = HubAt(list)
  OBVIOUS
<1>4. PICK n : n = port
  OBVIOUS
<1>5. /\ IsHubGroup(list) /\ \A r \in hub : r.path = h
      /\ pc = "opening" => Len(list) = 1
      /\ pc = "ports" => HasBelow(list, n)
      /\ pc = "ports" => (Undisturbed(h) => \A k \in DOMAIN list : k > 1 => Last(list[k].place) < n)
  BY <1>1, <1>3, <1>4 DEF VisitInv
<1>6. IsHubGroup(list)'
  BY <1>5, HubGroupStays
<1>7. pc = "ports" => HasBelow(list, n)'
  BY <1>5, HasStays
<1>8. Undisturbed(h)' => Undisturbed(h)
  BY UndisturbedStays
<1>9. \A r \in hub' : r.path = h
  BY <1>5, AgedRecords DEF IsAged
<1>10. IsHubGroup(group)'
  BY <1>2, <1>6 DEF IsHubGroup
<1>11. pc = "ports" => HasBelow(group, port)'
  BY <1>1, <1>2, <1>4, <1>7 DEF HasBelow
<1>12. HubAt(group)' = h
  BY <1>2, <1>3 DEF HubAt
<1>13. pc = "ports" =>
         (Undisturbed(h)' => \A k \in DOMAIN group' : k > 1 => Last(group'[k].place) < port')
  BY <1>2, <1>4, <1>5, <1>8
<1>14. Undisturbed(HubAt(group))' = Undisturbed(h)'
  BY <1>12 DEF Undisturbed
<1>15. pc' = pc /\ VisitingHub'
  BY DEF VisitingHub
<1> QED
  BY <1>2, <1>5, <1>9, <1>10, <1>11, <1>12, <1>13, <1>14, <1>15 DEF VisitInv

LEMMA HubsStay ==
  ASSUME HubsInv, NEW paths, Aged(todo, todo', paths), UNCHANGED <<pc, group, hubGroups>>
  PROVE  HubsInv'
<1>1. \A r \in todo' : \E o \in todo : r.path = o.path
  BY AgedRecords DEF IsAged
<1>2. SamePathSame(todo) => SamePathSame(todo)'
  BY AgedRecords DEF SamePathSame
<1>3. ListingHubs' = ListingHubs /\ VisitingHub' = VisitingHub
  BY DEF ListingHubs, VisitingHub
<1> QED
  BY <1>1, <1>2, <1>3 DEF HubsInv, HubAt

LEMMA NodesStay ==
  ASSUME NodesInv, NEW paths, Aged(todo, todo', paths), UNCHANGED <<pc, standalone>>
  PROVE  NodesInv'
<1> SUFFICES ASSUME pc = "standalone" PROVE NodesInv'
  BY DEF NodesInv
<1>1. \A r \in todo' : \E o \in todo : r.path = o.path /\ r.dev = o.dev /\ r.node = o.node
  BY AgedRecords DEF IsAged
<1>2. ASSUME NEW n \in todo', ~IsSkipped(n)
      PROVE  n.node \in ReportedNodes(n.dev)
  <2>1. PICK o \in todo : n.path = o.path /\ n.dev = o.dev /\ n.node = o.node
    BY <1>1
  <2>2. ~IsSkipped(o)
    BY <1>2, <2>1 DEF IsSkipped
  <2> QED
    BY <2>1, <2>2 DEF NodesInv
<1>3. NodesOnce(todo')
  BY AgedRecords DEF NodesInv
<1>4. \A n \in todo', device \in standalone : ~IsNodeOf(device, n)
  BY <1>1 DEF NodesInv, IsNodeOf
<1> QED
  BY <1>2, <1>3, <1>4 DEF NodesInv, NodesOnce, IsSkipped, IsNodeOf, BadgeAt, BadgeNode

LEMMA WaitingStay ==
  ASSUME NEW paths, Aged(todo, todo', paths), UNCHANGED <<pc, group>>
  PROVE  HubsWaiting' = HubsWaiting /\ NodesWaiting' = NodesWaiting
<1>1. {r.path : r \in todo'} = {o.path : o \in todo}
  BY AgedRecords
<1>2. HubsWaiting' = HubsWaiting
  BY <1>1 DEF HubsWaiting, VisitingHub, HubAt
<1>3. {<<r.path, r.node>> : r \in todo'} = {<<o.path, o.node>> : o \in todo}
  BY AgedRecords
<1>4. NodesWaiting' = NodesWaiting
  BY <1>3 DEF NodesWaiting
<1> QED
  BY <1>2, <1>4

LEMMA CoveredStays ==
  ASSUME CoveredInv, NEW paths, Disturbs(paths), Aged(todo, todo', paths),
         UNCHANGED <<pc, group, hubGroups, standalone, failed>>
  PROVE  CoveredInv'
<1>1. PICK G, S, W, N : G = hubGroups /\ S = standalone /\ W = HubsWaiting /\ N = NodesWaiting
  OBVIOUS
<1>2. HubsWaiting' = W /\ NodesWaiting' = N
  BY <1>1, WaitingStay
<1>3. hubGroups' = G /\ standalone' = S
  BY <1>1
<1>4. HubsCovered(G, W) => HubsCovered(G, W)'
  BY HubsStayCovered
<1>5. BadgesCovered(S, N) => BadgesCovered(S, N)'
  BY BadgesStayCovered
<1>6. ListingHubs => HubsCovered(hubGroups, HubsWaiting)'
  BY <1>1, <1>2, <1>3, <1>4 DEF CoveredInv, HubsCovered, HubAt
<1>7. pc \notin {"idle", "reading standalone"} => BadgesCovered(standalone, NodesWaiting)'
  <2> SUFFICES ASSUME pc \notin {"idle", "reading standalone"}
               PROVE  BadgesCovered(standalone, NodesWaiting)'
    OBVIOUS
  <2>1. BadgesCovered(S, N)
    BY <1>1 DEF CoveredInv
  <2>2. BadgesCovered(S, N)'
    BY <1>5, <2>1
  <2> SUFFICES ASSUME "standalone" \notin failed', NEW p, SteadyBadge(p)',
                      NEW node \in ReportedNodes(tree'[p])
               PROVE  IsVisited(standalone, NodesWaiting, p, node)'
    BY DEF BadgesCovered
  <2>3. IsVisited(S, N, p, node)
    BY <2>2 DEF BadgesCovered
  <2> QED
    BY <1>2, <1>3, <2>3 DEF IsVisited
<1>8. ListingHubs' = ListingHubs
  BY DEF ListingHubs
<1> QED
  BY <1>6, <1>7, <1>8 DEF CoveredInv

LEMMA DisturbGInv ==
  ASSUME WInv, GInv, pc # "idle", NEW paths, Disturbs(paths), PlacedInv', UNCHANGED scanVars,
         Aged(devices, devices', paths), Aged(todo, todo', paths), Aged(hub, hub', paths)
  PROVE  GInv'
<1>1. UNCHANGED <<pc, port, group, hubGroups, standalone, result, failed>>
  BY DEF scanVars
<1>2. ListInv'
  BY <1>1, ListStays DEF GInv
<1>3. VisitInv'
  BY <1>1, VisitStays DEF GInv
<1>4. PICK G, S : G = hubGroups /\ S = standalone
  OBVIOUS
<1>5. GroupsInv(G)' /\ BadgesInv(S)'
  BY <1>4, GroupsStay, BadgesStay DEF GInv
<1>6. GroupsInv(hubGroups)'
  BY <1>1, <1>4, <1>5 DEF GroupsInv, HubAt
<1>7. BadgesInv(standalone)'
  BY <1>1, <1>4, <1>5 DEF BadgesInv, BadgeAt, BadgeNode
<1>8. HubsInv' /\ NodesInv'
  BY <1>1, HubsStay, NodesStay DEF GInv
<1>9. CoveredInv'
  BY <1>1, CoveredStays DEF GInv
<1>10. ResultInv'
  BY <1>1 DEF ResultInv, Returned
<1> QED
  BY <1>2, <1>3, <1>6, <1>7, <1>8, <1>9, <1>10 DEF GInv

-----------------------------------------------------------------------------
(* Between two scans there is but the last result. *)

IsIdle ==
  /\ PlacedInv /\ ResultInv /\ pc = "idle" /\ devices = {} /\ todo = {} /\ hub = {}
  /\ hubGroups = {} /\ standalone = {}

LEMMA IdleGInv == IsIdle => GInv
<1> SUFFICES ASSUME IsIdle PROVE GInv
  OBVIOUS
<1>1. ListInv
  BY DEF IsIdle, ListInv, HasList, InFreeWiliPass, SamePathSame, SameIDSamePath
<1>2. VisitInv /\ HubsInv /\ NodesInv /\ CoveredInv
  BY DEF IsIdle, VisitInv, HubsInv, NodesInv, CoveredInv, VisitingHub, ListingHubs
<1>3. IsFiniteSet({})
  BY FS_EmptySet
<1>4. GroupsInv(hubGroups) /\ BadgesInv(standalone)
  BY <1>3 DEF IsIdle, GroupsInv, BadgesInv
<1> QED
  BY <1>1, <1>2, <1>4 DEF IsIdle, GInv

LEMMA IdleNext ==
  ASSUME PlacedInv', pc' = "idle", ~Returned', devices' = {}, todo' = {}, hub' = {},
         hubGroups' = {}, standalone' = {}
  PROVE  GInv'
<1>1. ResultInv'
  BY DEF ResultInv
<1>2. IsIdle'
  BY <1>1 DEF IsIdle
<1> QED
  BY <1>2, IdleGInv, PTL

LEMMA PlacedStays ==
  ASSUME PlacedInv, tree' = tree
  PROVE  PlacedInv'
<1>1. \A p \in DOMAIN tree' : IsPlaced(p, tree'[p])
  BY DEF PlacedInv
<1>2. \A p \in DOMAIN tree' : OnFreeWiliPort(p)' => Last(p) \in 1..NumberOfPorts
  BY DEF PlacedInv, OnFreeWiliPort
<1>3. \A p, q \in DOMAIN tree' :
        InstanceId(p, tree'[p]) = InstanceId(q, tree'[q]) => p = q
  BY DEF PlacedInv
<1>4. \A p \in DOMAIN tree' : Len(p) > 1 => IsHub(tree'[Front(p)].prod)
  BY DEF PlacedInv
<1> QED
  BY <1>1, <1>2, <1>3, <1>4 DEF PlacedInv, IsPlaced, InstanceId

\* A scan that fails leaves nothing.
LEMMA FailedGInv ==
  ASSUME PlacedInv, NEW outcome \in {ScanError, Crashed}, Over(outcome)
  PROVE  GInv'
<1>1. /\ pc' = "idle" /\ result' = outcome /\ tree' = tree
      /\ devices' = {} /\ todo' = {} /\ hub' = {} /\ hubGroups' = {} /\ standalone' = {}
  BY DEF Over
<1>2. ~Returned'
  BY <1>1, ResultTypes DEF Returned
<1> QED
  BY <1>1, <1>2, PlacedStays, IdleNext

LEMMA IdleIsEmpty ==
  ASSUME WInv, GInv, pc = "idle"
  PROVE  devices = {} /\ todo = {} /\ hub = {}
<1>1. ~HasList
  BY DEF HasList, InFreeWiliPass
<1> QED
  BY <1>1 DEF WInv, RecordsInv, GInv, ListInv

LEMMA PlugGInv ==
  ASSUME WInv, GInv, NEW slot \in Slots, Plug(slot)
  PROVE  GInv'
<1>1. PlacedInv' /\ Leaves({slot.path})
  BY PlugPlaced DEF GInv
<1>2. Changed({slot.path}, Arrival(slot)) /\ UNCHANGED <<devices, todo, hub>>
  BY DEF Plug
<1>3. CASE pc = "idle"
  <2>1. /\ pc' = "idle" /\ result' = NoResult /\ hubGroups' = {} /\ standalone' = {}
    BY <1>2, <1>3 DEF Changed
  <2>2. ~Returned'
    BY <2>1, ResultTypes DEF Returned
  <2>3. devices' = {} /\ todo' = {} /\ hub' = {}
    BY <1>2, <1>3, IdleIsEmpty
  <2> QED
    BY <1>1, <2>1, <2>2, <2>3, IdleNext
<1>4. CASE pc # "idle"
  <2>1. disturbed' = disturbed \cup {slot.path} /\ UNCHANGED scanVars
    BY <1>2, <1>4 DEF Changed
  <2>2. Disturbs({slot.path})
    BY <1>1, <2>1 DEF Disturbs
  <2>3. /\ Aged(devices, devices', {slot.path}) /\ Aged(todo, todo', {slot.path})
        /\ Aged(hub, hub', {slot.path})
    BY <1>2, NoneAged
  <2> QED
    BY <1>1, <1>4, <2>1, <2>2, <2>3, DisturbGInv
<1> QED
  BY <1>3, <1>4

LEMMA UnplugGInv ==
  ASSUME WInv, GInv, WInv', NEW path \in DOMAIN tree, Unplug(path)
  PROVE  GInv'
<1>1. PICK gone : gone = Subtree(path)
  OBVIOUS
<1>2. PlacedInv' /\ Leaves(gone)
  BY <1>1, UnplugPlaced DEF GInv
<1>3. /\ Changed(gone, {"left"})
      /\ devices' = WithDead(devices, gone) /\ todo' = WithDead(todo, gone)
      /\ hub' = WithDead(hub, gone)
  BY <1>1 DEF Unplug
<1>4. CASE pc = "idle"
  <2>1. /\ pc' = "idle" /\ result' = NoResult /\ hubGroups' = {} /\ standalone' = {}
    BY <1>3, <1>4 DEF Changed
  <2>2. ~Returned'
    BY <2>1, ResultTypes DEF Returned
  <2>3. devices' = {} /\ todo' = {} /\ hub' = {}
    BY <1>3, <1>4, IdleIsEmpty DEF WithDead
  <2> QED
    BY <1>2, <2>1, <2>2, <2>3, IdleNext
<1>5. CASE pc # "idle"
  <2>1. disturbed' = disturbed \cup gone /\ UNCHANGED scanVars
    BY <1>3, <1>5 DEF Changed
  <2>2. Disturbs(gone)
    BY <1>2, <2>1 DEF Disturbs
  <2>3. devices \subseteq Records /\ todo \subseteq Records /\ hub \subseteq Records
    BY DEF WInv, RecordsInv
  <2>4. Aged(devices, devices', gone) /\ Aged(todo, todo', gone) /\ Aged(hub, hub', gone)
    BY <1>3, <2>3, SomeAged
  <2> QED
    BY <1>2, <1>5, <2>1, <2>2, <2>4, DisturbGInv
<1> QED
  BY <1>4, <1>5

LEMMA BindGInv ==
  ASSUME WInv, GInv, NEW path \in DOMAIN tree, Bind(path)
  PROVE  GInv'
<1>1. PlacedInv' /\ Leaves({path})
  BY BindPlaced DEF GInv
<1>2. Changed({path}, NewKey(path)) /\ UNCHANGED <<todo, hub>>
  BY DEF Bind
<1>3. CASE pc = "idle"
  <2>1. /\ pc' = "idle" /\ result' = NoResult /\ hubGroups' = {} /\ standalone' = {}
    BY <1>2, <1>3 DEF Changed
  <2>2. ~Returned'
    BY <2>1, ResultTypes DEF Returned
  <2>3. devices' = devices
    BY <1>3 DEF Bind
  <2>4. devices' = {} /\ todo' = {} /\ hub' = {}
    BY <1>2, <1>3, <2>3, IdleIsEmpty
  <2> QED
    BY <1>1, <2>1, <2>2, <2>4, IdleNext
<1>4. CASE pc # "idle"
  <2>1. disturbed' = disturbed \cup {path} /\ UNCHANGED scanVars
    BY <1>2, <1>4 DEF Changed
  <2>2. Disturbs({path})
    BY <1>1, <2>1 DEF Disturbs
  <2>3. Aged(todo, todo', {path}) /\ Aged(hub, hub', {path})
    BY <1>2, NoneAged
  <2>4. Aged(devices, devices', {path})
    <3>1. devices \subseteq Records
      BY DEF WInv, RecordsInv
    <3>2. CASE devices' = devices
      BY <3>2, NoneAged
    <3>3. CASE devices' = {[r EXCEPT !.key = r.key \/ (r.live /\ r.path = path)] : r \in devices}
      BY <3>1, <3>3, KeysAged
    <3> QED
      BY <3>2, <3>3 DEF Bind
  <2> QED
    BY <1>1, <1>4, <2>1, <2>2, <2>3, <2>4, DisturbGInv
<1> QED
  BY <1>3, <1>4

-----------------------------------------------------------------------------
(* The standalone pass. *)

\* A list of what is attached.
LEMMA PlacedRecords ==
  ASSUME PlacedInv, NEW paths, paths \subseteq DOMAIN tree,
         NEW records, records = Enumerated(paths)
  PROVE  /\ \A r \in records : /\ IsPlaced(r.path, r.dev) /\ r.live /\ r.node = "device"
                               /\ r.path \in paths /\ r.dev = tree[r.path]
                               /\ r.chain = usbPortChain(r.path) /\ r.key = tree[r.path].bound
         /\ SamePathSame(records) /\ SameIDSamePath(records)
         /\ \A p \in paths : \E r \in records :
              r.path = p /\ r.dev = tree[p] /\ r.key = tree[p].bound
<1>1. \A r \in records : \E p \in paths : r = Record(p, tree[p])
  BY DEF Enumerated
<1>2. \A p \in paths : Record(p, tree[p]) \in records
  BY DEF Enumerated
<1>3. \A p : /\ Record(p, tree[p]).path = p /\ Record(p, tree[p]).dev = tree[p]
             /\ Record(p, tree[p]).node = "device" /\ Record(p, tree[p]).live
             /\ Record(p, tree[p]).chain = usbPortChain(p)
             /\ Record(p, tree[p]).key = tree[p].bound
  BY DEF Record
<1>4. \A r \in records : /\ IsPlaced(r.path, r.dev) /\ r.live /\ r.node = "device"
                         /\ r.path \in paths /\ r.dev = tree[r.path]
                         /\ r.chain = usbPortChain(r.path) /\ r.key = tree[r.path].bound
  BY <1>1, <1>3 DEF PlacedInv
<1>5. SamePathSame(records)
  BY <1>1, <1>3 DEF SamePathSame
<1>6. SameIDSamePath(records)
  BY <1>4 DEF SameIDSamePath, PlacedInv
<1>7. \A p \in paths : \E r \in records :
        r.path = p /\ r.dev = tree[p] /\ r.key = tree[p].bound
  BY <1>2, <1>3
<1> QED
  BY <1>4, <1>5, <1>6, <1>7

LEMMA FindStandaloneGInv ==
  ASSUME WInv, GInv, FindStandalone
  PROVE  GInv'
<1>1. /\ pc = "idle" /\ tree' = tree /\ todo' = todo /\ hub' = hub
      /\ hubGroups' = {} /\ standalone' = {} /\ disturbed' = {} /\ result' = NoResult
      /\ \/ pc' = "reading standalone" /\ devices' = Enumerated(DOMAIN tree)
         \/ pc' = "standalone" /\ devices' = {} /\ "standalone" \in failed'
  BY DEF FindStandalone
<1>2. todo' = {} /\ hub' = {}
  BY <1>1, IdleIsEmpty
<1>3. PlacedInv'
  BY <1>1, PlacedStays DEF GInv
<1>4. ListInv'
  <2>1. CASE pc' = "reading standalone" /\ devices' = Enumerated(DOMAIN tree)
    <3>1. PICK records, places : records = devices' /\ places = DOMAIN tree
      OBVIOUS
    <3>2. PlacedInv /\ places \subseteq DOMAIN tree /\ records = Enumerated(places)
      BY <2>1, <3>1 DEF GInv
    <3>3. /\ \A r \in records : /\ IsPlaced(r.path, r.dev) /\ r.live /\ r.node = "device"
                                /\ r.path \in places /\ r.dev = tree[r.path]
                                /\ r.chain = usbPortChain(r.path) /\ r.key = tree[r.path].bound
          /\ SamePathSame(records) /\ SameIDSamePath(records)
          /\ \A p \in places : \E r \in records :
               r.path = p /\ r.dev = tree[p] /\ r.key = tree[p].bound
      BY <3>2, PlacedRecords
    <3>4. SamePathSame(devices)' /\ SameIDSamePath(devices)'
      BY <3>1, <3>3 DEF SamePathSame, SameIDSamePath, InstanceId
    <3>5. HasList'
      BY <2>1 DEF HasList
    <3>6. \A r \in devices' \cup todo' \cup hub' :
            /\ IsPlaced(r.path, r.dev) /\ r.chain = usbPortChain(r.path)
            /\ ~r.live => r.path \in disturbed'
      BY <1>2, <3>1, <3>3
    <3>7. \A p : Steady(p)' => \E r \in devices' :
                    r.path = p /\ r.dev = tree'[p] /\ r.key = tree'[p].bound
      BY <1>1, <3>1, <3>3, Zenon DEF Steady
    <3>8. \A r \in devices' : r.node = "device"
      BY <3>1, <3>3
    <3> QED
      BY <3>4, <3>5, <3>6, <3>7, <3>8 DEF ListInv, IsPlaced, IsChain
  <2>2. CASE pc' = "standalone" /\ devices' = {}
    BY <1>2, <2>2 DEF ListInv, HasList, InFreeWiliPass, SamePathSame, SameIDSamePath
  <2> QED
    BY <1>1, <2>1, <2>2
<1>5. VisitInv' /\ HubsInv'
  BY <1>1 DEF VisitInv, HubsInv, VisitingHub, ListingHubs
<1>6. NodesInv'
  BY <1>1, <1>2 DEF NodesInv, NodesOnce
<1>7. CoveredInv'
  BY <1>1 DEF CoveredInv, ListingHubs, BadgesCovered
<1>8. IsFiniteSet({})
  BY FS_EmptySet
<1>9. GroupsInv(hubGroups)' /\ BadgesInv(standalone)'
  BY <1>1, <1>8 DEF GroupsInv, BadgesInv
<1>10. ResultInv'
  BY <1>1 DEF ResultInv, Returned
<1> QED
  BY <1>3, <1>4, <1>5, <1>6, <1>7, <1>9, <1>10 DEF GInv

\* What a step keeps that leaves the devices alone.
LEMMA Keeps ==
  ASSUME GInv, UNCHANGED <<tree, disturbed>>
  PROVE  /\ PlacedInv'
         /\ hubGroups' = hubGroups => GroupsInv(hubGroups)'
         /\ standalone' = standalone => BadgesInv(standalone)'
<1>1. PlacedInv'
  BY PlacedStays DEF GInv
<1>2. PICK G, S : G = hubGroups /\ S = standalone
  OBVIOUS
<1>3. Disturbs({})
  BY NoneDisturbs
<1>4. GroupsInv(G)' /\ BadgesInv(S)'
  BY <1>2, <1>3, GroupsStay, BadgesStay DEF GInv
<1>5. hubGroups' = hubGroups => GroupsInv(hubGroups)'
  BY <1>2, <1>4 DEF GroupsInv, HubAt
<1>6. standalone' = standalone => BadgesInv(standalone)'
  BY <1>2, <1>4 DEF BadgesInv, BadgeAt, BadgeNode
<1> QED
  BY <1>1, <1>5, <1>6

LEMMA RecordFacts ==
  ASSUME WInv, GInv, NEW r \in devices \cup todo \cup hub
  PROVE  /\ r \in Records /\ r.path \in Places /\ r.dev \in Attachable
         /\ IsOld(r) /\ IsPlaced(r.path, r.dev) /\ IsChain(r.chain, r.path)
         /\ r.path \notin disturbed => r.live
         /\ r.live => /\ r.path \in DOMAIN tree /\ tree[r.path].prod = r.dev.prod
                      /\ tree[r.path].parts = r.dev.parts
                      /\ InstanceId(r.path, tree[r.path]) = InstanceId(r.path, r.dev)
<1>1. r \in Records /\ LiveIsAttached(r)
  BY DEF WInv, RecordsInv
<1>2. IsPlaced(r.path, r.dev) /\ IsChain(r.chain, r.path) /\ (~r.live => r.path \in disturbed)
  BY DEF GInv, ListInv
<1>3. r.path \in Places /\ r.dev \in Attachable
  BY <1>1 DEF Records
<1>4. ASSUME r.live
      PROVE  /\ r.path \in DOMAIN tree /\ tree[r.path].prod = r.dev.prod
             /\ tree[r.path].parts = r.dev.parts
             /\ InstanceId(r.path, tree[r.path]) = InstanceId(r.path, r.dev)
  <2>1. r.path \in DOMAIN tree /\ tree[r.path] \in BoundLater(r.dev)
    BY <1>1, <1>4 DEF LiveIsAttached
  <2> QED
    BY <1>3, <2>1, BoundKeeps, SameInstanceId
<1> QED
  BY <1>1, <1>2, <1>3, <1>4 DEF IsOld

LEMMA DeviceFacts ==
  ASSUME GInv
  PROVE  /\ \A r \in devices : r.node = "device"
         /\ \A r, s \in devices : r.path = s.path => r = s
         /\ \A r, s \in devices :
              InstanceId(r.path, r.dev) = InstanceId(s.path, s.dev) => r.path = s.path
         /\ HasList => \A p : Steady(p) => \E r \in devices :
              r.path = p /\ r.dev = tree[p] /\ r.key = tree[p].bound
<1>1. \A r \in devices : r.node = "device"
  BY DEF GInv, ListInv
<1>2. SamePathSame(devices) /\ SameIDSamePath(devices)
  BY DEF GInv, ListInv
<1>3. HasList => \A p : Steady(p) => \E r \in devices :
        r.path = p /\ r.dev = tree[p] /\ r.key = tree[p].bound
  BY DEF GInv, ListInv
<1>4. \A r, s \in devices : r.path = s.path => r = s
  BY <1>2 DEF SamePathSame
<1>5. \A r, s \in devices :
        InstanceId(r.path, r.dev) = InstanceId(s.path, s.dev) => r.path = s.path
  BY <1>2 DEF SameIDSamePath
<1> QED
  BY <1>1, <1>3, <1>4, <1>5

\* What reading makes of a list.
LEMMA ReadStaysOld ==
  ASSUME NEW records, records \subseteq Records, \A r \in records : IsOld(r),
         NEW read \in Readings(records)
  PROVE  /\ \A r \in read : IsOld(r)
         /\ SamePathSame(records) => SamePathSame(read)
         /\ NodesOnce(records) => NodesOnce(read)
<1>1. PICK cut, keyless :
        /\ \A r \in records : r.live => r \notin cut /\ r \notin keyless
        /\ read = {ReadAs(old, cut, keyless) : old \in records}
  BY ReadingsAre
<1>2. \A r \in read : \E old \in records : ReadFrom(r, old)
  BY ReadingsKeep
<1>3. ASSUME NEW r \in read
      PROVE  IsOld(r)
  <2>1. PICK old \in records : ReadFrom(r, old)
    BY <1>2
  <2>2. IsOld(old)
    OBVIOUS
  <2>3. CASE old.live
    BY <2>1, <2>2, <2>3 DEF ReadFrom
  <2>4. CASE ~old.live
    BY <2>1, <2>2, <2>4 DEF ReadFrom, IsOld, IsChain
  <2> QED
    BY <2>3, <2>4
<1>4. ASSUME NEW old \in records
      PROVE  /\ ReadAs(old, cut, keyless).path = old.path
             /\ ReadAs(old, cut, keyless).node = old.node
  BY ReadAsIs
<1>5. PICK as : as = [old \in records |-> ReadAs(old, cut, keyless)]
  OBVIOUS
<1>6. \A old \in records : as[old].path = old.path /\ as[old].node = old.node
  BY <1>4, <1>5
<1>7. \A r \in read : \E old \in records : r = as[old]
  BY <1>1, <1>5
<1>8. SamePathSame(records) => SamePathSame(read)
  <2> SUFFICES ASSUME SamePathSame(records), NEW r \in read, NEW s \in read, r.path = s.path
               PROVE  r = s
    BY DEF SamePathSame
  <2>1. PICK o \in records, q \in records : r = as[o] /\ s = as[q]
    BY <1>7
  <2>2. o.path = q.path
    BY <1>6, <2>1
  <2>3. o = q
    BY <2>2 DEF SamePathSame
  <2> QED
    BY <2>1, <2>3
<1>9. NodesOnce(records) => NodesOnce(read)
  <2> SUFFICES ASSUME NodesOnce(records), NEW r \in read, NEW s \in read,
                      r.path = s.path, r.node = s.node
               PROVE  r = s
    BY DEF NodesOnce
  <2>1. PICK o \in records, q \in records : r = as[o] /\ s = as[q]
    BY <1>7
  <2>2. o.path = q.path /\ o.node = q.node
    BY <1>6, <2>1
  <2>3. o = q
    BY <2>2 DEF NodesOnce
  <2> QED
    BY <2>1, <2>3
<1> QED
  BY <1>3, <1>8, <1>9

LEMMA OldStays ==
  ASSUME UNCHANGED <<tree, disturbed>>, NEW r, IsOld(r)
  PROVE  IsOld(r)'
BY DEF IsOld, IsPlaced, IsChain

LEMMA ListKept ==
  ASSUME WInv, ListInv, UNCHANGED <<tree, disturbed>>,
         \A r \in todo' \cup hub' : IsOld(r),
         IF HasList' THEN HasList /\ (devices' = devices \/ devices' \in Readings(devices))
                     ELSE devices' = {}
  PROVE  ListInv'
<1>1. PICK D : D = devices
  OBVIOUS
<1>2. /\ \A r \in D : IsOld(r) /\ r.node = "device" /\ r \in Records
      /\ SamePathSame(D) /\ SameIDSamePath(D)
  BY <1>1 DEF WInv, RecordsInv, ListInv, IsOld
<1>3. CASE devices' = {}
  <2>1. SamePathSame(devices)' /\ SameIDSamePath(devices)'
    BY <1>3 DEF SamePathSame, SameIDSamePath
  <2>2. \A r \in devices' \cup todo' \cup hub' : IsOld(r)'
    BY <1>3, OldStays
  <2>3. ~HasList' \/ devices' = devices \/ devices' \in Readings(devices)
    OBVIOUS
  <2>4. HasList' => \A p : Steady(p)' => \E r \in devices' :
                      r.path = p /\ r.dev = tree'[p] /\ r.key = tree'[p].bound
    <3> SUFFICES ASSUME HasList' PROVE \A p : ~Steady(p)'
      OBVIOUS
    <3>1. D = {}
      <4>1. devices' = D \/ devices' \in Readings(D)
        BY <1>1
      <4>2. devices' \in Readings(D) => \A old \in D : \E r \in devices' : TRUE
        BY <1>2, ReadingsKeep
      <4> QED
        BY <1>3, <4>1, <4>2
    <3>2. \A p : ~Steady(p)
      BY <1>1, <3>1 DEF ListInv
    <3> QED
      BY <3>2 DEF Steady
  <2> QED
    BY <1>3, <2>1, <2>2, <2>4 DEF ListInv, IsPlaced, IsOld
<1>4. CASE HasList' /\ HasList /\ (devices' = D \/ devices' \in Readings(D))
  <2>1. PICK E : E = devices'
    OBVIOUS
  <2>2. /\ \A r \in E : \E old \in D : r.path = old.path /\ r.dev = old.dev /\ r.node = old.node
        /\ \A old \in D : old.live => old \in E
        /\ \A r \in E : IsOld(r)
        /\ SamePathSame(E)
    <3>1. CASE E = D
      BY <1>2, <3>1
    <3>2. CASE E \in Readings(D)
      <4>1. D \subseteq Records /\ \A r \in D : IsOld(r)
        BY <1>2
      <4>2. /\ \A r \in E : \E old \in D : ReadFrom(r, old)
            /\ \A old \in D : \E r \in E : ReadFrom(r, old)
        BY <3>2, <4>1, ReadingsKeep
      <4>3. (\A r \in E : IsOld(r)) /\ SamePathSame(E)
        BY <1>2, <3>2, <4>1, ReadStaysOld
      <4> QED
        BY <4>2, <4>3 DEF ReadFrom
    <3> QED
      BY <1>4, <2>1, <3>1, <3>2
  <2>3. SameIDSamePath(E)
    BY <1>2, <2>2 DEF SameIDSamePath
  <2>4. SamePathSame(devices)' /\ SameIDSamePath(devices)'
    BY <2>1, <2>2, <2>3 DEF SamePathSame, SameIDSamePath, InstanceId
  <2>5. ASSUME NEW p, Steady(p)'
        PROVE  \E r \in devices' : r.path = p /\ r.dev = tree'[p] /\ r.key = tree'[p].bound
    <3>1. Steady(p) /\ p \notin disturbed
      BY <2>5 DEF Steady
    <3>2. PICK old \in D : old.path = p /\ old.dev = tree[p] /\ old.key = tree[p].bound
      BY <1>1, <1>4, <3>1 DEF ListInv
    <3>3. old.live
      BY <1>2, <3>1, <3>2 DEF IsOld
    <3> QED
      BY <2>1, <2>2, <3>2, <3>3
  <2>6. \A r \in devices' \cup todo' \cup hub' : IsOld(r)'
    BY <2>1, <2>2, OldStays
  <2>7. \A r \in devices' : r.node = "device"
    BY <1>2, <2>1, <2>2
  <2> QED
    BY <1>4, <2>4, <2>5, <2>6, <2>7 DEF ListInv, IsPlaced, IsOld
<1> QED
  BY <1>1, <1>3, <1>4

\* The nodes of a badge: itself, its disk.
LEMMA NodesAre ==
  ASSUME NEW r, r.node = "device", r \in Records
  PROVE  /\ r \in Nodes(r)
         /\ \A n \in Nodes(r) : /\ n \in Records /\ n.path = r.path /\ n.dev = r.dev
                               /\ n.live = r.live /\ n.key = r.key /\ n.chain = r.chain
         /\ \A n, m \in Nodes(r) : n.node = m.node => n = m
         /\ \A n \in Nodes(r) : ~IsSkipped(n) => n.node \in ReportedNodes(n.dev)
         /\ \A node \in ReportedNodes(r.dev) : \E n \in Nodes(r) : n.node = node
<1>1. PICK c : c = [r EXCEPT !.node = "interface"]
  OBVIOUS
<1>2. /\ c \in Records /\ c.path = r.path /\ c.dev = r.dev /\ c.live = r.live
      /\ c.key = r.key /\ c.chain = r.chain /\ c.node = "interface"
  BY <1>1 DEF Records
<1>3. Nodes(r) = {r} \cup (IF Len(r.dev.parts) > 1 /\ "disk" \in ToSet(r.dev.parts)
                           THEN {c} ELSE {})
  BY <1>1 DEF Nodes
<1>4. \A n \in Nodes(r) : ~IsSkipped(n) => n.node \in ReportedNodes(n.dev)
  BY <1>2, <1>3 DEF ReportedNodes, IsSkipped
<1>5. \A node \in ReportedNodes(r.dev) : \E n \in Nodes(r) : n.node = node
  BY <1>2, <1>3 DEF ReportedNodes
<1> QED
  BY <1>2, <1>3, <1>4, <1>5

\* A badge is never a controller's root hub.
LEMMA BadgeIsPlugged ==
  ASSUME NEW path \in Places, NEW dev, IsPlaced(path, dev), dev.prod # "ForeignHub"
  PROVE  /\ Len(path) > 1
         /\ \E slot \in Slots : /\ slot.path = path /\ dev.prod = slot.prod
                               /\ dev.parts = slot.parts /\ dev.serial = slot.serial
<1>1. RootHub.prod = "ForeignHub"
  BY DEF RootHub
<1>2. Len(path) # 1
  BY <1>1 DEF IsPlaced
<1>3. PICK slot \in Slots : slot.path = path /\ dev \in BoundLater(NewDev(slot))
  BY <1>2 DEF IsPlaced
<1>4. NewDev(slot) \in Attachable
  BY AttachableAre
<1>5. dev.prod = slot.prod /\ dev.parts = slot.parts /\ dev.serial = slot.serial
  BY <1>3, <1>4, BoundKeeps, NewDevIs
<1> QED
  BY <1>2, <1>3, <1>5, PlaceIs

LEMMA NotAHub ==
  ASSUME NEW prod, isStandAloneDevice(prod)
  PROVE  prod # "ForeignHub" /\ ~IsHub(prod)
<1>1. prod \in {"Rp2350Uf2", "Winky", "Defcon2024", "Badge2025", "Probe"}
  BY DEF isStandAloneDevice, StandaloneProduct
<1> QED
  BY <1>1 DEF IsHub, HubProduct

LEMMA ReadStandaloneGInv ==
  ASSUME WInv, GInv, ReadStandalone
  PROVE  GInv'
<1> DEFINE badges == {d \in devices : isStandAloneDevice(d.dev.prod)}
           nodes == UNION {Nodes(r) : r \in badges}
<1>1. /\ pc = "reading standalone" /\ pc' = "standalone" /\ devices' = {}
      /\ UNCHANGED <<tree, hub, port, group, hubGroups, standalone, result, disturbed>>
      /\ \/ (\E read \in Readings(nodes) : todo' = {r \in read : r.key}) /\ failed' = failed
         \/ todo' = {} /\ "standalone" \in failed'
  BY DEF ReadStandalone, history
<1>2. \A r \in devices : /\ r \in Records /\ IsOld(r) /\ r.node = "device"
                         /\ r.path \in Places
  BY RecordFacts, DeviceFacts
<1>3. \A n \in nodes : \E r \in badges : n \in Nodes(r)
  OBVIOUS
<1>4. badges \subseteq devices /\ \A r \in badges : isStandAloneDevice(r.dev.prod)
  OBVIOUS
<1>15. \A r \in badges : Nodes(r) \subseteq nodes
  OBVIOUS
<1> HIDE DEF nodes
<1>5. /\ PlacedInv' /\ GroupsInv(hubGroups)' /\ BadgesInv(standalone)'
  BY <1>1, Keeps
<1>6. hub = {} /\ standalone = {} /\ hubGroups = {}
  BY <1>1 DEF WInv, RecordsInv, GInv, NodesInv, HubsInv, ListingHubs
<1>16. \A r \in devices : isStandAloneDevice(r.dev.prod) => r \in badges
  OBVIOUS
<1> HIDE DEF badges
<1>7. ASSUME NEW n \in nodes
      PROVE  /\ n \in Records /\ IsOld(n)
             /\ ~IsSkipped(n) => n.node \in ReportedNodes(n.dev)
  <2>1. PICK r \in badges : n \in Nodes(r)
    BY <1>3
  <2>2. r \in Records /\ r.node = "device" /\ IsOld(r)
    BY <1>2, <1>4
  <2>3. /\ n \in Records /\ n.path = r.path /\ n.dev = r.dev /\ n.live = r.live
        /\ n.chain = r.chain
        /\ ~IsSkipped(n) => n.node \in ReportedNodes(n.dev)
    BY <2>1, <2>2, NodesAre
  <2> QED
    BY <2>2, <2>3 DEF IsOld
<1>8. NodesOnce(nodes)
  <2> SUFFICES ASSUME NEW n \in nodes, NEW m \in nodes, n.path = m.path, n.node = m.node
               PROVE  n = m
    BY DEF NodesOnce
  <2>1. PICK r \in badges, q \in badges : n \in Nodes(r) /\ m \in Nodes(q)
    BY <1>3
  <2>2. /\ r \in devices /\ r \in Records /\ r.node = "device"
        /\ q \in devices /\ q \in Records /\ q.node = "device"
    BY <1>2, <1>4
  <2>3. n.path = r.path /\ m.path = q.path
    BY <2>1, <2>2, NodesAre
  <2>5. \A x, y \in devices : x.path = y.path => x = y
    BY DeviceFacts
  <2>6. r.path = q.path
    BY <1>8, <2>3
  <2>4. r = q
    BY <2>2, <2>5, <2>6
  <2> QED
    BY <2>1, <2>2, <2>4, NodesAre
<1>9. /\ \A n \in todo' : IsOld(n) /\ (~IsSkipped(n) => n.node \in ReportedNodes(n.dev))
      /\ NodesOnce(todo')
  <2>1. CASE todo' = {}
    BY <2>1 DEF NodesOnce
  <2>2. ASSUME NEW read \in Readings(nodes), todo' = {r \in read : r.key}
        PROVE  /\ \A n \in todo' : IsOld(n) /\ (~IsSkipped(n) => n.node \in ReportedNodes(n.dev))
               /\ NodesOnce(todo')
    <3>1. nodes \subseteq Records /\ \A r \in nodes : IsOld(r)
      BY <1>7
    <3>2. (\A r \in read : IsOld(r)) /\ NodesOnce(read)
      BY <1>8, <3>1, ReadStaysOld
    <3>3. ASSUME NEW n \in read, ~IsSkipped(n)
          PROVE  n.node \in ReportedNodes(n.dev)
      <4>1. PICK old \in nodes : ReadFrom(n, old)
        BY <3>1, ReadingsKeep
      <4>2. n.node = old.node /\ n.dev = old.dev
        BY <4>1 DEF ReadFrom
      <4>3. ~IsSkipped(old)
        BY <3>3, <4>2 DEF IsSkipped
      <4> QED
        BY <1>7, <4>2, <4>3
    <3> QED
      BY <2>2, <3>2, <3>3 DEF NodesOnce
  <2> QED
    BY <1>1, <2>1, <2>2
<1>10. ListInv'
  <2>1. \A r \in todo' \cup hub' : IsOld(r)
    BY <1>1, <1>6, <1>9
  <2>2. ~HasList'
    BY <1>1 DEF HasList, InFreeWiliPass
  <2> QED
    BY <1>1, <2>1, <2>2, ListKept DEF GInv
<1>11. VisitInv' /\ HubsInv'
  BY <1>1, <1>6 DEF VisitInv, HubsInv, VisitingHub, ListingHubs
<1>12. NodesInv'
  BY <1>1, <1>6, <1>9 DEF NodesInv, NodesOnce, IsSkipped
<1>13. BadgesCovered(standalone, NodesWaiting)'
  <2> SUFFICES ASSUME "standalone" \notin failed', NEW p, SteadyBadge(p)',
                      NEW node \in ReportedNodes(tree'[p])
               PROVE  IsVisited(standalone, NodesWaiting, p, node)'
    BY DEF BadgesCovered
  <2>1. /\ Steady(p) /\ isStandAloneDevice(tree[p].prod) /\ tree[p].bound
        /\ node \in ReportedNodes(tree[p])
    BY <1>1 DEF SteadyBadge, Steady
  <2>2. HasList
    BY <1>1 DEF HasList
  <2>3. PICK r \in devices : r.path = p /\ r.dev = tree[p] /\ r.key = tree[p].bound
    BY <2>1, <2>2, DeviceFacts
  <2>4. /\ r \in badges /\ r.node = "device" /\ r \in Records /\ IsOld(r)
        /\ node \in ReportedNodes(r.dev) /\ r.key
    BY <1>2, <1>16, <2>1, <2>3
  <2>5. r.live
    BY <2>1, <2>3, <2>4 DEF IsOld, Steady
  <2>6. PICK n \in Nodes(r) : n.node = node
    BY <2>4, NodesAre
  <2>7. n \in nodes /\ n.path = p /\ n.key /\ n.live
    BY <1>15, <2>3, <2>4, <2>5, <2>6, NodesAre
  <2>8. PICK read \in Readings(nodes) : todo' = {x \in read : x.key}
    BY <1>1
  <2>9. n \in read
    <3>1. nodes \subseteq Records
      BY <1>7
    <3>2. PICK x \in read : ReadFrom(x, n)
      BY <2>7, <3>1, ReadingsKeep
    <3> QED
      BY <2>7, <3>2 DEF ReadFrom
  <2>10. n \in todo' /\ <<p, node>> = <<n.path, n.node>>
    BY <2>6, <2>7, <2>8, <2>9
  <2>11. <<p, node>> \in NodesWaiting'
    BY <1>1, <2>10 DEF NodesWaiting
  <2> QED
    BY <2>11 DEF IsVisited
<1>14. CoveredInv'
  BY <1>1, <1>13 DEF CoveredInv, ListingHubs
<1>17. ResultInv'
  BY <1>1 DEF ResultInv, Returned
<1> QED
  BY <1>5, <1>10, <1>11, <1>12, <1>14, <1>17 DEF GInv

-----------------------------------------------------------------------------
(* What is read of a device. *)

FirstOf(parts) == Head(parts \o <<"none">>)

LEMMA FirstInterface ==
  ASSUME NEW parts \in Seq({"tty", "disk", "other"})
  PROVE  IF parts = <<>> THEN FirstOf(parts) = "none" ELSE FirstOf(parts) = Head(parts)
<1>1. CASE parts = <<>>
  <2>1. parts \o <<"none">> = <<"none">>
    BY <1>1
  <2> QED
    BY <1>1, <2>1 DEF FirstOf
<1>2. CASE parts # <<>>
  <2>1. PICK n : n = Len(parts) /\ n \in Nat /\ n > 0
    BY <1>2
  <2>2. PICK u : u = parts \o <<"none">>
    OBVIOUS
  <2>3. u \in Seq({"tty", "disk", "other", "none"}) /\ u[1] = parts[1]
    BY <2>1, <2>2
  <2>4. Head(u) = u[1]
    BY <2>3
  <2> QED
    BY <1>2, <2>2, <2>3, <2>4 DEF FirstOf
<1> QED
  BY <1>1, <1>2

LEMMA PartsOf ==
  ASSUME NEW path \in Places, NEW dev, IsPlaced(path, dev), Len(path) > 1
  PROVE  dev.parts \in Seq({"tty", "disk", "other"})
<1>1. PICK n : n = Len(path) /\ n \in Nat
  BY PlaceIs
<1>2. n # 1
  BY <1>1
<1>3. PICK slot \in Slots : dev \in BoundLater(NewDev(slot))
  BY <1>1, <1>2 DEF IsPlaced
<1>4. NewDev(slot) \in Attachable
  BY AttachableAre
<1>5. dev.parts = slot.parts
  BY <1>3, <1>4, BoundKeeps, NewDevIs
<1> QED
  BY <1>5, SlotsAssumption DEF SlotsAssumption

LEMMA FirstPartIs ==
  ASSUME NEW r \in Records, IsOwnNode(r.node, r.dev.parts),
         r.dev.parts \in Seq({"tty", "disk", "other"})
  PROVE  /\ FirstPart(r) = "tty" => FirstOf(r.dev.parts) = "tty"
         /\ FirstOf(r.dev.parts) = "tty" => FirstPart(r) = "tty"
         /\ FirstPart(r) = "disk" <=> FirstOf(r.dev.parts) = "disk"
<1>1. PICK parts : parts = r.dev.parts
  OBVIOUS
<1>2. IF parts = <<>> THEN FirstOf(parts) = "none" ELSE FirstOf(parts) = Head(parts)
  BY <1>1, FirstInterface
<1>3. r.node \in {"device", "interface"}
  BY DEF Records
<1>4. CASE r.node = "interface"
  <2>1. FirstPart(r) = "disk"
    BY <1>4 DEF FirstPart, IsOwnNode
  <2>2. FirstOf(parts) = "disk"
    BY <1>1, <1>2, <1>4 DEF IsOwnNode
  <2> QED
    BY <1>1, <2>1, <2>2
<1>5. CASE r.node = "device"
  <2>1. FirstPart(r) = IF parts = <<>> THEN "other" ELSE Head(parts)
    BY <1>1, <1>5 DEF FirstPart
  <2> QED
    BY <1>1, <1>2, <2>1
<1> QED
  BY <1>3, <1>4, <1>5

LEMMA ReadFields ==
  ASSUME NEW r, NEW asked, NEW serial, NEW tty, NEW letters
  PROVE  LET dev == USBDevice(r, asked, serial, tty, letters)
         IN  /\ dev.place = r.path /\ dev.node = r.node /\ dev.prod = r.dev.prod
             /\ dev.serial = serial /\ dev.name = "name" /\ dev.portChain = r.chain
             /\ is_freewili_hub(r.dev.prod) => dev.kind = "Hub"
BY HubKind DEF USBDevice

LEMMA NotEmpty ==
  ASSUME NEW s \in Seq(Nat), Len(s) > 0
  PROVE  s # <<>>
<1>1. PICK n : n = Len(s)
  OBVIOUS
<1>2. n \in Nat
  BY <1>1
<1>3. n # 0
  BY <1>1, <1>2
<1>4. Len(<<>>) = 0
  OBVIOUS
<1> QED
  BY <1>1, <1>3, <1>4

LEMMA ReadIs ==
  ASSUME WInv, GInv, NEW r \in devices \cup todo \cup hub, Len(r.path) > 1,
         NEW tty, NEW letters,
         IsHub(r.dev.prod) \/ (tty \in SerialPorts(r) /\ letters \in DriveLetters(r)),
         NEW asked, NEW serial, serial # "",
         NEW dev, dev = USBDevice(r, asked, serial, tty, letters)
  PROVE  IsRead(dev)
<1>1. PICK p : p = r.path
  OBVIOUS
<1>2. /\ r \in Records /\ p \in Places /\ IsPlaced(p, r.dev) /\ IsChain(r.chain, p)
      /\ p \notin disturbed => /\ r.live /\ p \in DOMAIN tree
                              /\ tree[p].prod = r.dev.prod /\ tree[p].parts = r.dev.parts
  BY <1>1, RecordFacts
<1>3. PICK chain : chain = usbPortChain(p)
  OBVIOUS
<1>4. Last(chain) = Last(p)
  BY <1>1, <1>2, <1>3, PortOfPlace
<1>11. chain # <<>>
  <2>1. chain \in Seq(Nat) /\ Len(chain) > 0
    BY <1>1, <1>2, <1>3, PortOfPlace
  <2> QED
    BY <2>1, NotEmpty
<1>5. /\ dev.place = p /\ dev.node = r.node /\ dev.prod = r.dev.prod /\ dev.name = "name"
      /\ dev.serial = serial /\ dev.location = LocationOf(r.chain, asked)
      /\ dev.portChain = r.chain /\ dev.port = tty /\ dev.paths = letters
  BY <1>1 DEF USBDevice
<1>6. r.dev.parts \in Seq({"tty", "disk", "other"})
  BY <1>1, <1>2, PartsOf
<1>7. PICK first : first = FirstOf(r.dev.parts)
  OBVIOUS
<1>8. IsOwnNode(r.node, r.dev.parts) =>
        /\ FirstPart(r) = "tty" <=> first = "tty"
        /\ FirstPart(r) = "disk" <=> first = "disk"
  BY <1>2, <1>6, <1>7, FirstPartIs
<1>9. ASSUME p \notin disturbed, IsOwnNode(r.node, r.dev.parts)
      PROVE  Fits(dev, p)
  <2>1. r.live /\ p \in DOMAIN tree /\ tree[p].prod = r.dev.prod /\ tree[p].parts = r.dev.parts
    BY <1>2, <1>9
  <2>2. ASSUME ~IsHub(r.dev.prod)
        PROVE  /\ tty = IF first = "tty" THEN p ELSE NoPort
               /\ \/ letters = IF first = "disk" THEN p ELSE NoPort
                  \/ VolumesDisturbed /\ letters = NoPort
    <3>1. tty \in SerialPorts(r) /\ letters \in DriveLetters(r)
      BY <2>2
    <3>2. SerialPorts(r) = IF first = "tty" THEN {p} ELSE {NoPort}
      BY <1>1, <1>8, <1>9, <2>1, <2>2 DEF SerialPorts
    <3>3. DriveLetters(r) = IF first = "disk"
                            THEN {p} \cup (IF VolumesDisturbed THEN {NoPort} ELSE {})
                            ELSE {NoPort}
      BY <1>1, <1>8, <1>9, <2>1, <2>2 DEF DriveLetters
    <3>4. tty = IF first = "tty" THEN p ELSE NoPort
      BY <3>1, <3>2
    <3>5. CASE first = "disk" /\ VolumesDisturbed
      BY <3>1, <3>3, <3>4, <3>5
    <3>6. CASE first = "disk" /\ ~VolumesDisturbed
      BY <3>1, <3>3, <3>4, <3>6
    <3>7. CASE first # "disk"
      BY <3>1, <3>3, <3>4, <3>7
    <3> QED
      BY <3>5, <3>6, <3>7
  <2>3. r.chain = chain
    BY <1>2, <1>3, <1>9 DEF IsChain
  <2>4. dev.location = Last(p)
    BY <1>4, <1>5, <1>11, <2>3 DEF LocationOf
  <2> QED
    BY <1>3, <1>5, <1>7, <2>1, <2>2, <2>3, <2>4 DEF Fits, FirstOf
<1>10. p \notin disturbed =>
         /\ p \in DOMAIN tree /\ dev.prod = tree[p].prod
         /\ IsOwnNode(dev.node, tree[p].parts) => Fits(dev, p)
  BY <1>2, <1>5, <1>9
<1> QED
  BY <1>1, <1>2, <1>5, <1>10 DEF IsRead

LEMMA OwnSerialIs ==
  ASSUME NEW r
  PROVE  OwnSerial(r) # ""
<1>1. CASE r.node = "interface"
  BY <1>1 DEF OwnSerial
<1>2. CASE r.node # "interface"
  BY <1>2 DEF OwnSerial, InstanceId
<1> QED
  BY <1>1, <1>2

\* Badges that are covered, by another name.
LEMMA CoveredWith ==
  ASSUME NEW badges, NEW waiting, BadgesCovered(badges, waiting)',
         standalone' = badges, NodesWaiting' = waiting
  PROVE  BadgesCovered(standalone, NodesWaiting)'
<1> SUFFICES ASSUME "standalone" \notin failed', NEW p, SteadyBadge(p)',
                    NEW node \in ReportedNodes(tree'[p])
             PROVE  IsVisited(standalone, NodesWaiting, p, node)'
  BY DEF BadgesCovered
<1>1. IsVisited(badges, waiting, p, node)
  BY DEF BadgesCovered
<1> QED
  BY <1>1 DEF IsVisited

LEMMA VisitStandaloneGInv ==
  ASSUME WInv, GInv, VisitStandalone
  PROVE  GInv'
<1>1. PICK node \in todo :
        /\ todo' = todo \ {node}
        /\ \E tty \in SerialPorts(node), letters \in DriveLetters(node) :
             standalone' = standalone \cup
               (IF IsSkipped(node) THEN {}
                ELSE Made({<<USBDevice(node, 0, OwnSerial(node), tty, letters)>>}))
  BY DEF VisitStandalone
<1>2. /\ pc = "standalone" /\ pc' = pc
      /\ UNCHANGED <<tree, devices, hub, port, group, hubGroups, result, disturbed, failed>>
  BY DEF VisitStandalone, history
<1>3. PICK tty \in SerialPorts(node), letters \in DriveLetters(node) :
        standalone' = standalone \cup
          (IF IsSkipped(node) THEN {}
           ELSE Made({<<USBDevice(node, 0, OwnSerial(node), tty, letters)>>}))
  BY <1>1
<1>4. PICK dev :
        /\ dev = USBDevice(node, 0, OwnSerial(node), tty, letters)
        /\ standalone' = standalone \cup (IF IsSkipped(node) THEN {} ELSE Made({<<dev>>}))
  BY <1>3
<1>5. /\ node \in Records /\ node.path \in Places /\ IsOld(node)
      /\ IsPlaced(node.path, node.dev) /\ isStandAloneDevice(node.dev.prod)
  BY <1>2, RecordFacts DEF WInv, RecordsInv
<1>6. /\ dev.prod = node.dev.prod /\ dev.name = "name" /\ dev.serial # ""
      /\ dev.place = node.path /\ dev.node = node.node
  <2>1. PICK serial : serial = OwnSerial(node)
    OBVIOUS
  <2>2. serial # ""
    BY <2>1, OwnSerialIs
  <2>3. dev = USBDevice(node, 0, serial, tty, letters)
    BY <1>4, <2>1
  <2> QED
    BY <2>2, <2>3 DEF USBDevice
<1>7. PICK device : device = fromUSBDevices(<<dev>>)
  OBVIOUS
<1>8. device # BuildError /\ device.usbDevices = <<dev>>
  <2>1. device # BuildError
    BY <1>5, <1>6, <1>7, BadgeIsMade
  <2>2. PICK list : list = <<dev>>
    OBVIOUS
  <2>3. list \in Seq({dev}) /\ DOMAIN list = {1} /\ list[1] = dev
    BY <2>2, SingletonList
  <2>4. IsMadeOf(device, list)
    BY <1>7, <2>1, <2>2, <2>3, MadeOf
  <2> QED
    BY <1>5, <1>6, <2>1, <2>2, <2>3, <2>4 DEF IsMadeOf
<1>9. Made({<<dev>>}) = {device}
  BY <1>7, <1>8 DEF Made
<1>10. IsRead(dev)
  <2>1. Len(node.path) > 1
    BY <1>5, BadgeIsPlugged, NotAHub
  <2> QED
    BY <1>4, <2>1, ReadIs, OwnSerialIs
<1>11. ~IsSkipped(node) => IsBadge(device)
  <2>1. ~IsSkipped(node) => node.node \in ReportedNodes(node.dev)
    BY <1>2 DEF GInv, NodesInv
  <2>2. node.path \notin disturbed =>
          tree[node.path].prod = node.dev.prod /\ tree[node.path].parts = node.dev.parts
    BY RecordFacts
  <2>3. ~IsSkipped(node) => IsReported(dev)
    BY <1>6, <2>1, <2>2 DEF IsReported, ReportedNodes
  <2> QED
    BY <1>5, <1>6, <1>7, <1>8, <1>10, <2>3 DEF IsBadge
<1>12. BadgeAt(device) = node.path /\ BadgeNode(device) = node.node
  <2>1. PICK list : list = <<dev>>
    OBVIOUS
  <2>2. list[1] = dev
    BY <2>1
  <2> QED
    BY <1>6, <1>8, <2>1, <2>2 DEF BadgeAt, BadgeNode
<1>13. standalone' = IF IsSkipped(node) THEN standalone ELSE standalone \cup {device}
  BY <1>4, <1>9
<1>14. IsOld(node) /\ hub = {}
  BY <1>2, <1>5 DEF WInv, RecordsInv
<1>15. BadgesInv(standalone')
  <2>1. BadgesInv(standalone)
    BY DEF GInv
  <2>2. CASE IsSkipped(node)
    BY <1>13, <2>1, <2>2
  <2>3. CASE ~IsSkipped(node)
    <3>1. IsFiniteSet(standalone \cup {device})
      BY <2>1, FS_AddElement DEF BadgesInv
    <3>2. \A d \in standalone \cup {device} : IsBadge(d)
      BY <1>11, <2>1, <2>3 DEF BadgesInv
    <3>3. \A d \in standalone : ~(BadgeAt(d) = node.path /\ BadgeNode(d) = node.node)
      BY <1>2 DEF GInv, NodesInv, IsNodeOf
    <3>4. \A d, e \in standalone \cup {device} :
            (BadgeAt(d) = BadgeAt(e) /\ BadgeNode(d) = BadgeNode(e)) => d = e
      BY <1>12, <2>1, <3>3 DEF BadgesInv
    <3> QED
      BY <1>13, <2>3, <3>1, <3>2, <3>4 DEF BadgesInv
  <2> QED
    BY <2>2, <2>3
<1>16. BadgesInv(standalone)'
  <2>1. PICK S : S = standalone'
    OBVIOUS
  <2>2. BadgesInv(S)'
    BY <1>2, <1>15, <2>1, NoneDisturbs, BadgesStay
  <2> QED
    BY <2>1, <2>2 DEF BadgesInv, BadgeAt, BadgeNode
<1>17. PlacedInv' /\ GroupsInv(hubGroups)'
  BY <1>2, Keeps
<1>18. ListInv'
  <2>1. \A r \in todo' \cup hub' : IsOld(r)
    BY <1>1, <1>2, <1>14, RecordFacts
  <2>2. ~HasList /\ ~HasList' /\ devices' = devices
    BY <1>2 DEF HasList, InFreeWiliPass
  <2>3. devices = {}
    BY <2>2 DEF GInv, ListInv
  <2> QED
    BY <1>2, <2>1, <2>2, <2>3, ListKept DEF GInv
<1>19. VisitInv' /\ HubsInv' /\ ResultInv'
  BY <1>2 DEF GInv, VisitInv, HubsInv, VisitingHub, ListingHubs, ResultInv, Returned
<1>20. NodesInv'
  <2>1. /\ \A n \in todo' : ~IsSkipped(n) => n.node \in ReportedNodes(n.dev)
        /\ NodesOnce(todo) /\ NodesOnce(todo')
    BY <1>1, <1>2 DEF GInv, NodesInv, NodesOnce
  <2>2. ASSUME NEW n \in todo', NEW d \in standalone'
        PROVE  ~IsNodeOf(d, n)
    <3>1. n \in todo /\ n # node
      BY <1>1
    <3>2. CASE d \in standalone
      BY <1>2, <3>1, <3>2 DEF GInv, NodesInv
    <3>3. CASE d \notin standalone
      <4>1. d = device
        BY <1>13, <3>3
      <4>2. ~(n.path = node.path /\ n.node = node.node)
        BY <2>1, <3>1 DEF NodesOnce
      <4> QED
        BY <1>12, <4>1, <4>2 DEF IsNodeOf
    <3> QED
      BY <3>2, <3>3
  <2> QED
    BY <1>2, <2>1, <2>2 DEF NodesInv, NodesOnce, IsSkipped, IsNodeOf, BadgeAt, BadgeNode
<1>21. BadgesCovered(standalone, NodesWaiting)'
  <2>1. PICK S, N : S = standalone' /\ N = NodesWaiting'
    OBVIOUS
  <2>2. BadgesCovered(S, N)
    <3> SUFFICES ASSUME "standalone" \notin failed, NEW p, SteadyBadge(p),
                        NEW part \in ReportedNodes(tree[p])
                 PROVE  IsVisited(S, N, p, part)
      BY DEF BadgesCovered
    <3>1. IsVisited(standalone, NodesWaiting, p, part)
      BY <1>2 DEF GInv, CoveredInv, BadgesCovered
    <3>2. CASE <<p, part>> \in NodesWaiting
      <4>1. PICK n \in todo : n.path = p /\ n.node = part
        BY <1>2, <3>2 DEF NodesWaiting
      <4>2. CASE n = node
        <5>1. p \in DOMAIN tree /\ p \notin disturbed /\ part \in ReportedNodes(tree[p])
          BY DEF SteadyBadge, Steady
        <5>2. tree[p].prod = node.dev.prod /\ tree[p].parts = node.dev.parts
          BY <4>1, <4>2, <5>1, RecordFacts
        <5>3. ~IsSkipped(node)
          BY <4>1, <4>2, <5>1, <5>2 DEF IsSkipped, ReportedNodes
        <5>4. device \in S
          BY <1>13, <2>1, <5>3
        <5> QED
          BY <1>12, <4>1, <4>2, <5>4 DEF IsVisited
      <4>3. CASE n # node
        <5>1. <<n.path, n.node>> \in N
          BY <1>1, <1>2, <2>1, <4>3 DEF NodesWaiting
        <5> QED
          BY <4>1, <5>1 DEF IsVisited
      <4> QED
        BY <4>2, <4>3
    <3>3. CASE \E d \in standalone : BadgeAt(d) = p /\ BadgeNode(d) = part
      BY <1>13, <2>1, <3>3 DEF IsVisited
    <3> QED
      BY <3>1, <3>2, <3>3 DEF IsVisited
  <2>3. BadgesCovered(S, N)'
    BY <1>2, <2>2, NoneDisturbs, BadgesStayCovered
  <2> QED
    BY <2>1, <2>3, CoveredWith
<1>22. CoveredInv'
  BY <1>2, <1>21 DEF CoveredInv, ListingHubs
<1> QED
  BY <1>16, <1>17, <1>18, <1>19, <1>20, <1>22 DEF GInv

-----------------------------------------------------------------------------
(* The FreeWili pass. *)

\* The badges found so far stay those of the devices that stay put.
LEMMA BadgesKept ==
  ASSUME GInv, UNCHANGED <<tree, disturbed, standalone, failed>>,
         pc \notin {"idle", "reading standalone"}, NodesWaiting' = NodesWaiting
  PROVE  BadgesCovered(standalone, NodesWaiting)'
<1>1. PICK S, N : S = standalone /\ N = NodesWaiting
  OBVIOUS
<1>2. BadgesCovered(S, N)
  BY <1>1 DEF GInv, CoveredInv
<1>3. BadgesCovered(S, N)'
  BY <1>2, NoneDisturbs, BadgesStayCovered
<1>4. standalone' = S /\ NodesWaiting' = N
  BY <1>1
<1> QED
  BY <1>3, <1>4, CoveredWith

LEMMA FindFreeWilisGInv ==
  ASSUME WInv, GInv, FindFreeWilis
  PROVE  GInv'
<1>1. pc = "standalone" /\ todo = {}
  BY DEF FindFreeWilis
<1>2. CASE Over(ScanError)
  BY <1>2, FailedGInv DEF GInv
<1>3. CASE /\ pc' = "reading freewilis" /\ devices' = Enumerated(DOMAIN tree)
           /\ UNCHANGED <<tree, todo, hub, port, group, hubGroups, standalone, result, history,
                          failed>>
  <2>1. UNCHANGED <<tree, todo, hub, hubGroups, standalone, result, disturbed, failed>>
    BY <1>3 DEF history
  <2>2. PlacedInv' /\ GroupsInv(hubGroups)' /\ BadgesInv(standalone)'
    BY <2>1, Keeps
  <2>3. hub = {} /\ hubGroups = {}
    BY <1>1 DEF WInv, RecordsInv, GInv, HubsInv, ListingHubs
  <2>4. ListInv'
    <3>1. PICK records, places : records = devices' /\ places = DOMAIN tree
      OBVIOUS
    <3>2. PlacedInv /\ places \subseteq DOMAIN tree /\ records = Enumerated(places)
      BY <1>3, <3>1 DEF GInv
    <3>3. /\ \A r \in records : /\ IsPlaced(r.path, r.dev) /\ r.live /\ r.node = "device"
                                /\ r.path \in places /\ r.dev = tree[r.path]
                                /\ r.chain = usbPortChain(r.path) /\ r.key = tree[r.path].bound
          /\ SamePathSame(records) /\ SameIDSamePath(records)
          /\ \A p \in places : \E r \in records :
               r.path = p /\ r.dev = tree[p] /\ r.key = tree[p].bound
      BY <3>2, PlacedRecords
    <3>4. SamePathSame(devices)' /\ SameIDSamePath(devices)'
      BY <3>1, <3>3 DEF SamePathSame, SameIDSamePath, InstanceId
    <3>5. HasList'
      BY <1>3 DEF HasList, InFreeWiliPass
    <3>6. \A r \in devices' \cup todo' \cup hub' :
            /\ IsPlaced(r.path, r.dev) /\ r.chain = usbPortChain(r.path)
            /\ ~r.live => r.path \in disturbed'
      BY <1>1, <2>1, <2>3, <3>1, <3>3
    <3>7. \A p : Steady(p)' => \E r \in devices' :
                    r.path = p /\ r.dev = tree'[p] /\ r.key = tree'[p].bound
      BY <2>1, <3>1, <3>3, Zenon DEF Steady
    <3>8. \A r \in devices' : r.node = "device"
      BY <3>1, <3>3
    <3> QED
      BY <3>4, <3>5, <3>6, <3>7, <3>8 DEF ListInv, IsPlaced, IsChain
  <2>5. VisitInv' /\ HubsInv' /\ NodesInv' /\ ResultInv'
    BY <1>3, <2>1, <2>3
       DEF VisitInv, HubsInv, NodesInv, VisitingHub, ListingHubs, ResultInv, Returned
  <2>6. CoveredInv'
    <3>1. NodesWaiting = {} /\ NodesWaiting' = {}
      BY <1>1, <1>3 DEF NodesWaiting
    <3>2. BadgesCovered(standalone, NodesWaiting)'
      BY <1>1, <2>1, <3>1, BadgesKept
    <3> QED
      BY <1>3, <3>2 DEF CoveredInv, ListingHubs
  <2> QED
    BY <2>2, <2>4, <2>5, <2>6 DEF GInv
<1> QED
  BY <1>2, <1>3 DEF FindFreeWilis

LEMMA ReadDevicesGInv ==
  ASSUME WInv, GInv, ReadDevices
  PROVE  GInv'
<1>1. pc = "reading freewilis"
  BY DEF ReadDevices
<1>2. CASE Over(ScanError)
  BY <1>2, FailedGInv DEF GInv
<1>3. CASE /\ pc' = "hubs" /\ devices' \in Readings(devices)
           /\ todo' = Enumerated({p \in DOMAIN tree : is_freewili_hub(tree[p].prod)})
           /\ UNCHANGED <<tree, hub, port, group, hubGroups, standalone, result, history, failed>>
  <2>1. UNCHANGED <<tree, hub, hubGroups, standalone, result, disturbed, failed>>
    BY <1>3 DEF history
  <2>2. PlacedInv' /\ GroupsInv(hubGroups)' /\ BadgesInv(standalone)'
    BY <2>1, Keeps
  <2>3. hub = {} /\ hubGroups = {}
    BY <1>1 DEF WInv, RecordsInv, GInv, HubsInv, ListingHubs
  <2>4. PICK records, places : /\ records = todo'
                               /\ places = {p \in DOMAIN tree : is_freewili_hub(tree[p].prod)}
    OBVIOUS
  <2>5. PlacedInv /\ places \subseteq DOMAIN tree /\ records = Enumerated(places)
    BY <1>3, <2>4 DEF GInv
  <2>6. /\ \A r \in records : /\ IsPlaced(r.path, r.dev) /\ r.live /\ r.node = "device"
                              /\ r.path \in places /\ r.dev = tree[r.path]
                              /\ r.chain = usbPortChain(r.path)
        /\ SamePathSame(records)
        /\ \A p \in places : \E r \in records : r.path = p
    BY <2>5, PlacedRecords
  <2>7. ListInv'
    <3>1. \A r \in todo' \cup hub' : IsOld(r)
      BY <2>1, <2>3, <2>4, <2>6 DEF IsOld, IsChain
    <3>2. HasList /\ HasList'
      BY <1>1, <1>3 DEF HasList, InFreeWiliPass
    <3> QED
      BY <1>3, <2>1, <3>1, <3>2, ListKept DEF GInv
  <2>8. SamePathSame(todo)'
    BY <2>4, <2>6 DEF SamePathSame
  <2>9. VisitInv' /\ HubsInv' /\ NodesInv' /\ ResultInv'
    BY <1>3, <2>1, <2>3, <2>8
       DEF VisitInv, HubsInv, NodesInv, VisitingHub, ListingHubs, ResultInv, Returned
  <2>10. HubsCovered(hubGroups, HubsWaiting)'
    <3> SUFFICES ASSUME NEW p, Steady(p)', is_freewili_hub(tree'[p].prod)
                 PROVE  p \in HubsWaiting'
      BY DEF HubsCovered
    <3>1. p \in places
      BY <2>1, <2>4 DEF Steady
    <3>2. \E r \in todo' : r.path = p
      BY <2>4, <2>6, <3>1
    <3> QED
      BY <3>2 DEF HubsWaiting
  <2>11. CoveredInv'
    <3>1. NodesWaiting = {} /\ NodesWaiting' = {}
      BY <1>1, <1>3 DEF NodesWaiting
    <3>2. BadgesCovered(standalone, NodesWaiting)'
      BY <1>1, <2>1, <3>1, BadgesKept
    <3> QED
      BY <2>10, <3>2 DEF CoveredInv
  <2> QED
    BY <2>2, <2>7, <2>9, <2>11 DEF GInv
<1> QED
  BY <1>2, <1>3 DEF ReadDevices

\* The hubs still to visit.
LEMMA HubFacts ==
  ASSUME WInv, GInv, ListingHubs, NEW h \in todo \cup hub
  PROVE  /\ is_freewili_hub(h.dev.prod) /\ IsHub(h.dev.prod) /\ h.dev.prod # "ForeignHub"
         /\ Len(h.path) > 1 /\ OfFreeWiliHub(h.path)
         /\ InstanceId(h.path, h.dev).place = h.path
<1>1. is_freewili_hub(h.dev.prod)
  BY DEF WInv, RecordsInv, ListingHubs
<1>2. h.path \in Places /\ IsPlaced(h.path, h.dev)
  BY RecordFacts
<1>3. h.dev.prod \in HubProduct
  BY <1>1 DEF is_freewili_hub
<1>4. IsHub(h.dev.prod) /\ h.dev.prod # "ForeignHub"
  BY <1>3 DEF IsHub, HubProduct
<1>5. Len(h.path) > 1 /\ \E slot \in Slots : slot.path = h.path /\ h.dev.prod = slot.prod
  BY <1>2, <1>4, BadgeIsPlugged
<1>6. OfFreeWiliHub(h.path)
  BY <1>1, <1>5 DEF OfFreeWiliHub
<1>7. InstanceId(h.path, h.dev).place = h.path
  BY <1>4 DEF InstanceId
<1> QED
  BY <1>1, <1>4, <1>5, <1>6, <1>7

\* What is the same in every step from one hub to the next.
LEMMA PassGInv ==
  ASSUME WInv, GInv, ListingHubs, ListingHubs',
         UNCHANGED <<tree, devices, standalone, result, disturbed, failed>>,
         \A r \in todo' \cup hub' : IsOld(r)
  PROVE  /\ PlacedInv' /\ ListInv' /\ BadgesInv(standalone)' /\ NodesInv' /\ ResultInv'
         /\ BadgesCovered(standalone, NodesWaiting)'
<1>1. /\ pc \in {"hubs", "opening", "ports"} /\ pc' \in {"hubs", "opening", "ports"}
  BY DEF ListingHubs
<1>2. PlacedInv' /\ BadgesInv(standalone)'
  BY Keeps
<1>3. HasList /\ HasList'
  BY <1>1 DEF HasList, InFreeWiliPass
<1>4. ListInv'
  BY <1>3, ListKept DEF GInv
<1>5. NodesInv' /\ ResultInv'
  BY <1>1 DEF NodesInv, ResultInv, Returned
<1>6. NodesWaiting = {} /\ NodesWaiting' = {}
  BY <1>1 DEF NodesWaiting
<1>7. BadgesCovered(standalone, NodesWaiting)'
  BY <1>1, <1>6, BadgesKept
<1> QED
  BY <1>2, <1>4, <1>5, <1>7

LEMMA HubsKept ==
  ASSUME GInv, ListingHubs, UNCHANGED <<tree, disturbed>>,
         \A p : /\ Steady(p) /\ is_freewili_hub(tree[p].prod)
                /\ p \in HubsWaiting \/ \E list \in hubGroups : HubAt(list) = p
                => p \in HubsWaiting' \/ \E list \in hubGroups' : HubAt(list) = p
  PROVE  HubsCovered(hubGroups, HubsWaiting)'
<1> SUFFICES ASSUME NEW p, Steady(p)', is_freewili_hub(tree'[p].prod)
             PROVE  p \in HubsWaiting' \/ \E list \in hubGroups' : HubAt(list) = p
  BY DEF HubsCovered, HubAt
<1>1. Steady(p) /\ is_freewili_hub(tree[p].prod)
  BY DEF Steady
<1>2. p \in HubsWaiting \/ \E list \in hubGroups : HubAt(list) = p
  BY <1>1 DEF GInv, CoveredInv, HubsCovered
<1> QED
  BY <1>1, <1>2

\* A hub that is not asked has left or is not the one that was there.
LEMMA SkipHubGInv ==
  ASSUME WInv, GInv, pc = "hubs", NEW h \in todo, ~h.live \/ ByInstanceId(h.path, h.dev) = {},
         todo' = todo \ {h},
         UNCHANGED <<tree, pc, devices, hub, port, group, hubGroups, standalone, result,
                     disturbed, failed>>
  PROVE  GInv'
<1>1. ListingHubs /\ ListingHubs' /\ ~VisitingHub /\ ~VisitingHub' /\ HasList
  BY DEF ListingHubs, VisitingHub, HasList, InFreeWiliPass
<1>2. ~Steady(h.path)
  <2> SUFFICES ASSUME Steady(h.path) PROVE FALSE
    OBVIOUS
  <2>1. h.live /\ InstanceId(h.path, tree[h.path]) = InstanceId(h.path, h.dev)
    BY RecordFacts DEF Steady
  <2>2. PICK r \in devices : r.path = h.path /\ r.dev = tree[h.path]
    BY <1>1, DeviceFacts
  <2>3. r \in ByInstanceId(h.path, h.dev)
    BY <2>1, <2>2 DEF ByInstanceId
  <2> QED
    BY <2>1, <2>3
<1>3. hub = {}
  BY DEF WInv, RecordsInv
<1>4. \A r \in todo' \cup hub' : IsOld(r)
  BY <1>3, RecordFacts
<1>5. /\ PlacedInv' /\ ListInv' /\ BadgesInv(standalone)' /\ NodesInv' /\ ResultInv'
      /\ BadgesCovered(standalone, NodesWaiting)'
  BY <1>1, <1>4, PassGInv
<1>6. GroupsInv(hubGroups)'
  BY Keeps
<1>7. VisitInv'
  BY <1>1 DEF VisitInv
<1>8. HubsInv'
  <2>1. /\ \A r, s \in todo : r.path = s.path => r = s
        /\ \A r \in todo, list \in hubGroups : r.path # HubAt(list)
    BY <1>1 DEF GInv, HubsInv, SamePathSame
  <2> QED
    BY <1>1, <2>1 DEF HubsInv, SamePathSame, HubAt
<1>9. \A p : Steady(p) => (p \in HubsWaiting => p \in HubsWaiting')
  <2>1. HubsWaiting = {r.path : r \in todo} /\ HubsWaiting' = {r.path : r \in todo'}
    BY <1>1 DEF HubsWaiting
  <2> QED
    BY <1>2, <2>1
<1>10. HubsCovered(hubGroups, HubsWaiting)'
  BY <1>1, <1>9, HubsKept
<1>11. CoveredInv'
  BY <1>5, <1>10 DEF CoveredInv
<1> QED
  BY <1>5, <1>6, <1>7, <1>8, <1>11 DEF GInv

LEMMA AloneIsSeq ==
  ASSUME NEW x, NEW list, list = <<x>>
  PROVE  list \in Seq(ToSet(list)) /\ Len(list) = 1 /\ DOMAIN list = {1} /\ list[1] = x
<1>1. list \in Seq({x}) /\ DOMAIN list = {1} /\ list[1] = x
  BY SingletonList
<1>2. list \in Seq(ToSet(list))
  BY <1>1, SeqOfItself
<1> QED
  BY <1>1, <1>2

LEMMA AskHubGInv ==
  ASSUME WInv, GInv, pc = "hubs", pc' = "opening", NEW h \in todo, h.live,
         NEW known \in ByInstanceId(h.path, h.dev), NEW serial \in HubSerials(h),
         group' = <<USBDevice(known, 0, serial, NoPort, NoPort)>>,
         todo' = todo \ {h}, hub' = {h},
         UNCHANGED <<tree, devices, port, hubGroups, standalone, result, disturbed, failed>>
  PROVE  GInv'
<1>1. ListingHubs /\ ListingHubs' /\ ~VisitingHub /\ VisitingHub' /\ HasList
  BY DEF ListingHubs, VisitingHub, HasList, InFreeWiliPass
<1>2. known \in devices /\ InstanceId(known.path, known.dev) = InstanceId(h.path, h.dev)
  BY DEF ByInstanceId
<1>3. /\ is_freewili_hub(h.dev.prod) /\ IsHub(h.dev.prod)
      /\ Len(h.path) > 1 /\ OfFreeWiliHub(h.path)
      /\ InstanceId(h.path, h.dev).place = h.path
  BY <1>1, HubFacts
<1>4. known.dev.prod = h.dev.prod
  BY <1>2 DEF InstanceId
<1>5. known.path = h.path
  BY <1>2, <1>3, <1>4 DEF InstanceId
<1>6. serial # ""
  BY DEF HubSerials
<1>7. PICK dev : dev = USBDevice(known, 0, serial, NoPort, NoPort)
  OBVIOUS
<1>8. known.node = "device"
  BY <1>2, DeviceFacts
<1>9. /\ IsRead(dev) /\ dev.place = h.path /\ dev.prod = h.dev.prod
      /\ dev.kind = "Hub" /\ dev.node = "device"
  <2>1. known \in devices \cup todo \cup hub /\ Len(known.path) > 1 /\ IsHub(known.dev.prod)
    BY <1>2, <1>3, <1>4, <1>5
  <2>2. IsRead(dev)
    BY <1>6, <1>7, <2>1, ReadIs
  <2>3. /\ dev.place = known.path /\ dev.prod = known.dev.prod /\ dev.node = known.node
        /\ is_freewili_hub(known.dev.prod) => dev.kind = "Hub"
    BY <1>7, ReadFields
  <2> QED
    BY <1>3, <1>4, <1>5, <1>8, <2>2, <2>3
<1>10. PICK list : list = group'
  OBVIOUS
<1>11. list \in Seq(ToSet(list)) /\ Len(list) = 1 /\ DOMAIN list = {1} /\ list[1] = dev
  BY <1>7, <1>10, AloneIsSeq
<1>12. HubAt(list) = h.path
  BY <1>9, <1>11 DEF HubAt
<1>13. IsHubGroup(list)
  <2>1. \A k \in DOMAIN list : k = 1 /\ IsRead(list[k]) /\ list[k].node = "device"
    BY <1>9, <1>11
  <2> QED
    BY <1>3, <1>9, <1>11, <1>12, <2>1 DEF IsHubGroup
<1>14. IsHubGroup(list)'
  BY <1>13, NoneDisturbs, HubGroupStays
<1>15. VisitInv'
  <2>1. IsHubGroup(group)'
    BY <1>10, <1>14 DEF IsHubGroup
  <2>2. HubAt(group)' = h.path
    BY <1>10, <1>12 DEF HubAt
  <2> QED
    BY <1>10, <1>11, <2>1, <2>2 DEF VisitInv
<1>16. \A r \in todo' \cup hub' : IsOld(r)
  BY RecordFacts
<1>17. /\ PlacedInv' /\ ListInv' /\ BadgesInv(standalone)' /\ NodesInv' /\ ResultInv'
       /\ BadgesCovered(standalone, NodesWaiting)'
  BY <1>1, <1>16, PassGInv
<1>18. GroupsInv(hubGroups)'
  BY Keeps
<1>19. HubsInv'
  <2>1. /\ \A r, s \in todo : r.path = s.path => r = s
        /\ \A r \in todo, l \in hubGroups : r.path # HubAt(l)
    BY <1>1 DEF GInv, HubsInv, SamePathSame
  <2>2. HubAt(group)' = h.path
    BY <1>10, <1>12 DEF HubAt
  <2>3. \A r \in todo' : r.path # h.path
    BY <2>1
  <2>4. \A l \in hubGroups : HubAt(l) # h.path
    BY <2>1
  <2> QED
    BY <1>1, <2>1, <2>2, <2>3, <2>4 DEF HubsInv, SamePathSame, HubAt
<1>20. HubsWaiting \subseteq HubsWaiting'
  <2>1. HubAt(group)' = h.path
    BY <1>10, <1>12 DEF HubAt
  <2>2. HubsWaiting = {r.path : r \in todo}
    BY <1>1 DEF HubsWaiting
  <2>3. HubsWaiting' = {r.path : r \in todo'} \cup {h.path}
    BY <1>1, <2>1 DEF HubsWaiting
  <2> QED
    BY <2>2, <2>3
<1>21. HubsCovered(hubGroups, HubsWaiting)'
  BY <1>1, <1>20, HubsKept
<1>22. CoveredInv'
  BY <1>17, <1>21 DEF CoveredInv
<1> QED
  BY <1>15, <1>17, <1>18, <1>19, <1>22 DEF GInv

LEMMA IdentifyHubGInv ==
  ASSUME WInv, GInv, IdentifyHub
  PROVE  GInv'
<1>1. pc = "hubs" /\ failed' = failed
  BY DEF IdentifyHub
<1>2. PICK h \in todo :
       \/ /\ ~h.live \/ ByInstanceId(h.path, h.dev) = {}
          /\ todo' = todo \ {h}
          /\ UNCHANGED <<tree, pc, devices, hub, port, group, hubGroups, standalone, result,
                         history>>
       \/ Over(Crashed)
       \/ /\ h.live
          /\ \E known \in ByInstanceId(h.path, h.dev), serial \in HubSerials(h) :
               group' = <<USBDevice(known, 0, serial, NoPort, NoPort)>>
          /\ todo' = todo \ {h} /\ hub' = {h} /\ pc' = "opening"
          /\ UNCHANGED <<tree, devices, port, hubGroups, standalone, result, history>>
  BY DEF IdentifyHub
<1>3. CASE /\ ~h.live \/ ByInstanceId(h.path, h.dev) = {}
           /\ todo' = todo \ {h}
           /\ UNCHANGED <<tree, pc, devices, hub, port, group, hubGroups, standalone, result,
                          history>>
  BY <1>1, <1>3, SkipHubGInv DEF history
<1>4. CASE Over(Crashed)
  BY <1>4, FailedGInv DEF GInv
<1>5. CASE /\ h.live
           /\ \E known \in ByInstanceId(h.path, h.dev), serial \in HubSerials(h) :
                group' = <<USBDevice(known, 0, serial, NoPort, NoPort)>>
           /\ todo' = todo \ {h} /\ hub' = {h} /\ pc' = "opening"
           /\ UNCHANGED <<tree, devices, port, hubGroups, standalone, result, history>>
  <2>1. PICK known \in ByInstanceId(h.path, h.dev), serial \in HubSerials(h) :
          group' = <<USBDevice(known, 0, serial, NoPort, NoPort)>>
    BY <1>5
  <2> QED
    BY <1>1, <1>5, <2>1, AskHubGInv DEF history
<1> QED
  BY <1>2, <1>3, <1>4, <1>5

\* The hub being visited, while it stays put.
LEMMA VisitedHub ==
  ASSUME WInv, GInv, VisitingHub, NEW h \in hub
  PROVE  /\ HubAt(group) = h.path /\ h.path \in Places /\ Len(h.path) > 1
         /\ h.path \in Seq(PathElement) /\ hub = {h}
         /\ Undisturbed(h.path) =>
              h.live /\ h.path \in DOMAIN tree /\ is_freewili_hub(tree[h.path].prod)
<1>1. pc \in {"opening", "ports"} /\ ListingHubs
  BY DEF VisitingHub, ListingHubs
<1>2. HubAt(group) = h.path
  BY DEF GInv, VisitInv
<1>3. /\ h.path \in Places
      /\ h.path \notin disturbed => h.live
      /\ h.live => h.path \in DOMAIN tree /\ tree[h.path].prod = h.dev.prod
  BY RecordFacts
<1>4. is_freewili_hub(h.dev.prod) /\ Len(h.path) > 1
  BY <1>1, HubFacts
<1>5. h.path \in Seq(PathElement)
  BY <1>3, PlaceIs
<1>6. Undisturbed(h.path) => h.path \notin disturbed
  BY <1>5, PrefixReflexive DEF Undisturbed
<1>7. hub = {h}
  BY <1>1 DEF WInv, RecordsInv
<1> QED
  BY <1>2, <1>3, <1>4, <1>5, <1>6, <1>7

LEMMA OnPortIs ==
  ASSUME WInv, NEW at \in Places, NEW p \in OnPorts(at)
  PROVE  /\ p \in DOMAIN tree /\ p \in Places /\ Len(p) > 1 /\ Front(p) = at
         /\ Last(p) \in Nat \ {0} /\ p = Append(at, Last(p)) /\ IsPrefix(at, p)
         /\ tree[p].bound
         /\ Undisturbed(at) => p \notin disturbed
<1>1. /\ p \in DOMAIN tree /\ p \in Places /\ IsPrefix(at, p) /\ Len(p) = Len(at) + 1
      /\ tree[p].bound
  BY DEF OnPorts, Subtree, WInv, TreeInv
<1>2. PICK m, n : m = Len(at) /\ n = Len(p)
  OBVIOUS
<1>3. m \in Nat /\ m > 0 /\ n = m + 1 /\ at \in Seq(PathElement) /\ p \in Seq(PathElement)
  BY <1>1, <1>2, PlaceIs
<1>4. n > 1
  BY <1>3
<1>5. \A i \in 1..m : at[i] = p[i]
  BY <1>1, <1>2, <1>3, PrefixElements
<1>6. PICK f : f = Front(p)
  OBVIOUS
<1>7. f \in Seq(PathElement) /\ Len(f) = m /\ \A i \in 1..m : f[i] = p[i]
  <2>1. n > 0 /\ n - 1 = m
    BY <1>3
  <2> QED
    BY <1>2, <1>3, <1>6, <2>1, FrontElements
<1>8. f = at
  BY <1>2, <1>3, <1>5, <1>7, SameSequence
<1>9. Last(p) \in Nat \ {0} /\ p = Append(f, Last(p))
  BY <1>1, <1>2, <1>4, <1>6, PortOfPlace
<1> QED
  BY <1>1, <1>2, <1>4, <1>6, <1>8, <1>9 DEF Undisturbed

LEMMA VisitGInv ==
  ASSUME WInv, GInv, VisitingHub, pc' = "ports",
         UNCHANGED <<tree, devices, todo, hub, hubGroups, standalone, result, disturbed, failed>>,
         NEW list, group' = list, HubAt(list) = HubAt(group), IsHubGroup(list),
         HasBelow(list, port'),
         Undisturbed(HubAt(list)) => \A k \in DOMAIN list : k > 1 => Last(list[k].place) < port'
  PROVE  GInv'
<1>1. ListingHubs /\ ListingHubs' /\ VisitingHub'
  BY DEF ListingHubs, VisitingHub
<1>2. PICK at, n : at = HubAt(group) /\ n = port'
  OBVIOUS
<1>3. HubAt(group)' = at /\ Undisturbed(at)' = Undisturbed(at)
  BY <1>2 DEF HubAt, Undisturbed
<1>4. IsHubGroup(list)' /\ HasBelow(list, n)'
  BY <1>2, NoneDisturbs, HubGroupStays, HasStays
<1>5. VisitInv'
  <2>1. IsHubGroup(group)'
    BY <1>4 DEF IsHubGroup
  <2>2. HasBelow(group, port)'
    BY <1>2, <1>4 DEF HasBelow
  <2>3. \A h \in hub' : h.path = HubAt(group)'
    BY <1>2, <1>3 DEF GInv, VisitInv
  <2>4. Undisturbed(HubAt(group))' = Undisturbed(at)
    BY <1>3 DEF Undisturbed
  <2>5. Undisturbed(HubAt(group))' =>
          \A k \in DOMAIN group' : k > 1 => Last(group'[k].place) < port'
    BY <1>2, <2>4
  <2> QED
    BY <2>1, <2>2, <2>3, <2>5 DEF VisitInv
<1>6. \A r \in todo' \cup hub' : IsOld(r)
  BY RecordFacts
<1>7. /\ PlacedInv' /\ ListInv' /\ BadgesInv(standalone)' /\ NodesInv' /\ ResultInv'
      /\ BadgesCovered(standalone, NodesWaiting)'
  BY <1>1, <1>6, PassGInv
<1>8. GroupsInv(hubGroups)'
  BY Keeps
<1>9. HubsInv'
  <2>1. /\ \A r, s \in todo : r.path = s.path => r = s
        /\ \A r \in todo, l \in hubGroups : r.path # HubAt(l)
        /\ \A r \in todo : r.path # at
        /\ \A l \in hubGroups : HubAt(l) # at
    BY <1>1, <1>2 DEF GInv, HubsInv, SamePathSame
  <2> QED
    BY <1>1, <1>3, <2>1 DEF HubsInv, SamePathSame, HubAt
<1>10. HubsWaiting' = HubsWaiting
  <2>1. HubsWaiting = {r.path : r \in todo} \cup {at}
    BY <1>1, <1>2 DEF HubsWaiting
  <2>2. HubsWaiting' = {r.path : r \in todo} \cup {at}
    BY <1>1, <1>3 DEF HubsWaiting
  <2> QED
    BY <2>1, <2>2
<1>11. HubsCovered(hubGroups, HubsWaiting)'
  BY <1>1, <1>10, HubsKept
<1>12. CoveredInv'
  BY <1>7, <1>11 DEF CoveredInv
<1> QED
  BY <1>5, <1>7, <1>8, <1>9, <1>12 DEF GInv

LEMMA OpenHubGInv ==
  ASSUME WInv, GInv, OpenHub
  PROVE  GInv'
<1>1. pc = "opening"
  BY DEF OpenHub
<1>2. PICK h \in hub :
        \/ /\ pc' = "ports" /\ port' = 0
           /\ UNCHANGED <<tree, devices, todo, hub, group, hubGroups, standalone, result, history,
                          failed>>
        \/ Over(ScanError)
  BY DEF OpenHub
<1>3. CASE Over(ScanError)
  BY <1>3, FailedGInv DEF GInv
<1>4. CASE /\ pc' = "ports" /\ port' = 0
           /\ UNCHANGED <<tree, devices, todo, hub, group, hubGroups, standalone, result, history,
                          failed>>
  <2>1. VisitingHub
    BY <1>1 DEF VisitingHub
  <2>2. PICK list : list = group
    OBVIOUS
  <2>3. IsHubGroup(list) /\ Len(list) = 1
    BY <1>1, <2>1, <2>2 DEF GInv, VisitInv
  <2>4. HubAt(list) = h.path /\ h.path \in Places
    BY <2>1, <2>2, VisitedHub
  <2>5. HasBelow(list, 0)
    <3>1. ASSUME NEW p \in OnPorts(h.path) PROVE ~(Last(p) < 0)
      <4>1. PICK n : n = Last(p) /\ n \in Nat
        BY <2>4, OnPortIs
      <4> QED
        BY <4>1
    <3> QED
      BY <2>4, <3>1 DEF HasBelow
  <2>6. \A k \in DOMAIN list : ~(k > 1)
    BY <2>3 DEF IsHubGroup
  <2> QED
    BY <1>1, <1>4, <2>1, <2>2, <2>3, <2>5, <2>6, VisitGInv DEF history
<1> QED
  BY <1>2, <1>3, <1>4

\* A driver key leads to the device at the port, unless something changed there.
LEMMA KeyLeads ==
  ASSUME WInv, GInv, HasList, NEW q \in DOMAIN tree, Len(q) > 1,
         NEW r \in ByDriverKey(q, tree[q])
  PROVE  /\ r \in devices /\ r.node = "device" /\ Len(r.path) > 1
         /\ q \notin disturbed => r.path = q
         /\ r.path = q \/ r.path \in disturbed
<1>1. r \in devices /\ InstanceId(r.path, r.dev) = InstanceId(q, tree[q])
  BY DEF ByDriverKey, ByInstanceId
<1>2. /\ r.path \in Places /\ IsPlaced(r.path, r.dev)
      /\ r.path \notin disturbed =>
           /\ r.path \in DOMAIN tree
           /\ InstanceId(r.path, tree[r.path]) = InstanceId(r.path, r.dev)
  BY <1>1, RecordFacts
<1>3. r.node = "device"
  BY <1>1, DeviceFacts
<1>4. q \notin disturbed => r.path = q
  <2> SUFFICES ASSUME q \notin disturbed PROVE r.path = q
    OBVIOUS
  <2>1. Steady(q)
    BY DEF Steady
  <2>2. PICK s \in devices : s.path = q /\ s.dev = tree[q]
    BY <2>1, DeviceFacts
  <2>3. InstanceId(r.path, r.dev) = InstanceId(s.path, s.dev)
    BY <1>1, <2>2
  <2> QED
    BY <1>1, <2>2, <2>3, DeviceFacts
<1>5. r.path = q \/ r.path \in disturbed
  BY <1>1, <1>2 DEF GInv, PlacedInv
<1>6. Len(r.path) > 1
  <2>1. CASE r.dev.prod # "ForeignHub"
    BY <1>2, <2>1, BadgeIsPlugged
  <2>2. CASE r.dev.prod = "ForeignHub"
    <3>1. IsHub(r.dev.prod) /\ tree[q].prod = r.dev.prod
      BY <1>1, <2>2 DEF IsHub, InstanceId
    <3>2. r.path = q
      BY <1>1, <3>1 DEF InstanceId
    <3> QED
      BY <3>2
  <2> QED
    BY <2>1, <2>2
<1> QED
  BY <1>1, <1>3, <1>4, <1>5, <1>6

\* A port whose device has left or is too new for a driver key.
LEMMA EmptyPortGInv ==
  ASSUME WInv, GInv, pc = "ports", NEW h \in hub,
         h.live /\ Append(h.path, port) \in DOMAIN tree => ~tree[Append(h.path, port)].bound,
         port' = port + 1,
         UNCHANGED <<tree, pc, devices, todo, hub, group, hubGroups, standalone, result,
                     disturbed, failed>>
  PROVE  GInv'
<1>1. VisitingHub /\ HasList
  BY DEF VisitingHub, HasList, InFreeWiliPass
<1>2. PICK at, list, n : at = h.path /\ list = group /\ n = port
  OBVIOUS
<1>3. /\ HubAt(list) = at /\ at \in Places
      /\ Undisturbed(at) => h.live
  BY <1>1, <1>2, VisitedHub
<1>4. /\ IsHubGroup(list) /\ HasBelow(list, n) /\ n \in Nat
      /\ Undisturbed(at) => \A k \in DOMAIN list : k > 1 => Last(list[k].place) < n
  BY <1>1, <1>2, <1>3 DEF GInv, VisitInv, WInv, ScanInv
<1>5. ASSUME Undisturbed(at), NEW p \in OnPorts(at), Last(p) < n + 1
      PROVE  Has(list, p)
  <2>1. p \in DOMAIN tree /\ Last(p) \in Nat /\ p = Append(at, Last(p)) /\ tree[p].bound
    BY <1>3, <1>5, OnPortIs
  <2>2. Last(p) # n
    <3> SUFFICES ASSUME Last(p) = n PROVE FALSE
      OBVIOUS
    <3>1. p = Append(at, n) /\ h.live
      BY <1>3, <1>5, <2>1
    <3> QED
      BY <1>2, <2>1, <3>1
  <2>3. Last(p) < n
    BY <1>4, <1>5, <2>1, <2>2
  <2> QED
    BY <1>3, <1>4, <1>5, <2>3 DEF HasBelow
<1>6. HasBelow(list, n + 1)
  BY <1>3, <1>5 DEF HasBelow
<1>7. Undisturbed(at) => \A k \in DOMAIN list : k > 1 => Last(list[k].place) < n + 1
  <2>1. ASSUME Undisturbed(at), NEW k \in DOMAIN list, k > 1
        PROVE  Last(list[k].place) < n + 1
    <3>1. Last(list[k].place) < n
      BY <1>4, <2>1
    <3>2. Front(list[k].place) = at /\ IsRead(list[k])
      BY <1>3, <1>4, <2>1 DEF IsHubGroup
    <3>3. PICK x : x = Last(list[k].place) /\ x \in Nat
      BY <3>2, PortOfPlace DEF IsRead
    <3> QED
      BY <1>4, <3>1, <3>3
  <2> QED
    BY <2>1
<1> QED
  BY <1>1, <1>2, <1>3, <1>4, <1>6, <1>7, VisitGInv

Extends(longer, list, x, m) ==
  /\ longer \in Seq(ToSet(longer)) /\ Len(longer) > 0 /\ m \in Nat
  /\ DOMAIN longer = 1..(m + 1) /\ DOMAIN list = 1..m
  /\ \A k \in 1..m : longer[k] = list[k]
  /\ longer[m + 1] = x

LEMMA AppendedIs ==
  ASSUME NEW S, NEW list \in Seq(S), NEW x
  PROVE  Extends(Append(list, x), list, x, Len(list))
<1>1. PICK m, longer : m = Len(list) /\ longer = Append(list, x)
  OBVIOUS
<1>2. PICK T : T = S \cup {x}
  OBVIOUS
<1>3. list \in Seq(T) /\ x \in T
  BY <1>2, SeqOfMore
<1>4. longer \in Seq(T) /\ Len(longer) = m + 1 /\ m \in Nat
  BY <1>1, <1>3
<1>5. /\ \A k \in 1..m : longer[k] = list[k]
      /\ longer[m + 1] = x
  BY <1>1, <1>3, <1>4
<1>6. longer \in Seq(ToSet(longer))
  BY <1>4, SeqOfItself
<1>7. DOMAIN longer = 1..(m + 1) /\ DOMAIN list = 1..m
  BY <1>1, <1>4
<1>8. Len(longer) > 0
  BY <1>4
<1>9. Extends(longer, list, x, m)
  BY <1>4, <1>5, <1>6, <1>7, <1>8 DEF Extends
<1> QED
  BY <1>1, <1>9

LEMMA FilledPortGInv ==
  ASSUME WInv, GInv, pc = "ports", NEW h \in hub,
         NEW q, q = Append(h.path, port), q \in DOMAIN tree, tree[q].bound,
         NEW r \in ByDriverKey(q, tree[q]),
         NEW tty \in SerialPorts(r), NEW letters \in DriveLetters(r),
         NEW dev, dev = USBDevice(r, port, OwnSerial(r), tty, letters),
         group' = Append(group, dev), port' = port + 1,
         UNCHANGED <<tree, pc, devices, todo, hub, hubGroups, standalone, result,
                     disturbed, failed>>
  PROVE  GInv'
<1>1. VisitingHub /\ HasList
  BY DEF VisitingHub, HasList, InFreeWiliPass
<1>2. PICK at, list, n, longer :
        at = h.path /\ list = group /\ n = port /\ longer = Append(list, dev)
  OBVIOUS
<1>3. HubAt(list) = at /\ at \in Places /\ at \in Seq(PathElement)
  BY <1>1, <1>2, VisitedHub
<1>4. /\ IsHubGroup(list) /\ HasBelow(list, n) /\ n \in Nat
      /\ Undisturbed(at) => \A k \in DOMAIN list : k > 1 => Last(list[k].place) < n
  BY <1>1, <1>2, <1>3 DEF GInv, VisitInv, WInv, ScanInv
<1>5. /\ q = Append(at, n) /\ q \in Seq(PathElement) /\ Len(q) = Len(at) + 1
      /\ Front(q) = at /\ Last(q) = n /\ IsPrefix(at, q) /\ Len(q) > 1
  <2>1. n \in PathElement
    BY <1>4 DEF PathElement
  <2>2. q = Append(at, n) /\ q \in Seq(PathElement) /\ Len(q) = Len(at) + 1
    BY <1>2, <1>3, <2>1
  <2>3. Front(q) = at
    BY <1>3, <2>1, <2>2, FrontOfAppend
  <2>4. PICK m : m = Len(at) /\ m \in Nat /\ m > 0
    BY <1>3, PlaceIs
  <2>5. Len(q) > 1 /\ Len(q) > 0
    BY <2>2, <2>4
  <2>6. IsPrefix(at, q)
    BY <2>2, <2>3, <2>5, FrontIsPrefix
  <2>7. Last(q) = n
    <3>1. q[m + 1] = n
      BY <1>3, <2>1, <2>2, <2>4
    <3> QED
      BY <2>2, <2>4, <3>1 DEF Last
  <2> QED
    BY <2>2, <2>3, <2>5, <2>6, <2>7
<1>6. /\ r \in devices /\ r.node = "device" /\ Len(r.path) > 1
      /\ q \notin disturbed => r.path = q
      /\ r.path = q \/ r.path \in disturbed
  BY <1>1, <1>5, KeyLeads
<1>7. IsRead(dev)
  <2>1. r \in devices \cup todo \cup hub
    BY <1>6
  <2> QED
    BY <1>6, <2>1, OwnSerialIs, ReadIs
<1>8. dev.place = r.path /\ dev.node = "device" /\ HasDriver(r.path)
  BY <1>6 DEF USBDevice, HasDriver
<1>9. Undisturbed(at) => q \notin disturbed /\ r.path = q
  BY <1>5, <1>6 DEF Undisturbed
<1>10. PICK m : m = Len(list)
  OBVIOUS
<1>11. /\ longer \in Seq(ToSet(longer)) /\ Len(longer) > 0 /\ m \in Nat /\ m > 0
       /\ DOMAIN longer = 1..(m + 1) /\ DOMAIN list = 1..m
       /\ \A k \in 1..m : longer[k] = list[k]
       /\ longer[m + 1] = dev
  <2>1. list \in Seq(ToSet(list)) /\ m > 0
    BY <1>4, <1>10 DEF IsHubGroup
  <2>2. PICK S : S = ToSet(list)
    OBVIOUS
  <2>3. list \in Seq(S) /\ longer = Append(list, dev)
    BY <1>2, <2>1, <2>2
  <2>4. /\ longer \in Seq(ToSet(longer)) /\ Len(longer) > 0 /\ m \in Nat
        /\ DOMAIN longer = 1..(m + 1) /\ DOMAIN list = 1..m
        /\ \A k \in 1..m : longer[k] = list[k]
        /\ longer[m + 1] = dev
    <3>1. Extends(Append(list, dev), list, dev, Len(list))
      BY <2>3, AppendedIs
    <3>2. Extends(longer, list, dev, m)
      BY <1>10, <2>3, <3>1
    <3> QED
      BY <3>2 DEF Extends
  <2> QED
    BY <2>1, <2>4
<1>12. longer[1] = list[1] /\ HubAt(longer) = at
  <2>1. 1 \in 1..m
    BY <1>11
  <2> QED
    BY <1>3, <1>11, <2>1 DEF HubAt
<1>13. \A k \in 1..(m + 1) : k \in 1..m \/ k = m + 1
  BY <1>11
<1>14. ASSUME Undisturbed(at), NEW k \in 1..m, k > 1
       PROVE  Front(list[k].place) = at /\ Last(list[k].place) \in Nat
              /\ Last(list[k].place) < n
  <2>1. Front(list[k].place) = at /\ IsRead(list[k]) /\ Last(list[k].place) < n
    BY <1>3, <1>4, <1>11, <1>14 DEF IsHubGroup
  <2> QED
    BY <2>1, PortOfPlace DEF IsRead
<1>15. ASSUME Undisturbed(at), NEW k \in 1..m
       PROVE  list[k].place # q
  <2>1. CASE k = 1
    <3>1. list[k].place = at
      BY <1>3, <2>1 DEF HubAt
    <3>2. Front(q) # q
      <4>1. Len(q) > 0
        <5>1. PICK y : y = Len(q) /\ y \in Nat
          BY <1>5
        <5> QED
          BY <1>5, <5>1
      <4> QED
        BY <1>5, <4>1, FrontIsPrefix
    <3> QED
      BY <1>5, <3>1, <3>2
  <2>2. CASE k # 1
    <3>1. k > 1
      BY <1>11, <2>2
    <3>2. PICK x : x = Last(list[k].place) /\ x \in Nat /\ x < n
      BY <1>14, <1>15, <3>1
    <3>3. x # n
      BY <1>4, <3>2
    <3> QED
      BY <1>5, <3>2, <3>3
  <2> QED
    BY <2>1, <2>2
<1>16. IsHubGroup(longer)
  <2>1. \A k \in DOMAIN longer : IsRead(longer[k]) /\ longer[k].node = "device"
    BY <1>4, <1>7, <1>8, <1>11, <1>13 DEF IsHubGroup
  <2>2. ASSUME NEW k \in DOMAIN longer, k > 1
        PROVE  /\ HasDriver(longer[k].place)
               /\ \/ Front(longer[k].place) = at
                  \/ longer[k].place \in disturbed /\ ~Undisturbed(at)
    <3>1. CASE k \in 1..m
      BY <1>3, <1>4, <1>11, <2>2, <3>1 DEF IsHubGroup
    <3>2. CASE k = m + 1
      BY <1>5, <1>6, <1>8, <1>9, <1>11, <3>2
    <3> QED
      BY <1>11, <1>13, <3>1, <3>2
  <2>3. ASSUME Undisturbed(at), NEW k \in DOMAIN longer, NEW l \in DOMAIN longer,
               longer[k].place = longer[l].place
        PROVE  k = l
    <3>1. CASE k \in 1..m /\ l \in 1..m
      BY <1>3, <1>4, <1>11, <2>3, <3>1 DEF IsHubGroup
    <3>2. CASE k \in 1..m /\ l = m + 1
      BY <1>8, <1>9, <1>11, <1>15, <2>3, <3>2
    <3>3. CASE k = m + 1 /\ l \in 1..m
      BY <1>8, <1>9, <1>11, <1>15, <2>3, <3>3
    <3>4. CASE k = m + 1 /\ l = m + 1
      BY <3>4
    <3> QED
      BY <1>11, <1>13, <3>1, <3>2, <3>3, <3>4
  <2>4. /\ longer[1].kind = "Hub" /\ is_freewili_hub(longer[1].prod) /\ OfFreeWiliHub(at)
    BY <1>3, <1>4, <1>12 DEF IsHubGroup
  <2> QED
    BY <1>11, <1>12, <2>1, <2>2, <2>3, <2>4 DEF IsHubGroup
<1>17. ASSUME Undisturbed(at), NEW p \in OnPorts(at), Last(p) < n + 1
       PROVE  Has(longer, p)
  <2>1. Last(p) \in Nat /\ p = Append(at, Last(p))
    BY <1>3, <1>17, OnPortIs
  <2>2. CASE Last(p) = n
    <3>1. p = q /\ m + 1 \in DOMAIN longer
      BY <1>5, <1>11, <2>1, <2>2
    <3> QED
      BY <1>8, <1>9, <1>11, <1>17, <3>1 DEF Has
  <2>3. CASE Last(p) # n
    <3>1. Last(p) < n
      BY <1>4, <1>17, <2>1, <2>3
    <3>2. Has(list, p)
      BY <1>3, <1>4, <1>17, <3>1 DEF HasBelow
    <3>3. PICK k \in 1..m : list[k].place = p
      BY <1>11, <3>2 DEF Has
    <3>4. k \in DOMAIN longer /\ longer[k] = list[k]
      BY <1>11
    <3> QED
      BY <3>3, <3>4 DEF Has
  <2> QED
    BY <2>2, <2>3
<1>18. HasBelow(longer, n + 1)
  BY <1>12, <1>17 DEF HasBelow
<1>19. ASSUME Undisturbed(at), NEW k \in DOMAIN longer, k > 1
       PROVE  Last(longer[k].place) < n + 1
  <2>1. CASE k \in 1..m
    <3>1. PICK x : x = Last(list[k].place) /\ x \in Nat /\ x < n
      BY <1>14, <1>19, <2>1
    <3>2. x < n + 1
      BY <1>4, <3>1
    <3> QED
      BY <1>11, <2>1, <3>1, <3>2
  <2>2. CASE k = m + 1
    <3>1. Last(longer[k].place) = n
      BY <1>5, <1>8, <1>9, <1>11, <1>19, <2>2
    <3> QED
      BY <1>4, <3>1
  <2> QED
    BY <1>11, <1>13, <2>1, <2>2
<1>20. group' = longer /\ port' = n + 1
  BY <1>2
<1> QED
  BY <1>1, <1>2, <1>3, <1>12, <1>16, <1>18, <1>19, <1>20, VisitGInv

LEMMA VisitPortGInv ==
  ASSUME WInv, GInv, VisitPort
  PROVE  GInv'
<1>1. pc = "ports" /\ failed' = failed
  BY DEF VisitPort
<1>2. PICK h \in hub :
        LET place == Append(h.path, port)
            found == h.live /\ place \in DOMAIN tree /\ tree[place].bound
            known == IF found THEN ByDriverKey(place, tree[place]) ELSE {}
        IN  \/ /\ \/ ~found /\ UNCHANGED group
                  \/ \E r \in known :
                       \E tty \in SerialPorts(r), letters \in DriveLetters(r) :
                         group' = Append(group, USBDevice(r, port, OwnSerial(r), tty, letters))
               /\ port' = port + 1
               /\ UNCHANGED <<tree, pc, devices, todo, hub, hubGroups, standalone, result, history>>
            \/ found /\ known = {} /\ Over(ScanError)
  BY DEF VisitPort
<1>3. PICK q : q = Append(h.path, port)
  OBVIOUS
<1>9. PICK found : found = (h.live /\ q \in DOMAIN tree /\ tree[q].bound)
  OBVIOUS
<1>4. PICK known : known = IF found THEN ByDriverKey(q, tree[q]) ELSE {}
  OBVIOUS
<1>5. \/ /\ \/ ~found /\ UNCHANGED group
            \/ \E r \in known :
                 \E tty \in SerialPorts(r), letters \in DriveLetters(r) :
                   group' = Append(group, USBDevice(r, port, OwnSerial(r), tty, letters))
         /\ port' = port + 1
         /\ UNCHANGED <<tree, pc, devices, todo, hub, hubGroups, standalone, result, history>>
      \/ Over(ScanError)
  BY <1>2, <1>3, <1>4, <1>9
<1>6. CASE Over(ScanError)
  BY <1>6, FailedGInv DEF GInv
<1>7. CASE /\ ~found /\ UNCHANGED group
           /\ port' = port + 1
           /\ UNCHANGED <<tree, pc, devices, todo, hub, hubGroups, standalone, result, history>>
  <2>1. h.live /\ Append(h.path, port) \in DOMAIN tree => ~tree[Append(h.path, port)].bound
    BY <1>3, <1>7, <1>9
  <2> QED
    BY <1>1, <1>7, <2>1, EmptyPortGInv DEF history
<1>8. CASE /\ \E r \in known :
                \E tty \in SerialPorts(r), letters \in DriveLetters(r) :
                  group' = Append(group, USBDevice(r, port, OwnSerial(r), tty, letters))
           /\ port' = port + 1
           /\ UNCHANGED <<tree, pc, devices, todo, hub, hubGroups, standalone, result, history>>
  <2>1. PICK r \in known :
          \E tty \in SerialPorts(r), letters \in DriveLetters(r) :
            group' = Append(group, USBDevice(r, port, OwnSerial(r), tty, letters))
    BY <1>8
  <2>2. PICK tty \in SerialPorts(r), letters \in DriveLetters(r) :
          group' = Append(group, USBDevice(r, port, OwnSerial(r), tty, letters))
    BY <2>1
  <2>3. PICK dev : dev = USBDevice(r, port, OwnSerial(r), tty, letters)
    OBVIOUS
  <2>4. q \in DOMAIN tree /\ tree[q].bound /\ r \in ByDriverKey(q, tree[q])
    BY <1>4, <1>9, <2>1
  <2>5. group' = Append(group, dev)
    BY <2>2, <2>3
  <2> QED
    BY <1>1, <1>3, <1>8, <2>3, <2>4, <2>5, FilledPortGInv DEF history
<1> QED
  BY <1>5, <1>6, <1>7, <1>8

\* The last port has been asked.
LEMMA EndHubGInv ==
  ASSUME WInv, GInv, EndHub
  PROVE  GInv'
<1>1. /\ pc = "ports" /\ port > NumberOfPorts /\ pc' = "hubs"
      /\ hubGroups' = hubGroups \cup {group} /\ hub' = {} /\ group' = <<>>
      /\ UNCHANGED <<tree, devices, todo, standalone, result, disturbed, failed>>
  <2>1. ~MorePorts /\ port \in Nat
    BY DEF EndHub, WInv, ScanInv
  <2>2. port > NumberOfPorts
    <3>1. PICK m, n : m = port /\ n = NumberOfPorts
      OBVIOUS
    <3>2. m \in Nat /\ n \in Nat /\ ~(m <= n)
      BY <2>1, <3>1, NumberOfPortsAssumption DEF MorePorts
    <3> QED
      BY <3>1, <3>2
  <2> QED
    BY <2>2 DEF EndHub, history
<1>2. VisitingHub /\ ListingHubs /\ ListingHubs' /\ ~VisitingHub'
  BY <1>1 DEF VisitingHub, ListingHubs
<1>3. PICK list, at : list = group /\ at = HubAt(list)
  OBVIOUS
<1>4. PICK h \in hub : h.path = at
  <2>1. PICK h : h \in hub
    BY <1>1 DEF WInv, RecordsInv
  <2> QED
    BY <1>2, <1>3, <2>1, VisitedHub
<1>5. /\ at \in Places /\ Len(at) > 1
      /\ Undisturbed(at) => at \in DOMAIN tree /\ is_freewili_hub(tree[at].prod)
  BY <1>2, <1>4, VisitedHub
<1>6. IsHubGroup(list) /\ HasBelow(list, port)
  BY <1>1, <1>2, <1>3 DEF GInv, VisitInv
<1>7. ASSUME Undisturbed(at), NEW p \in OnPorts(at)
      PROVE  Has(list, p)
  <2>1. p \in DOMAIN tree /\ Len(p) > 1 /\ Front(p) = at
    BY <1>5, OnPortIs
  <2>2. OnFreeWiliPort(p)
    BY <1>5, <1>7, <2>1 DEF OnFreeWiliPort
  <2>3. Last(p) \in 1..NumberOfPorts
    BY <2>1, <2>2 DEF GInv, PlacedInv
  <2>4. Last(p) < port
    <3>1. PICK m, n, k : m = port /\ n = NumberOfPorts /\ k = Last(p)
      OBVIOUS
    <3>2. m \in Nat /\ n \in Nat /\ m > n /\ k \in 1..n
      BY <1>1, <2>3, <3>1, NumberOfPortsAssumption DEF WInv, ScanInv
    <3>3. k < m
      BY <3>2
    <3> QED
      BY <3>1, <3>3
  <2> QED
    BY <1>3, <1>6, <1>7, <2>4 DEF HasBelow
<1>8. HasAll(list)
  BY <1>3, <1>7 DEF HasAll
<1>9. PICK groups : groups = hubGroups \cup {list}
  OBVIOUS
<1>10. GroupsInv(hubGroups) /\ \A l \in hubGroups : HubAt(l) # at
  BY <1>2, <1>3 DEF GInv, HubsInv
<1>11. GroupsInv(groups)
  <2>1. IsFiniteSet(groups)
    BY <1>9, <1>10, FS_AddElement DEF GroupsInv
  <2>2. \A l \in groups : IsHubGroup(l) /\ HasAll(l)
    BY <1>6, <1>8, <1>9, <1>10 DEF GroupsInv
  <2>3. \A l, m \in groups : HubAt(l) = HubAt(m) => l = m
    BY <1>3, <1>9, <1>10 DEF GroupsInv
  <2> QED
    BY <2>1, <2>2, <2>3 DEF GroupsInv
<1>12. GroupsInv(hubGroups)'
  <2>1. GroupsInv(groups)'
    BY <1>1, <1>11, NoneDisturbs, GroupsStay
  <2>2. hubGroups' = groups
    BY <1>1, <1>3, <1>9
  <2> QED
    BY <2>1, <2>2 DEF GroupsInv
<1>13. \A r \in todo' \cup hub' : IsOld(r)
  BY <1>1, RecordFacts
<1>14. /\ PlacedInv' /\ ListInv' /\ BadgesInv(standalone)' /\ NodesInv' /\ ResultInv'
       /\ BadgesCovered(standalone, NodesWaiting)'
  BY <1>1, <1>2, <1>13, PassGInv
<1>15. VisitInv'
  BY <1>2 DEF VisitInv
<1>16. HubsInv'
  <2>1. /\ \A r, s \in todo : r.path = s.path => r = s
        /\ \A r \in todo, l \in hubGroups : r.path # HubAt(l)
        /\ \A r \in todo : r.path # at
    BY <1>2, <1>3 DEF GInv, HubsInv, SamePathSame
  <2>2. \A r \in todo, l \in hubGroups' : r.path # HubAt(l)
    BY <1>1, <1>3, <2>1
  <2> QED
    BY <1>1, <1>2, <2>1, <2>2 DEF HubsInv, SamePathSame, HubAt
<1>17. HubsCovered(hubGroups, HubsWaiting)'
  <2>1. HubsWaiting = {r.path : r \in todo} \cup {at}
    BY <1>2, <1>3 DEF HubsWaiting
  <2>2. HubsWaiting' = {r.path : r \in todo}
    BY <1>1, <1>2 DEF HubsWaiting
  <2>3. list \in hubGroups'
    BY <1>1, <1>3
  <2>4. \A p : /\ Steady(p) /\ is_freewili_hub(tree[p].prod)
               /\ p \in HubsWaiting \/ \E l \in hubGroups : HubAt(l) = p
               => p \in HubsWaiting' \/ \E l \in hubGroups' : HubAt(l) = p
    BY <1>1, <1>3, <2>1, <2>2, <2>3
  <2> QED
    BY <1>1, <1>2, <2>4, HubsKept
<1>18. CoveredInv'
  BY <1>14, <1>17 DEF CoveredInv
<1> QED
  BY <1>12, <1>14, <1>15, <1>16, <1>18 DEF GInv

\* A result that is handed out stays as it is.
LEMMA ResultStays ==
  ASSUME UNCHANGED <<tree, disturbed, failed>>, NEW badges, NEW groups,
         BadgesInv(badges), GroupsInv(groups), BadgesCovered(badges, {}), HubsCovered(groups, {}),
         Returned' => result'.list \in SortedByUniqueID(badges \cup Made(groups))
  PROVE  ResultInv'
<1>1. BadgesInv(badges)' /\ GroupsInv(groups)'
  BY NoneDisturbs, BadgesStay, GroupsStay
<1>2. BadgesCovered(badges, {})' /\ HubsCovered(groups, {})'
  BY NoneDisturbs, BadgesStayCovered, HubsStayCovered
<1> QED
  BY <1>1, <1>2 DEF ResultInv

\* What a result is made of.
LEMMA ReturnGInv ==
  ASSUME WInv, GInv, Return
  PROVE  GInv'
<1>1. pc = "hubs" /\ todo = {} /\ failed' = failed
  BY DEF Return
<1>2. PICK badges, groups : badges = standalone /\ groups = hubGroups
  OBVIOUS
<1>3. PICK list \in SortedByUniqueID(badges \cup Made(groups)) : Over(Devices(list))
  BY <1>2 DEF Return
<1>4. /\ pc' = "idle" /\ result' = Devices(list) /\ devices' = {} /\ todo' = {} /\ hub' = {}
      /\ hubGroups' = {} /\ standalone' = {} /\ UNCHANGED <<tree, disturbed>>
  BY <1>3 DEF Over, history
<1>5. NodesWaiting = {} /\ HubsWaiting = {}
  BY <1>1 DEF NodesWaiting, HubsWaiting, VisitingHub
<1>6. BadgesInv(badges) /\ GroupsInv(groups)
  BY <1>2 DEF GInv
<1>7. BadgesCovered(badges, {}) /\ HubsCovered(groups, {})
  BY <1>1, <1>2, <1>5 DEF GInv, CoveredInv, ListingHubs
<1>8. result'.list \in SortedByUniqueID(badges \cup Made(groups))
  BY <1>3, <1>4 DEF Devices
<1>9. ResultInv'
  BY <1>1, <1>4, <1>6, <1>7, <1>8, ResultStays
<1>10. PlacedInv'
  BY <1>4, PlacedStays DEF GInv
<1>11. IsIdle'
  BY <1>4, <1>9, <1>10 DEF IsIdle
<1> QED
  BY <1>11, IdleGInv, PTL

LEMMA InitGInv ==
  ASSUME Init
  PROVE  GInv
<1>1. /\ tree = [p \in {<<c>> : c \in Controllers} |-> RootHub]
      /\ pc = "idle" /\ devices = {} /\ todo = {} /\ hub = {} /\ hubGroups = {}
      /\ standalone = {} /\ result = NoResult
  BY DEF Init
<1>2. \A p \in DOMAIN tree : Len(p) = 1 /\ tree[p] = RootHub
  BY <1>1
<1>3. \A p \in DOMAIN tree : InstanceId(p, tree[p]).place = p
  <2>1. RootHub.serial = ""
    BY DEF RootHub
  <2> QED
    BY <1>2, <2>1 DEF InstanceId
<1>7. \A p \in DOMAIN tree : ~(Len(p) > 1)
  <2>1. ~(1 > 1)
    OBVIOUS
  <2>2. \A p \in DOMAIN tree : Len(p) = 1
    BY <1>2
  <2> QED
    BY <2>1, <2>2, Zenon
<1>4. PlacedInv
  BY <1>2, <1>3, <1>7 DEF PlacedInv, IsPlaced, OnFreeWiliPort
<1>5. ~Returned
  BY <1>1, ResultTypes DEF Returned
<1>6. IsIdle
  BY <1>1, <1>4, <1>5 DEF IsIdle, ResultInv
<1> QED
  BY <1>6, IdleGInv

LEMMA StutterGInv ==
  ASSUME WInv, GInv, UNCHANGED vars
  PROVE  GInv'
<1>1. /\ UNCHANGED <<tree, pc, devices, todo, hub, hubGroups, standalone, result, disturbed,
                     failed>>
      /\ UNCHANGED scanVars
  BY DEF vars, scanVars
<1>2. PlacedInv'
  BY <1>1, PlacedStays DEF GInv
<1>3. CASE pc # "idle"
  <2>1. Disturbs({})
    BY <1>1, NoneDisturbs
  <2>2. Aged(devices, devices', {}) /\ Aged(todo, todo', {}) /\ Aged(hub, hub', {})
    BY <1>1, NoneAged
  <2> QED
    BY <1>1, <1>2, <1>3, <2>1, <2>2, DisturbGInv
<1>4. CASE pc = "idle"
  <2>1. devices' = {} /\ todo' = {} /\ hub' = {} /\ pc' = "idle"
    BY <1>1, <1>4, IdleIsEmpty
  <2>2. ResultInv'
    <3>1. CASE Returned
      <4>1. PICK badges, groups :
              /\ BadgesInv(badges) /\ GroupsInv(groups)
              /\ BadgesCovered(badges, {}) /\ HubsCovered(groups, {})
              /\ result.list \in SortedByUniqueID(badges \cup Made(groups))
        BY <3>1 DEF GInv, ResultInv
      <4> QED
        BY <1>1, <4>1, ResultStays
    <3>2. CASE ~Returned
      BY <1>1, <3>2 DEF Returned, ResultInv
    <3> QED
      BY <3>1, <3>2
  <2>3. ListInv'
    BY <2>1 DEF ListInv, HasList, InFreeWiliPass, SamePathSame, SameIDSamePath
  <2>4. VisitInv' /\ NodesInv' /\ CoveredInv'
    BY <2>1 DEF VisitInv, NodesInv, CoveredInv, VisitingHub, ListingHubs
  <2>5. HubsInv'
    BY <1>1, <1>4 DEF GInv, HubsInv, VisitingHub, ListingHubs
  <2>6. GroupsInv(hubGroups)' /\ BadgesInv(standalone)'
    BY <1>1, Keeps
  <2> QED
    BY <1>2, <2>2, <2>3, <2>4, <2>5, <2>6 DEF GInv
<1> QED
  BY <1>3, <1>4

LEMMA GStep == WInv /\ WInv' /\ GInv /\ [Next]_vars => GInv'
<1> SUFFICES ASSUME WInv, WInv', GInv, [Next]_vars
             PROVE  GInv'
  OBVIOUS
<1>1. CASE \E slot \in Slots : Plug(slot)
  BY <1>1, PlugGInv
<1>2. CASE \E path \in DOMAIN tree : Unplug(path)
  BY <1>2, UnplugGInv
<1>3. CASE FindStandalone
  BY <1>3, FindStandaloneGInv
<1>4. CASE ReadStandalone
  BY <1>4, ReadStandaloneGInv
<1>5. CASE VisitStandalone
  BY <1>5, VisitStandaloneGInv
<1>6. CASE FindFreeWilis
  BY <1>6, FindFreeWilisGInv
<1>7. CASE ReadDevices
  BY <1>7, ReadDevicesGInv
<1>8. CASE IdentifyHub
  BY <1>8, IdentifyHubGInv
<1>9. CASE OpenHub
  BY <1>9, OpenHubGInv
<1>10. CASE VisitPort
  BY <1>10, VisitPortGInv
<1>11. CASE EndHub
  BY <1>11, EndHubGInv
<1>12. CASE Return
  BY <1>12, ReturnGInv
<1>13. CASE UNCHANGED vars
  BY <1>13, StutterGInv
<1>14. CASE \E path \in DOMAIN tree : Bind(path)
  BY <1>14, BindGInv
<1> QED
  BY <1>1, <1>2, <1>3, <1>4, <1>5, <1>6, <1>7, <1>8, <1>9, <1>10, <1>11, <1>12, <1>13, <1>14
     DEF Next

LEMMA GInvariance == Spec => []GInv
BY InitGInv, GStep, Invariance, PTL DEF Spec

-----------------------------------------------------------------------------
(* A device that stays put hangs on hubs that do. *)

DisturbedInv ==
  \A p \in DOMAIN tree : (p \notin disturbed /\ Len(p) > 1) => Front(p) \notin disturbed

LEMMA DisturbedStays ==
  ASSUME UNCHANGED tree, disturbed' = disturbed \/ disturbed' = {}, DisturbedInv
  PROVE  DisturbedInv'
BY DEF DisturbedInv

LEMMA PlugDisturbs ==
  ASSUME WInv, DisturbedInv, NEW slot \in Slots, Plug(slot)
  PROVE  DisturbedInv'
<1>1. /\ DOMAIN tree' = DOMAIN tree \cup {slot.path} /\ slot.path \notin DOMAIN tree
      /\ disturbed' = {} \/ disturbed' = disturbed \cup {slot.path}
  BY DEF Plug, Changed
<1>2. CASE disturbed' = {}
  BY <1>2 DEF DisturbedInv
<1>3. CASE disturbed' = disturbed \cup {slot.path}
  <2> SUFFICES ASSUME NEW p \in DOMAIN tree', p \notin disturbed', Len(p) > 1
               PROVE  Front(p) \notin disturbed'
    BY DEF DisturbedInv
  <2>1. p \in DOMAIN tree /\ p \notin disturbed
    BY <1>1, <1>3
  <2>2. Front(p) \notin disturbed
    BY <2>1 DEF DisturbedInv
  <2>3. Len(p) = 1 \/ Front(p) \in DOMAIN tree
    BY <2>1 DEF WInv, TreeInv
  <2>4. Len(p) # 1
    <3>1. PICK n : n = Len(p) /\ n > 1 /\ n \in Nat
      BY <2>1, PlaceIs DEF WInv, TreeInv
    <3> QED
      BY <3>1
  <2> QED
    BY <1>1, <1>3, <2>2, <2>3, <2>4
<1> QED
  BY <1>1, <1>2, <1>3

LEMMA UnplugDisturbs ==
  ASSUME WInv, DisturbedInv, NEW path \in DOMAIN tree, Unplug(path)
  PROVE  DisturbedInv'
<1>1. PICK gone : gone = Subtree(path)
  OBVIOUS
<1>2. /\ DOMAIN tree' = DOMAIN tree \ gone
      /\ disturbed' = {} \/ disturbed' = disturbed \cup gone
  BY <1>1 DEF Unplug, Changed, Restrict
<1>3. CASE disturbed' = {}
  BY <1>3 DEF DisturbedInv
<1>4. CASE disturbed' = disturbed \cup gone
  <2> SUFFICES ASSUME NEW p \in DOMAIN tree', p \notin disturbed', Len(p) > 1,
                      Front(p) \in disturbed'
               PROVE  FALSE
    BY DEF DisturbedInv
  <2>1. p \in DOMAIN tree /\ p \notin disturbed /\ p \notin gone
    BY <1>2, <1>4
  <2>2. Front(p) \notin disturbed
    BY <2>1 DEF DisturbedInv
  <2>3. Front(p) \in gone
    BY <1>4, <2>2
  <2>4. IsPrefix(path, Front(p))
    BY <1>1, <2>3 DEF Subtree
  <2>5. path \in Places /\ p \in Places
    BY <2>1 DEF WInv, TreeInv
  <2>6. path \in Seq(PathElement) /\ p \in Seq(PathElement) /\ Len(p) \in Nat \ {0}
    <3>1. PICK n : n = Len(p) /\ n > 0 /\ n \in Nat
      BY <2>5, PlaceIs
    <3> QED
      BY <2>5, <3>1, PlaceIs
  <2>7. IsPrefix(path, p)
    BY <2>4, <2>6, PrefixOfFront
  <2> QED
    BY <1>1, <2>1, <2>7 DEF Subtree
<1> QED
  BY <1>2, <1>3, <1>4

\* What has no driver yet is no hub, hence has nothing on it.
LEMMA BindDisturbs ==
  ASSUME WInv, GInv, DisturbedInv, NEW path \in DOMAIN tree, Bind(path)
  PROVE  DisturbedInv'
<1>1. DOMAIN tree' = DOMAIN tree /\ ~tree[path].bound
  BY BindTree DEF WInv
<1>2. disturbed' = {} \/ disturbed' = disturbed \cup {path}
  BY DEF Bind, Changed
<1>3. CASE disturbed' = {}
  BY <1>3 DEF DisturbedInv
<1>4. CASE disturbed' = disturbed \cup {path}
  <2> SUFFICES ASSUME NEW p \in DOMAIN tree', p \notin disturbed', Len(p) > 1
               PROVE  Front(p) # path /\ Front(p) \notin disturbed
    BY <1>4 DEF DisturbedInv
  <2>1. p \in DOMAIN tree /\ p \notin disturbed
    BY <1>1, <1>4
  <2>2. IsHub(tree[Front(p)].prod)
    BY <2>1 DEF GInv, PlacedInv
  <2>3. tree[path] \in Attachable
    BY DEF WInv, TreeInv
  <2>4. ~IsHub(tree[path].prod)
    BY <1>1, <2>3, AttachableIs
  <2> QED
    BY <2>1, <2>2, <2>4 DEF DisturbedInv
<1> QED
  BY <1>2, <1>3, <1>4

LEMMA DisturbedInvariance == Spec => []DisturbedInv
<1>1. Init => DisturbedInv
  BY DEF Init, DisturbedInv
<1>2. WInv /\ GInv /\ DisturbedInv /\ [Next]_vars => DisturbedInv'
  <2> SUFFICES ASSUME WInv, GInv, DisturbedInv, [Next]_vars PROVE DisturbedInv'
    OBVIOUS
  <2>1. ASSUME UNCHANGED tree, disturbed' = disturbed \/ disturbed' = {}
        PROVE  DisturbedInv'
    BY <2>1, DisturbedStays
  <2>2. CASE \E slot \in Slots : Plug(slot)
    BY <2>2, PlugDisturbs
  <2>3. CASE \E path \in DOMAIN tree : Unplug(path)
    BY <2>3, UnplugDisturbs
  <2>4. CASE FindStandalone \/ ReadStandalone \/ VisitStandalone
    BY <2>1, <2>4 DEF FindStandalone, ReadStandalone, VisitStandalone, history
  <2>5. CASE FindFreeWilis \/ ReadDevices
    BY <2>1, <2>5 DEF FindFreeWilis, ReadDevices, Over, history
  <2>6. CASE IdentifyHub \/ OpenHub
    BY <2>1, <2>6 DEF IdentifyHub, OpenHub, Over, history
  <2>7. CASE VisitPort
    BY <2>1, <2>7 DEF VisitPort, Over, history
  <2>8. CASE EndHub \/ Return
    BY <2>1, <2>8 DEF EndHub, Return, Over, history
  <2>9. CASE UNCHANGED vars
    BY <2>1, <2>9 DEF vars
  <2>10. CASE \E path \in DOMAIN tree : Bind(path)
    BY <2>10, BindDisturbs
  <2> QED
    BY <2>2, <2>3, <2>4, <2>5, <2>6, <2>7, <2>8, <2>9, <2>10 DEF Next
<1> QED
  BY <1>1, <1>2, Invariance, GInvariance, PTL DEF Spec

-----------------------------------------------------------------------------
(* What a result lists. *)

LEMMA SortedIsListing ==
  ASSUME NEW found, IsFiniteSet(found), NEW list \in SortedByUniqueID(found)
  PROVE  IsListing(list, found)
<1>1. PICK n \in Nat : n = Cardinality(found)
  BY FS_CardinalityType
<1>2. list \in [1..n -> found] /\ \A i, j \in 1..n : list[i] = list[j] => i = j
  BY <1>1 DEF SortedByUniqueID, SetToSeqs
<1>3. IsFiniteSet(1..n) /\ Cardinality(1..n) = n
  <2>1. 1 \in Int /\ n \in Int /\ (1 > n => n = 0) /\ n - 1 + 1 = n
    BY <1>1
  <2> QED
    BY <2>1, FS_Interval
<1>4. list \in Surjection(1..n, found)
  <2>1. list \in Injection(1..n, found)
    BY <1>2 DEF Injection, IsInjective
  <2> QED
    BY <1>1, <1>3, <2>1, FS_Injection
<1>5. \A x \in found : \E i \in 1..n : list[i] = x
  BY <1>4 DEF Surjection
<1>6. list \in Seq(found) /\ DOMAIN list = 1..n
  BY <1>2
<1> QED
  BY <1>2, <1>5, <1>6 DEF IsListing

LEMMA MadeIsFinite ==
  ASSUME NEW lists, IsFiniteSet(lists)
  PROVE  IsFiniteSet(Made(lists))
<1>1. PICK f : f = [list \in lists |-> fromUSBDevices(list)]
  OBVIOUS
<1>2. IsFiniteSet({f[list] : list \in lists})
  BY FiniteValues
<1>3. Made(lists) \subseteq {f[list] : list \in lists}
  BY <1>1 DEF Made
<1> QED
  BY <1>2, <1>3, FS_Subset

\* Every group of a hub can be made into a device.
LEMMA GroupIsMade ==
  ASSUME NEW list, IsHubGroup(list)
  PROVE  LET d == fromUSBDevices(list)
         IN  /\ d # BuildError /\ IsMadeOf(d, list)
             /\ ToSet(d.usbDevices) = ToSet(list) /\ Len(d.usbDevices) = Len(list)
             /\ d.usbDevices \in Seq(ToSet(list))
<1>1. /\ list \in Seq(ToSet(list)) /\ Len(list) > 0 /\ list[1].kind = "Hub"
      /\ \A k \in DOMAIN list : list[k].name = "name" /\ list[k].serial # ""
  BY DEF IsHubGroup, IsRead
<1>2. fromUSBDevices(list) # BuildError
  <2>1. CASE /\ \A k \in DOMAIN list : ~isStandAloneDevice(list[k].prod)
             /\ fromUSBDevices(list) = FromHub(list)
    <3>1. FirstOfKind(list, "Hub") = 1 /\ 1 \in DOMAIN list
      <4>1. FirstOfKind(list, "Hub") = 1
        BY <1>1, FirstOfKindFirst
      <4>2. list \in Seq(ToSet(list)) /\ Len(list) > 0
        BY <1>1
      <4>3. PICK n : n = Len(list)
        OBVIOUS
      <4>4. DOMAIN list = 1..n /\ n \in Nat /\ n > 0
        BY <4>2, <4>3
      <4>5. 1 \in DOMAIN list
        BY <4>4
      <4> QED
        BY <4>1, <4>5
    <3>2. FirstOfKind(list, "FTDI") # 0 => FirstOfKind(list, "FTDI") \in DOMAIN list
      BY <1>1, FirstOfKindIs
    <3>3. HubSerial(list) # ""
      BY <1>1, <3>1, <3>2 DEF HubSerial
    <3>4. HubType(list) # "" /\ HubType(list) # "Unknown"
      BY DEF HubType
    <3>5. PICK d : d = HubRecordOf(list)
      OBVIOUS
    <3>6. d # BuildError /\ Build(d) = d
      BY <3>3, <3>4, <3>5, DeviceIsNoError DEF HubRecordOf
    <3> QED
      BY <2>1, <3>5, <3>6, HubRecord
  <2>2. ASSUME NEW k \in DOMAIN list, isStandAloneDevice(list[k].prod),
               fromUSBDevices(list) = FromStandalone(list, k)
        PROVE  fromUSBDevices(list) # BuildError
    <3>1. PICK type : type = standaloneDeviceType(list[k].prod) /\ type # "Unknown"
      BY <2>2, TypeOfStandalone
    <3>2. PICK d : d = DeviceRecord(type, list[k].name, list[k].serial,
                                    UniqueID(list[k].portChain), TRUE, list)
      OBVIOUS
    <3>3. list[k].name # "" /\ list[k].serial # ""
      BY <1>1
    <3>4. d # BuildError /\ Build(d) = d
      BY <3>1, <3>2, <3>3, DeviceIsNoError
    <3> QED
      BY <2>2, <3>1, <3>2, <3>4, StandaloneRecord
  <2> QED
    BY <1>1, <2>1, <2>2, FirstStandaloneIs
<1>3. PICK d : d = fromUSBDevices(list)
  OBVIOUS
<1>4. IsMadeOf(d, list)
  BY <1>1, <1>2, <1>3, MadeOf
<1>5. d.usbDevices = list \/ d.usbDevices = SortUSBDevices(list)
  BY <1>4 DEF IsMadeOf
<1>6. PICK sorted, S : sorted = SortUSBDevices(list) /\ S = ToSet(list)
  OBVIOUS
<1>7. IsReordering(sorted, list, Len(list)) /\ sorted \in Seq(S) /\ list \in Seq(S)
  BY <1>1, <1>6, DeviceSortReorders
<1>8. ToSet(sorted) = ToSet(list) /\ Len(sorted) = Len(list)
  BY <1>7, SameElements
<1>9. d.usbDevices \in Seq(S)
  BY <1>5, <1>6, <1>7
<1> QED
  BY <1>2, <1>3, <1>4, <1>5, <1>6, <1>8, <1>9

\* The devices handed out: badges, and what was made of the hubs' groups.
AreReports(list, badges, groups) ==
  /\ BadgesInv(badges) /\ GroupsInv(groups)
  /\ BadgesCovered(badges, {}) /\ HubsCovered(groups, {})
  /\ \A i, j \in DOMAIN list : list[i] = list[j] => i = j
  /\ \A i \in DOMAIN list :
       list[i] \in badges \/ \E g \in groups : list[i] = fromUSBDevices(g)
  /\ \A device \in badges : \E i \in DOMAIN list : list[i] = device
  /\ \A g \in groups : \E i \in DOMAIN list : list[i] = fromUSBDevices(g)

LEMMA ReportsAre ==
  ASSUME GInv, Returned
  PROVE  \E badges, groups : AreReports(result.list, badges, groups)
<1>1. PICK badges, groups :
        /\ BadgesInv(badges) /\ GroupsInv(groups)
        /\ BadgesCovered(badges, {}) /\ HubsCovered(groups, {})
        /\ result.list \in SortedByUniqueID(badges \cup Made(groups))
  BY DEF GInv, ResultInv
<1>2. PICK found, list : found = badges \cup Made(groups) /\ list = result.list
  OBVIOUS
<1>3. IsFiniteSet(found)
  <2>1. IsFiniteSet(badges) /\ IsFiniteSet(groups)
    BY <1>1 DEF BadgesInv, GroupsInv
  <2> QED
    BY <1>2, <2>1, MadeIsFinite, FS_Union
<1>4. IsListing(list, found)
  BY <1>1, <1>2, <1>3, SortedIsListing
<1>5. /\ \A i, j \in DOMAIN list : list[i] = list[j] => i = j
      /\ \A x \in found : \E i \in DOMAIN list : list[i] = x
      /\ \A i \in DOMAIN list : list[i] \in found
  BY <1>4 DEF IsListing
<1>6. \A i \in DOMAIN list :
        list[i] \in badges \/ \E g \in groups : list[i] = fromUSBDevices(g)
  BY <1>2, <1>5 DEF Made
<1>7. \A device \in badges : \E i \in DOMAIN list : list[i] = device
  BY <1>2, <1>5
<1>8. ASSUME NEW g \in groups
      PROVE  \E i \in DOMAIN list : list[i] = fromUSBDevices(g)
  <2>1. fromUSBDevices(g) # BuildError
    BY <1>1, GroupIsMade DEF GroupsInv
  <2>2. fromUSBDevices(g) \in found
    BY <1>2, <2>1 DEF Made
  <2> QED
    BY <1>5, <2>2
<1>9. AreReports(list, badges, groups)
  BY <1>1, <1>5, <1>6, <1>7, <1>8 DEF AreReports
<1> QED
  BY <1>2, <1>9

\* A badge's device is of the badge alone.
LEMMA BadgeReport ==
  ASSUME NEW badges, BadgesInv(badges), NEW device \in badges
  PROVE  /\ device.standalone
         /\ \E dev : /\ isStandAloneDevice(dev.prod) /\ device.usbDevices = <<dev>>
                     /\ BadgeAt(device) = dev.place /\ BadgeNode(device) = dev.node
                     /\ device.uniqueID = UniqueID(dev.portChain)
                     /\ IsRead(dev) /\ IsReported(dev)
                     /\ ToSet(device.usbDevices) = {dev} /\ Len(device.usbDevices) = 1
<1>1. PICK dev : /\ isStandAloneDevice(dev.prod) /\ device = fromUSBDevices(<<dev>>)
                 /\ device # BuildError /\ device.usbDevices = <<dev>>
                 /\ IsRead(dev) /\ IsReported(dev)
  BY DEF BadgesInv, IsBadge
<1>2. PICK list : list = <<dev>>
  OBVIOUS
<1>3. list \in Seq(ToSet(list)) /\ Len(list) = 1 /\ DOMAIN list = {1} /\ list[1] = dev
  BY <1>2, AloneIsSeq
<1>4. IsMadeOf(device, list)
  BY <1>1, <1>2, <1>3, MadeOf
<1>5. device.standalone /\ device.uniqueID = UniqueID(dev.portChain)
  BY <1>1, <1>3, <1>4 DEF IsMadeOf
<1>6. ToSet(list) = {dev}
  BY <1>3 DEF ToSet
<1>7. BadgeAt(device) = dev.place /\ BadgeNode(device) = dev.node
  BY <1>1, <1>2, <1>3 DEF BadgeAt, BadgeNode
<1> QED
  BY <1>1, <1>2, <1>3, <1>5, <1>6, <1>7

-----------------------------------------------------------------------------
(* A FreeWili is reported whole. *)

\* The group of a FreeWili that stayed put is its hub and what is on its ports.
IsWholeGroup(list, path) ==
  /\ DOMAIN list = 1..Len(list) /\ Len(list) \in Nat /\ 1 \in DOMAIN list
  /\ list[1].place = path
  /\ \A k \in DOMAIN list : /\ list[k].place \in {path} \cup OnPorts(path)
                            /\ Fits(list[k], list[k].place)
  /\ \A k, l \in DOMAIN list : list[k].place = list[l].place => k = l
  /\ \A p \in {path} \cup OnPorts(path) : Has(list, p)

LEMMA WholeGroup ==
  ASSUME NEW list, IsHubGroup(list), HasAll(list), NEW path, path = HubAt(list),
         Undisturbed(path)
  PROVE  IsWholeGroup(list, path) /\ path \notin disturbed
<1>1. /\ list \in Seq(ToSet(list)) /\ Len(list) > 0
      /\ \A k \in DOMAIN list : IsRead(list[k]) /\ list[k].node = "device"
      /\ \A k \in DOMAIN list : k > 1 =>
           Front(list[k].place) = path /\ HasDriver(list[k].place)
      /\ \A k, l \in DOMAIN list : list[k].place = list[l].place => k = l
  BY DEF IsHubGroup
<1>2. DOMAIN list = 1..Len(list) /\ Len(list) \in Nat /\ 1 \in DOMAIN list
  BY <1>1
<1>3. list[1].place = path
  BY DEF HubAt
<1>4. path \in Places /\ path \in Seq(PathElement)
  BY <1>1, <1>2, <1>3, PlaceIs DEF IsRead
<1>5. path \notin disturbed
  BY <1>4, PrefixReflexive DEF Undisturbed
<1>6. ASSUME NEW k \in DOMAIN list
      PROVE  /\ list[k].place \in {path} \cup OnPorts(path)
             /\ Fits(list[k], list[k].place)
  <2>1. PICK p : p = list[k].place
    OBVIOUS
  <2>2. p \in Places /\ Len(p) > 1 /\ (p \in disturbed \/ (p \in DOMAIN tree /\ Fits(list[k], p)))
    BY <1>1, <2>1 DEF IsRead, IsOwnNode
  <2>3. CASE k = 1
    BY <1>3, <1>5, <2>1, <2>2, <2>3
  <2>4. CASE k # 1
    <3>1. k > 1
      BY <1>2, <2>4
    <3>2. Front(p) = path /\ HasDriver(p)
      BY <1>1, <2>1, <3>1
    <3>3. Len(path) = Len(p) - 1 /\ IsPrefix(path, p)
      BY <2>2, <3>2, PortOfPlace
    <3>4. p \notin disturbed
      BY <3>3 DEF Undisturbed
    <3>5. Len(p) = Len(path) + 1
      <4>1. PICK m, n : m = Len(p) /\ n = Len(path)
        OBVIOUS
      <4>2. m \in Nat /\ n = m - 1
        BY <2>2, <3>3, <4>1, PlaceIs
      <4> QED
        BY <4>1, <4>2
    <3>6. p \in OnPorts(path)
      BY <2>2, <3>2, <3>3, <3>4, <3>5 DEF OnPorts, Subtree, HasDriver
    <3> QED
      BY <2>1, <2>2, <3>4, <3>6
  <2> QED
    BY <2>3, <2>4
<1>7. ASSUME NEW p \in {path} \cup OnPorts(path) PROVE Has(list, p)
  BY <1>2, <1>3 DEF HasAll, Has
<1> QED
  BY <1>1, <1>2, <1>3, <1>5, <1>6, <1>7 DEF IsWholeGroup

LEMMA WholeSize ==
  ASSUME NEW list, NEW path, IsWholeGroup(list, path)
  PROVE  Len(list) = Cardinality({path} \cup OnPorts(path))
<1>1. PICK n, S : n = Len(list) /\ S = {path} \cup OnPorts(path)
  OBVIOUS
<1>2. n \in Nat /\ DOMAIN list = 1..n
  BY <1>1 DEF IsWholeGroup
<1>3. PICK f : f = [k \in 1..n |-> list[k].place]
  OBVIOUS
<1>4. /\ f \in [1..n -> S]
      /\ \A k, l \in 1..n : f[k] = f[l] => k = l
      /\ \A p \in S : \E k \in 1..n : f[k] = p
  BY <1>1, <1>2, <1>3 DEF IsWholeGroup, Has
<1>5. f \in Bijection(1..n, S)
  BY <1>4, Fun_IsBij
<1>6. ExistsBijection(1..n, S)
  BY <1>5 DEF ExistsBijection
<1>7. IsFiniteSet(1..n) /\ Cardinality(1..n) = n
  <2>1. 1 \in Int /\ n \in Int /\ (1 > n => n = 0) /\ n - 1 + 1 = n
    BY <1>2
  <2> QED
    BY <2>1, FS_Interval
<1>8. Cardinality(S) = n
  BY <1>6, <1>7, FS_Bijection
<1> QED
  BY <1>1, <1>8

\* The hub of a plain FreeWili is in no group but its own.
LEMMA HubInItsGroup ==
  ASSUME WInv, DisturbedInv, NEW path \in DOMAIN tree, path \notin disturbed, PlainFreeWili(path),
         NEW other, IsHubGroup(other), NEW dev \in ToSet(other), dev.place = path
  PROVE  HubAt(other) = path
<1>1. PICK k \in DOMAIN other : dev = other[k]
  BY DEF ToSet
<1>2. /\ other \in Seq(ToSet(other)) /\ Len(other) > 0 /\ is_freewili_hub(other[1].prod)
      /\ \A l \in DOMAIN other : IsRead(other[l])
  BY DEF IsHubGroup
<1>3. CASE k = 1
  BY <1>1, <1>3 DEF HubAt
<1>4. CASE k # 1
  <2>1. k > 1 /\ 1 \in DOMAIN other
    BY <1>2, <1>4
  <2>2. PICK front : front = HubAt(other)
    OBVIOUS
  <2>3. Front(path) = front
    BY <1>1, <2>1, <2>2 DEF IsHubGroup
  <2>4. Len(path) > 1
    BY <1>1, <1>2 DEF IsRead
  <2>5. front \notin disturbed
    BY <2>3, <2>4 DEF DisturbedInv
  <2>6. other[1].prod = tree[front].prod
    BY <1>2, <2>1, <2>2, <2>5 DEF IsRead, HubAt
  <2>7. is_freewili_hub(tree[front].prod)
    BY <1>2, <2>6
  <2> QED
    BY <2>3, <2>7 DEF PlainFreeWili
<1> QED
  BY <1>3, <1>4

LEMMA WholeFollows == WInv /\ GInv /\ DisturbedInv => FreeWiliReportedWhole
<1> SUFFICES ASSUME WInv, GInv, DisturbedInv, Returned,
                    NEW path \in DOMAIN tree, Undisturbed(path), PlainFreeWili(path),
                    NEW list, list = result.list, NEW reports,
                    reports = {i \in DOMAIN list :
                                 \E dev \in ToSet(list[i].usbDevices) : Fits(dev, path)}
             PROVE  /\ Cardinality(reports) = 1
                    /\ \A i \in reports : /\ ~list[i].standalone
                                          /\ Reports(list[i], {path} \cup OnPorts(path))
  BY DEF FreeWiliReportedWhole
<1>1. PICK badges, groups : AreReports(list, badges, groups)
  BY ReportsAre
<1>2. BadgesInv(badges) /\ GroupsInv(groups) /\ HubsCovered(groups, {})
  BY <1>1 DEF AreReports
<1>3. path \in Places /\ path \in Seq(PathElement) /\ is_freewili_hub(tree[path].prod)
  BY PlaceIs DEF WInv, TreeInv, PlainFreeWili
<1>4. path \notin disturbed
  BY <1>3, PrefixReflexive DEF Undisturbed
<1>5. PICK whole \in groups : HubAt(whole) = path
  BY <1>2, <1>3, <1>4 DEF HubsCovered, Steady
<1>6. IsHubGroup(whole) /\ HasAll(whole)
  BY <1>2 DEF GroupsInv
<1>7. IsWholeGroup(whole, path)
  BY <1>5, <1>6, WholeGroup
<1>8. PICK d : d = fromUSBDevices(whole)
  OBVIOUS
<1>9. /\ IsMadeOf(d, whole)
      /\ ToSet(d.usbDevices) = ToSet(whole) /\ Len(d.usbDevices) = Len(whole)
  BY <1>6, <1>8, GroupIsMade
<1>10. \A k \in DOMAIN whole : whole[k] \in ToSet(whole)
  BY DEF ToSet
<1>11. ~d.standalone
  <2>1. ASSUME NEW k \in DOMAIN whole PROVE ~isStandAloneDevice(whole[k].prod)
    <3>1. PICK p \in {path} \cup OnPorts(path) : whole[k].prod = tree[p].prod
      BY <1>7 DEF IsWholeGroup, Fits
    <3>2. p = path => ~isStandAloneDevice(tree[p].prod)
      BY <1>3 DEF is_freewili_hub, isStandAloneDevice, HubProduct, StandaloneProduct
    <3> QED
      BY <3>1, <3>2 DEF PlainFreeWili
  <2> QED
    BY <1>9, <2>1 DEF IsMadeOf
<1>12. Reports(d, {path} \cup OnPorts(path))
  <2>1. Len(d.usbDevices) = Cardinality({path} \cup OnPorts(path))
    BY <1>7, <1>9, WholeSize
  <2>2. ASSUME NEW p \in {path} \cup OnPorts(path)
        PROVE  \E dev \in ToSet(d.usbDevices) : Fits(dev, p)
    <3>1. PICK k \in DOMAIN whole : whole[k].place = p
      BY <1>7 DEF IsWholeGroup, Has
    <3>2. Fits(whole[k], p)
      BY <1>7, <3>1 DEF IsWholeGroup
    <3> QED
      BY <1>9, <1>10, <3>2
  <2> QED
    BY <2>1, <2>2 DEF Reports
<1>13. PICK i \in DOMAIN list : list[i] = d
  BY <1>1, <1>8 DEF AreReports
<1>14. i \in reports
  BY <1>12, <1>13 DEF Reports
<1>15. ASSUME NEW j \in reports PROVE j = i
  <2>1. PICK dev \in ToSet(list[j].usbDevices) : Fits(dev, path)
    OBVIOUS
  <2>2. dev.place = path /\ is_freewili_hub(dev.prod)
    BY <1>3, <2>1 DEF Fits
  <2>3. list[j] \notin badges
    <3> SUFFICES ASSUME list[j] \in badges PROVE FALSE
      OBVIOUS
    <3>1. PICK e : e = list[j]
      OBVIOUS
    <3>2. BadgesInv(badges) /\ e \in badges
      BY <1>2, <3>1
    <3>3. PICK badge : isStandAloneDevice(badge.prod) /\ ToSet(e.usbDevices) = {badge}
      BY <3>2, BadgeReport
    <3>4. isStandAloneDevice(dev.prod)
      BY <3>1, <3>3
    <3> QED
      BY <2>2, <3>4 DEF is_freewili_hub, isStandAloneDevice, HubProduct, StandaloneProduct
  <2>4. PICK other \in groups : list[j] = fromUSBDevices(other)
    BY <1>1, <2>3 DEF AreReports
  <2>5. IsHubGroup(other)
    BY <1>2 DEF GroupsInv
  <2>6. dev \in ToSet(other)
    BY <2>1, <2>4, <2>5, GroupIsMade
  <2>7. HubAt(other) = path
    BY <1>4, <2>2, <2>5, <2>6, HubInItsGroup
  <2>8. other = whole
    BY <1>2, <1>5, <2>7 DEF GroupsInv
  <2> QED
    BY <1>1, <1>8, <1>13, <2>4, <2>8 DEF AreReports
<1>16. reports = {i}
  BY <1>14, <1>15
<1>17. Cardinality(reports) = 1
  BY <1>16, FS_Singleton
<1> QED
  BY <1>11, <1>12, <1>13, <1>16, <1>17

(* Whatever is plugged and unplugged while a scan asks the hubs, port by     *)
(* port, what they hold: a FreeWili that stays put, on no other FreeWili's   *)
(* hub and with no badge on its own, is in exactly one report, with its hub, *)
(* each device on its ports once and nothing else, and each tells the port   *)
(* and the drive letters that are its own (fwfinder_windows.cpp:1141-1209).  *)
THEOREM FreeWilisWhole == Spec => []FreeWiliReportedWhole
BY Invariance, GInvariance, DisturbedInvariance, WholeFollows, PTL

-----------------------------------------------------------------------------
(* A badge has its own entry, or two. *)

\* The bootloader's disk is the first of its interfaces.
DiskFirst ==
  \A slot \in Slots :
    slot.prod = "Rp2350Uf2" /\ Len(slot.parts) > 1 => Head(slot.parts) = "disk"

\* The node by which a badge is always reported.
OwnNode(parts, prod) ==
  IF prod = "Rp2350Uf2" /\ Len(parts) > 1 /\ EnglishDescriptions THEN "interface" ELSE "device"

LEMMA NodesOfABadge ==
  ASSUME DiskFirst, WInv, GInv, NEW path \in DOMAIN tree, isStandAloneDevice(tree[path].prod)
  PROVE  LET dev == tree[path]
             own == OwnNode(dev.parts, dev.prod)
         IN  /\ own \in ReportedNodes(dev) /\ IsOwnNode(own, dev.parts)
             /\ ReportedNodes(dev) =
                  IF HasDiskNode(path) /\ ~(dev.prod = "Rp2350Uf2" /\ EnglishDescriptions)
                  THEN {"device", "interface"} ELSE {own}
<1>1. PICK dev : dev = tree[path]
  OBVIOUS
<1>2. path \in Places /\ IsPlaced(path, dev) /\ dev.prod # "ForeignHub"
  BY <1>1, NotAHub DEF WInv, TreeInv, GInv, PlacedInv
<1>3. Len(path) > 1 /\ \E slot \in Slots : dev.prod = slot.prod /\ dev.parts = slot.parts
  BY <1>2, BadgeIsPlugged
<1>4. dev.parts \in Seq({"tty", "disk", "other"})
  BY <1>2, <1>3, PartsOf
<1>5. (dev.prod = "Rp2350Uf2" /\ Len(dev.parts) > 1) => Head(dev.parts) = "disk"
  BY <1>3 DEF DiskFirst
<1>6. PICK n : n = Len(dev.parts) /\ n \in Nat
  BY <1>4
<1>7. ASSUME n > 1, Head(dev.parts) = "disk"
      PROVE  dev.parts # <<>> /\ "disk" \in ToSet(dev.parts)
  <2>1. 1 \in DOMAIN dev.parts
    BY <1>4, <1>6, <1>7
  <2>2. dev.parts[1] = "disk"
    BY <1>7 DEF Head
  <2>3. dev.parts # <<>>
    BY <2>1
  <2> QED
    BY <2>1, <2>2, <2>3 DEF ToSet
<1>8. CASE dev.prod = "Rp2350Uf2" /\ n > 1 /\ EnglishDescriptions
  <2>1. OwnNode(dev.parts, dev.prod) = "interface"
    BY <1>6, <1>8 DEF OwnNode
  <2>2. ReportedNodes(dev) = {"interface"}
    BY <1>5, <1>6, <1>7, <1>8 DEF ReportedNodes
  <2>3. IsOwnNode("interface", dev.parts)
    BY <1>5, <1>6, <1>7, <1>8 DEF IsOwnNode
  <2> QED
    BY <1>1, <1>8, <2>1, <2>2, <2>3
<1>9. CASE ~(dev.prod = "Rp2350Uf2" /\ n > 1 /\ EnglishDescriptions)
  <2>1. OwnNode(dev.parts, dev.prod) = "device" /\ IsOwnNode("device", dev.parts)
    BY <1>6, <1>9 DEF OwnNode, IsOwnNode
  <2>2. ReportedNodes(dev) = {"device"} \cup (IF HasDiskNode(path) THEN {"interface"} ELSE {})
    BY <1>1, <1>6, <1>9 DEF ReportedNodes, HasDiskNode
  <2>3. HasDiskNode(path) => n > 1
    BY <1>1, <1>6 DEF HasDiskNode
  <2> QED
    BY <1>1, <1>9, <2>1, <2>2, <2>3
<1> QED
  BY <1>8, <1>9

\* The entries of a badge are its nodes'.
LEMMA EntriesAre ==
  ASSUME WInv, GInv, Returned, NEW path \in DOMAIN tree, path \notin disturbed,
         ListedStandalone(path),
         NEW badges, NEW groups, AreReports(result.list, badges, groups)
  PROVE  /\ \A i \in Entries(path) :
              /\ result.list[i] \in badges /\ BadgeAt(result.list[i]) = path
              /\ BadgeNode(result.list[i]) \in ReportedNodes(tree[path])
         /\ \A node \in ReportedNodes(tree[path]) :
              \E i \in Entries(path) : BadgeNode(result.list[i]) = node
         /\ \A i, j \in Entries(path) :
              BadgeNode(result.list[i]) = BadgeNode(result.list[j]) => i = j
<1>1. PICK list : list = result.list
  OBVIOUS
<1>2. AreReports(list, badges, groups)
  BY <1>1
<1>3. BadgesInv(badges) /\ GroupsInv(groups) /\ BadgesCovered(badges, {})
  BY <1>2 DEF AreReports
<1>4. isStandAloneDevice(tree[path].prod) /\ SteadyBadge(path) /\ "standalone" \notin failed
  BY DEF ListedStandalone, SteadyBadge, Steady
<1>5. \A i : i \in Entries(path) <=>
        /\ i \in DOMAIN list /\ list[i].standalone /\ Len(list[i].usbDevices) = 1
        /\ BadgeAt(list[i]) = path
  BY <1>1 DEF Entries, BadgeAt
<1>6. ASSUME NEW i \in Entries(path)
      PROVE  list[i] \in badges /\ BadgeAt(list[i]) = path
  <2>1. i \in DOMAIN list /\ Len(list[i].usbDevices) = 1 /\ BadgeAt(list[i]) = path
    BY <1>5
  <2>2. ASSUME NEW other \in groups, list[i] = fromUSBDevices(other)
        PROVE  FALSE
    <3>1. IsHubGroup(other)
      BY <1>3 DEF GroupsInv
    <3>2. PICK d : d = fromUSBDevices(other)
      OBVIOUS
    <3>3. /\ Len(other) = 1 /\ ToSet(d.usbDevices) = ToSet(other)
          /\ d.usbDevices \in Seq(ToSet(other)) /\ Len(d.usbDevices) = 1
      BY <2>1, <2>2, <3>1, <3>2, GroupIsMade
    <3>4. /\ other \in Seq(ToSet(other)) /\ is_freewili_hub(other[1].prod)
          /\ \A k \in DOMAIN other : IsRead(other[k])
      BY <3>1 DEF IsHubGroup
    <3>5. DOMAIN other = {1}
      BY <3>3, <3>4
    <3>6. d.usbDevices[1] \in ToSet(other)
      BY <3>3
    <3>7. d.usbDevices[1] = other[1]
      BY <3>5, <3>6 DEF ToSet
    <3>8. other[1].place = path
      BY <2>1, <2>2, <3>2, <3>7 DEF BadgeAt
    <3>9. other[1].prod = tree[path].prod
      BY <3>4, <3>5, <3>8 DEF IsRead
    <3> QED
      BY <1>4, <3>4, <3>9
         DEF is_freewili_hub, isStandAloneDevice, HubProduct, StandaloneProduct
  <2> QED
    BY <1>2, <2>1, <2>2 DEF AreReports
<1>7. ASSUME NEW i \in Entries(path)
      PROVE  BadgeNode(list[i]) \in ReportedNodes(tree[path])
  <2>1. list[i] \in badges /\ BadgeAt(list[i]) = path
    BY <1>6
  <2>2. PICK device : device = list[i]
    OBVIOUS
  <2>3. PICK dev : /\ BadgeAt(device) = dev.place /\ BadgeNode(device) = dev.node
                   /\ IsReported(dev)
    BY <1>3, <2>1, <2>2, BadgeReport
  <2> QED
    BY <2>1, <2>2, <2>3 DEF IsReported
<1>8. ASSUME NEW node \in ReportedNodes(tree[path])
      PROVE  \E i \in Entries(path) : BadgeNode(list[i]) = node
  <2>1. PICK device \in badges : BadgeAt(device) = path /\ BadgeNode(device) = node
    BY <1>3, <1>4 DEF BadgesCovered, IsVisited
  <2>2. PICK i \in DOMAIN list : list[i] = device
    BY <1>2 DEF AreReports
  <2>3. device.standalone /\ Len(device.usbDevices) = 1
    BY <1>3, BadgeReport
  <2> QED
    BY <1>5, <2>1, <2>2, <2>3
<1>9. ASSUME NEW i \in Entries(path), NEW j \in Entries(path),
             BadgeNode(list[i]) = BadgeNode(list[j])
      PROVE  i = j
  <2>1. /\ list[i] \in badges /\ BadgeAt(list[i]) = path /\ i \in DOMAIN list
        /\ list[j] \in badges /\ BadgeAt(list[j]) = path /\ j \in DOMAIN list
    BY <1>5, <1>6
  <2>2. list[i] = list[j]
    BY <1>3, <1>9, <2>1 DEF BadgesInv
  <2> QED
    BY <1>2, <2>1, <2>2 DEF AreReports
<1> QED
  BY <1>1, <1>6, <1>7, <1>8, <1>9

LEMMA BadgesFollow ==
  ASSUME DiskFirst
  PROVE  WInv /\ GInv => BadgeHasItsOwnEntry
<1> SUFFICES ASSUME WInv, GInv, Returned,
                    NEW path \in DOMAIN tree, Undisturbed(path), ListedStandalone(path)
             PROVE  /\ \E i \in Entries(path) : Reports(result.list[i], {path})
                    /\ Cardinality(Entries(path)) =
                         IF HasDiskNode(path)
                              /\ ~(tree[path].prod = "Rp2350Uf2" /\ EnglishDescriptions)
                         THEN 2 ELSE 1
  BY DEF BadgeHasItsOwnEntry
<1>1. PICK badges, groups : AreReports(result.list, badges, groups)
  BY ReportsAre
<1>2. path \in Seq(PathElement) /\ isStandAloneDevice(tree[path].prod)
  BY PlaceIs DEF WInv, TreeInv, ListedStandalone
<1>3. path \notin disturbed
  BY <1>2, PrefixReflexive DEF Undisturbed
<1>4. PICK entries, nodes, list :
        entries = Entries(path) /\ nodes = ReportedNodes(tree[path]) /\ list = result.list
  OBVIOUS
<1>5. /\ \A i \in entries : /\ list[i] \in badges /\ BadgeAt(list[i]) = path
                            /\ BadgeNode(list[i]) \in nodes
      /\ \A node \in nodes : \E i \in entries : BadgeNode(list[i]) = node
      /\ \A i, j \in entries : BadgeNode(list[i]) = BadgeNode(list[j]) => i = j
  BY <1>1, <1>3, <1>4, EntriesAre
<1>6. PICK own : own = OwnNode(tree[path].parts, tree[path].prod)
  OBVIOUS
<1>7. /\ own \in nodes /\ IsOwnNode(own, tree[path].parts)
      /\ nodes = IF HasDiskNode(path) /\ ~(tree[path].prod = "Rp2350Uf2" /\ EnglishDescriptions)
                 THEN {"device", "interface"} ELSE {own}
  BY <1>2, <1>4, <1>6, NodesOfABadge
<1>8. \E i \in entries : Reports(list[i], {path})
  <2>1. PICK i \in entries : BadgeNode(list[i]) = own
    BY <1>5, <1>7
  <2>2. PICK device : device = list[i]
    OBVIOUS
  <2>3. BadgesInv(badges) /\ device \in badges /\ BadgeAt(device) = path
    BY <1>1, <1>5, <2>1, <2>2 DEF AreReports
  <2>4. PICK dev : /\ BadgeAt(device) = dev.place /\ BadgeNode(device) = dev.node /\ IsRead(dev)
                   /\ ToSet(device.usbDevices) = {dev} /\ Len(device.usbDevices) = 1
    BY <2>3, BadgeReport
  <2>5. Fits(dev, path)
    BY <1>3, <1>7, <2>1, <2>2, <2>3, <2>4 DEF IsRead
  <2>6. Cardinality({path}) = 1
    BY FS_Singleton
  <2>7. Reports(device, {path})
    BY <2>4, <2>5, <2>6 DEF Reports
  <2> QED
    BY <2>1, <2>2, <2>7
<1>9. ASSUME nodes = {"device", "interface"}
      PROVE  Cardinality(entries) = 2
  <2>1. PICK i \in entries, j \in entries :
          BadgeNode(list[i]) = "device" /\ BadgeNode(list[j]) = "interface"
    BY <1>5, <1>9
  <2>2. i # j
    BY <2>1
  <2>3. entries = {i} \cup {j}
    BY <1>5, <1>9, <2>1
  <2>4. IsFiniteSet({i}) /\ Cardinality({i}) = 1
    BY FS_Singleton
  <2>5. Cardinality({i} \cup {j}) = Cardinality({i}) + 1
    BY <2>2, <2>4, FS_AddElement
  <2> QED
    BY <2>3, <2>4, <2>5
<1>10. ASSUME nodes = {own}
       PROVE  Cardinality(entries) = 1
  <2>1. PICK i \in entries : BadgeNode(list[i]) = own
    BY <1>5, <1>7
  <2>2. entries = {i}
    BY <1>5, <1>10, <2>1
  <2> QED
    BY <2>2, FS_Singleton
<1> QED
  BY <1>4, <1>7, <1>8, <1>9, <1>10

(* A badge or bootloader that stays put has an entry of its own, wherever it *)
(* is plugged in; it has just one, or two if its disk is a USB node besides  *)
(* it, but for the RP2350 where devices are described in English             *)
(* (fwfinder_windows.cpp:1305-1335).                                         *)
THEOREM BadgesApart ==
  ASSUME DiskFirst
  PROVE  Spec => []BadgeHasItsOwnEntry
<1>1. WInv /\ GInv => BadgeHasItsOwnEntry
  BY BadgesFollow
<1> QED
  BY <1>1, Invariance, GInvariance, PTL

-----------------------------------------------------------------------------
(* Two entries with one ID. *)

\* No device is deeper than the ID's five ports, no hub has more than 63.
PlacesFit ==
  \A slot \in Slots : LET chain == usbPortChain(slot.path)
                      IN  chain \in Seq(0..63) /\ Len(chain) <= ExactDepth

\* There the ID tells the ports.
LEMMA IDTellsChain ==
  ASSUME PlacesFit, NEW p \in Places, NEW q \in Places, Len(p) > 1, Len(q) > 1,
         UniqueID(usbPortChain(p)) = UniqueID(usbPortChain(q))
  PROVE  usbPortChain(p) = usbPortChain(q)
<1>1. PICK s, t : s = usbPortChain(p) /\ t = usbPortChain(q)
  OBVIOUS
<1>2. ASSUME NEW o \in Places, Len(o) > 1
      PROVE  /\ usbPortChain(o) \in Seq(0..63) /\ Len(usbPortChain(o)) <= ExactDepth
             /\ usbPortChain(o)[Len(usbPortChain(o))] # 0
  <2>1. PICK n : n = Len(o) /\ n > 1
    BY <1>2
  <2>2. n # 1
    BY <1>2, <2>1, PlaceIs
  <2>3. PICK slot \in Slots : o = slot.path
    BY <2>1, <2>2, PlaceIs
  <2>4. Last(usbPortChain(o)) # 0
    BY <1>2, PortOfPlace
  <2> QED
    BY <2>3, <2>4 DEF PlacesFit, Last
<1>3. /\ s \in Seq(0..63) /\ Len(s) <= ExactDepth /\ s[Len(s)] # 0
      /\ t \in Seq(0..63) /\ Len(t) <= ExactDepth /\ t[Len(t)] # 0
  BY <1>1, <1>2
<1>4. UniqueID(s) = UniqueID(t)
  BY <1>1
<1>5. s = t
  BY <1>3, <1>4, DistinctChains
<1> QED
  BY <1>1, <1>5

\* The device a report's ID tells: the badge, else the FreeWili's hub.
IsNamesake(d, dev, badges, groups) ==
  /\ IsRead(dev) /\ d.uniqueID = UniqueID(dev.portChain)
  /\ \/ /\ d \in badges /\ isStandAloneDevice(dev.prod) /\ IsReported(dev)
        /\ BadgeAt(d) = dev.place /\ BadgeNode(d) = dev.node
     \/ \E list \in groups :
          /\ d = fromUSBDevices(list)
          /\ \/ HubAt(list) = dev.place /\ is_freewili_hub(dev.prod)
             \/ /\ isStandAloneDevice(dev.prod)
                /\ dev.place \in disturbed \/ OfFreeWiliHub(Front(dev.place))

LEMMA GroupsNamesake ==
  ASSUME NEW badges, NEW groups, NEW list \in groups, IsHubGroup(list)
  PROVE  \E dev : IsNamesake(fromUSBDevices(list), dev, badges, groups)
<1>1. PICK d : d = fromUSBDevices(list)
  OBVIOUS
<1>2. IsMadeOf(d, list)
  BY <1>1, GroupIsMade
<1>3. /\ list \in Seq(ToSet(list)) /\ Len(list) > 0 /\ list[1].kind = "Hub"
      /\ is_freewili_hub(list[1].prod) /\ OfFreeWiliHub(HubAt(list))
      /\ \A k \in DOMAIN list : IsRead(list[k])
  BY DEF IsHubGroup
<1>4. 1 \in DOMAIN list /\ DOMAIN list \subseteq Nat \ {0}
  <2>1. list \in Seq(ToSet(list)) /\ Len(list) > 0
    BY <1>3
  <2>2. PICK n : n = Len(list)
    OBVIOUS
  <2>3. DOMAIN list = 1..n /\ n \in Nat /\ n > 0
    BY <2>1, <2>2
  <2> QED
    BY <2>3
<1>5. CASE \A k \in DOMAIN list : ~isStandAloneDevice(list[k].prod)
  <2>1. d.uniqueID = HubID(list)
    BY <1>2, <1>5 DEF IsMadeOf
  <2>2. FirstOfKind(list, "Hub") = 1
    <3>1. list \in Seq(ToSet(list)) /\ Len(list) > 0 /\ list[1].kind = "Hub"
      BY <1>3
    <3> QED
      BY <3>1, FirstOfKindFirst
  <2>3. d.uniqueID = UniqueID(list[1].portChain)
    BY <2>1, <2>2 DEF HubID
  <2>4. PICK dev : dev = list[1]
    OBVIOUS
  <2>5. IsRead(dev) /\ is_freewili_hub(dev.prod) /\ HubAt(list) = dev.place
    BY <1>3, <1>4, <2>4 DEF HubAt
  <2> QED
    BY <1>1, <2>3, <2>4, <2>5 DEF IsNamesake
<1>6. CASE ~(\A k \in DOMAIN list : ~isStandAloneDevice(list[k].prod))
  <2>1. PICK k \in DOMAIN list :
          isStandAloneDevice(list[k].prod) /\ d.uniqueID = UniqueID(list[k].portChain)
    BY <1>2, <1>6 DEF IsMadeOf
  <2>2. PICK dev : dev = list[k]
    OBVIOUS
  <2>3. IsRead(dev) /\ isStandAloneDevice(dev.prod) /\ d.uniqueID = UniqueID(dev.portChain)
    BY <1>3, <2>1, <2>2
  <2>4. k > 1
    <3>1. k # 1
      BY <1>3, <2>1 DEF is_freewili_hub, isStandAloneDevice, HubProduct, StandaloneProduct
    <3> QED
      BY <1>4, <3>1
  <2>5. dev.place \in disturbed \/ OfFreeWiliHub(Front(dev.place))
    <3>1. Front(dev.place) = HubAt(list) \/ dev.place \in disturbed
      BY <2>2, <2>4 DEF IsHubGroup
    <3> QED
      BY <1>3, <3>1
  <2> QED
    BY <1>1, <2>3, <2>5 DEF IsNamesake
<1> QED
  BY <1>5, <1>6

LEMMA ReportsNamesake ==
  ASSUME NEW list, NEW badges, NEW groups, AreReports(list, badges, groups),
         NEW i \in DOMAIN list
  PROVE  \E dev : IsNamesake(list[i], dev, badges, groups)
<1>1. BadgesInv(badges) /\ \A g \in groups : IsHubGroup(g)
  BY DEF AreReports, GroupsInv
<1>2. PICK d : d = list[i]
  OBVIOUS
<1>3. CASE d \in badges
  <2>1. PICK dev : /\ isStandAloneDevice(dev.prod) /\ BadgeAt(d) = dev.place
                   /\ BadgeNode(d) = dev.node /\ d.uniqueID = UniqueID(dev.portChain)
                   /\ IsRead(dev) /\ IsReported(dev)
    BY <1>1, <1>3, BadgeReport
  <2> QED
    BY <1>2, <1>3, <2>1 DEF IsNamesake
<1>4. CASE d \notin badges
  <2>1. PICK g \in groups : d = fromUSBDevices(g)
    BY <1>2, <1>4 DEF AreReports
  <2> QED
    BY <1>1, <1>2, <2>1, GroupsNamesake
<1> QED
  BY <1>3, <1>4

\* The third reason: the standalone device is on a FreeWili's hub or has a disk.
FoundTwice(p) ==
  /\ p \in DOMAIN tree /\ isStandAloneDevice(tree[p].prod)
  /\ OfFreeWiliHub(Front(p)) \/ HasDiskNode(p)

LEMMA NamesakeIs ==
  ASSUME NEW d, NEW dev, NEW badges, NEW groups, IsNamesake(d, dev, badges, groups),
         dev.place \notin disturbed
  PROVE  /\ dev.place \in Places /\ Len(dev.place) > 1 /\ dev.place \in DOMAIN tree
         /\ tree[dev.place].prod = dev.prod
         /\ d.uniqueID = UniqueID(usbPortChain(dev.place))
         /\ \/ FoundTwice(dev.place)
            \/ /\ d \in badges /\ isStandAloneDevice(dev.prod) /\ BadgeAt(d) = dev.place
               /\ BadgeNode(d) \in ReportedNodes(tree[dev.place])
            \/ /\ is_freewili_hub(dev.prod)
               /\ \E list \in groups : d = fromUSBDevices(list) /\ HubAt(list) = dev.place
<1>1. IsRead(dev) /\ d.uniqueID = UniqueID(dev.portChain)
  BY DEF IsNamesake
<1>2. /\ dev.place \in Places /\ Len(dev.place) > 1 /\ dev.place \in DOMAIN tree
      /\ tree[dev.place].prod = dev.prod /\ dev.portChain = usbPortChain(dev.place)
  BY <1>1 DEF IsRead, IsChain
<1> QED
  BY <1>1, <1>2 DEF IsNamesake, FoundTwice, IsReported

\* Only a badge with a disk has two nodes.
LEMMA TwoNodes ==
  ASSUME NEW p, NEW node \in ReportedNodes(tree[p]), NEW other \in ReportedNodes(tree[p]),
         node # other
  PROVE  HasDiskNode(p)
BY DEF ReportedNodes, HasDiskNode

LEMMA IDsFollow ==
  ASSUME PlacesFit
  PROVE  WInv /\ GInv => SameIDOnlyForAReason
<1> SUFFICES ASSUME GInv, Returned, NEW list, list = result.list,
                    NEW i \in DOMAIN list, NEW j \in DOMAIN list, i # j,
                    list[i].uniqueID = list[j].uniqueID, NEW id, id = list[i].uniqueID
             PROVE  \/ \E p \in disturbed : UniqueID(usbPortChain(p)) = id \/ id = UniqueID(<<>>)
                    \/ \E p, q \in DOMAIN tree :
                         /\ p # q /\ UniqueID(usbPortChain(p)) = id
                         /\ usbPortChain(p) = usbPortChain(q)
                    \/ \E p \in DOMAIN tree : UniqueID(usbPortChain(p)) = id /\ FoundTwice(p)
  BY DEF SameIDOnlyForAReason, FoundTwice
<1>1. PICK badges, groups : AreReports(list, badges, groups)
  BY ReportsAre
<1>2. PICK dev : IsNamesake(list[i], dev, badges, groups)
  BY <1>1, ReportsNamesake
<1>3. PICK other : IsNamesake(list[j], other, badges, groups)
  BY <1>1, ReportsNamesake
<1>4. PICK p, q : p = dev.place /\ q = other.place
  OBVIOUS
<1>5. /\ UniqueID(usbPortChain(p)) = id \/ (p \in disturbed /\ id = UniqueID(<<>>))
      /\ UniqueID(usbPortChain(q)) = id \/ (q \in disturbed /\ id = UniqueID(<<>>))
  BY <1>2, <1>3, <1>4 DEF IsNamesake, IsRead, IsChain
<1>6. CASE p \in disturbed \/ q \in disturbed
  BY <1>5, <1>6
<1>7. CASE p \notin disturbed /\ q \notin disturbed
  <2>1. /\ p \in Places /\ Len(p) > 1 /\ p \in DOMAIN tree /\ tree[p].prod = dev.prod
        /\ \/ FoundTwice(p)
           \/ /\ list[i] \in badges /\ isStandAloneDevice(dev.prod) /\ BadgeAt(list[i]) = p
              /\ BadgeNode(list[i]) \in ReportedNodes(tree[p])
           \/ /\ is_freewili_hub(dev.prod)
              /\ \E g \in groups : list[i] = fromUSBDevices(g) /\ HubAt(g) = p
    BY <1>2, <1>4, <1>7, NamesakeIs
  <2>2. /\ q \in Places /\ Len(q) > 1 /\ q \in DOMAIN tree /\ tree[q].prod = other.prod
        /\ \/ FoundTwice(q)
           \/ /\ list[j] \in badges /\ isStandAloneDevice(other.prod) /\ BadgeAt(list[j]) = q
              /\ BadgeNode(list[j]) \in ReportedNodes(tree[q])
           \/ /\ is_freewili_hub(other.prod)
              /\ \E g \in groups : list[j] = fromUSBDevices(g) /\ HubAt(g) = q
    BY <1>3, <1>4, <1>7, NamesakeIs
  <2>7. UniqueID(usbPortChain(p)) = id /\ UniqueID(usbPortChain(q)) = id
    BY <1>5, <1>7
  <2>3. usbPortChain(p) = usbPortChain(q)
    BY <2>1, <2>2, <2>7, IDTellsChain
  <2>4. CASE FoundTwice(p) \/ FoundTwice(q)
    BY <2>1, <2>2, <2>4, <2>7
  <2>5. CASE p # q
    BY <2>1, <2>2, <2>3, <2>5, <2>7
  <2>6. CASE p = q /\ ~FoundTwice(p)
    <3>1. list[i] # list[j]
      BY <1>1 DEF AreReports
    <3>2. CASE /\ list[i] \in badges /\ isStandAloneDevice(dev.prod) /\ BadgeAt(list[i]) = p
               /\ BadgeNode(list[i]) \in ReportedNodes(tree[p])
      <4>1. ~is_freewili_hub(other.prod)
        BY <2>1, <2>2, <2>6, <3>2
           DEF is_freewili_hub, isStandAloneDevice, HubProduct, StandaloneProduct
      <4>2. /\ list[j] \in badges /\ BadgeAt(list[j]) = p
            /\ BadgeNode(list[j]) \in ReportedNodes(tree[p])
        BY <2>2, <2>6, <4>1
      <4>3. BadgeNode(list[i]) # BadgeNode(list[j])
        BY <1>1, <3>1, <3>2, <4>2 DEF AreReports, BadgesInv
      <4>4. HasDiskNode(p)
        BY <3>2, <4>2, <4>3, TwoNodes
      <4> QED
        BY <2>1, <2>6, <3>2, <4>4 DEF FoundTwice
    <3>3. ASSUME is_freewili_hub(dev.prod), NEW g \in groups,
                 list[i] = fromUSBDevices(g), HubAt(g) = p
          PROVE  FALSE
      <4>1. ~isStandAloneDevice(other.prod)
        BY <2>1, <2>2, <2>6, <3>3
           DEF is_freewili_hub, isStandAloneDevice, HubProduct, StandaloneProduct
      <4>2. PICK h \in groups : list[j] = fromUSBDevices(h) /\ HubAt(h) = p
        BY <2>2, <2>6, <4>1
      <4>3. g = h
        BY <1>1, <3>3, <4>2 DEF AreReports, GroupsInv
      <4> QED
        BY <3>1, <3>3, <4>2, <4>3
    <3> QED
      BY <2>1, <2>6, <3>2, <3>3
  <2> QED
    BY <2>4, <2>5, <2>6
<1> QED
  BY <1>6, <1>7

(* Where no device is deeper than five ports, two entries share an ID only   *)
(* after a change at that place, or after any where the ID is that of a      *)
(* chain that could not be read; where a PCI number stands for a port; or    *)
(* because a badge is found twice: by both passes, on a FreeWili's hub, or   *)
(* with its disk (fwfinder_windows.cpp:316, 604, 1199-1207, 1305).           *)
THEOREM IDsTellPlaces ==
  ASSUME PlacesFit
  PROVE  Spec => []SameIDOnlyForAReason
<1>1. WInv /\ GInv => SameIDOnlyForAReason
  BY IDsFollow
<1> QED
  BY <1>1, Invariance, GInvariance, PTL
=============================================================================
