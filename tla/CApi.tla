-------------------------------- MODULE CApi --------------------------------
(***************************************************************************)
(* The C API (c_api/src/cfwfinder.cpp): the process-wide vector of device  *)
(* handles, the handles on the heap with their USB device iterators, and   *)
(* one caller with its `devices` array and copies of the pointers it got.  *)
(*                                                                         *)
(* A handle is addressed by its heap address, and the address of a         *)
(* destroyed handle may be given to a later one.  A call on a destroyed    *)
(* handle reads freed memory, which may pass for a known device: what such *)
(* a call does to memory is not followed, but the answers it may give are. *)
(***************************************************************************)
EXTENDS Ordered, FreeWiliDevice

CONSTANTS Device,      \* FreeWiliDevices that find_all may return
          Addr,        \* heap addresses
          Null,        \* nullptr
          NoHandle,    \* the contents of an address that holds no live handle
          ArraySize,   \* length of the caller's devices array
          MaxFound     \* bound on the devices of one scan

Iterator == [valid : BOOLEAN, pos : Nat]

\* fw_freewili_device_t: the device, the capacity of its vector of USB devices and
\* the iterator into it.
Handle == [device : Device, capacity : Nat, iter : Iterator]

ASSUME DeviceAssumption == \A d \in Device : d.usbDevices \in Seq(Range(d.usbDevices))
ASSUME NullAssumption == Null \notin Addr
ASSUME NoHandleAssumption == NoHandle \notin Handle
ASSUME BoundsAssumption == ArraySize \in Nat /\ MaxFound \in Nat

VARIABLES
  fw_devices,  \* the registry: addresses of the live handles, in vector order
  heap,        \* address -> handle
  devices,     \* the caller's array
  count,       \* how many entries of it the last find_all filled
  told,        \* history: the ID of the device each entry was reported for
  answer,      \* what the last call told the caller
  scan,        \* history: ID -> device of the last successful scan
  begun,       \* history: handles the caller called begin or set on
  resized      \* history: handles whose list changed length since the iterator was set

vars == <<fw_devices, heap, devices, count, told, answer, scan, begun, resized>>

Scans == BoundedSeq(Device, MaxFound)

IterSet == {"main", "display", "fpga", "hub", "invalid"}

Registered == Range(fw_devices)

ID(a) == heap[a].device.uniqueID

FoundIDs(found) == {found[i].uniqueID : i \in DOMAIN found}

WithID(found, id) == {i \in DOMAIN found : found[i].uniqueID = id}

\* A call's error code and output, reduced to what the caller can act on: find_all
\* filled an array of `room` entries, next or get succeeded on the device of a
\* handle, is_valid said true of a pointer, or none of these.
Answer == [is : {"reported", "on device", "valid", "nothing"}, ptr : Addr \cup {Null},
           room : 0..ArraySize]

Nothing == [is |-> "nothing", ptr |-> Null, room |-> 0]
OnDeviceOf(p) == [is |-> "on device", ptr |-> p, room |-> 0]
ValidSaid(p) == [is |-> "valid", ptr |-> p, room |-> 0]
Reported(room) == [is |-> "reported", ptr |-> Null, room |-> room]

-----------------------------------------------------------------------------
(* The handle: fw_freewili_device_t. *)

ListSize(device) == Len(device.usbDevices)

\* A fresh copy: the vector's capacity is its size, the iterator is at begin().
NewHandle(device) ==
  [device |-> device, capacity |-> ListSize(device), iter |-> [valid |-> TRUE, pos |-> 0]]

\* Variant with a bug: the first of several entries with one ID wins.
RefreshedFromFirst(h, found) ==
  LET same == WithID(found, h.device.uniqueID)
  IN  IF same = {}
      THEN h
      ELSE [device |-> found[Min(same)], capacity |-> h.capacity, iter |-> h.iter]

\* (*it)->device = device, once for every found device with the handle's ID.  A
\* longer list than the vector has room for moves it to a new buffer and leaves
\* the iterator in the old one; a shorter list leaves the iterator where it was.
Refreshed(h, found) ==
  LET same == WithID(found, h.device.uniqueID)
      grows == {i \in same : ListSize(found[i]) > h.capacity}
  IN  IF same = {}
      THEN h
      ELSE [device   |-> found[Max(same)],
            capacity |-> Max({h.capacity} \cup {ListSize(found[i]) : i \in same}),
            iter     |-> [h.iter EXCEPT !.valid = @ /\ grows = {}]]

\* usbDevicesIter == usbDevices.end(); a dangling iterator may compare either way.
AtEnd(h) ==
  IF h.iter.valid THEN {h.iter.pos = ListSize(h.device)} ELSE BOOLEAN

\* The iterator can be dereferenced.
OnDevice(h) == h.iter.valid /\ h.iter.pos < ListSize(h.device)

InRange(h) == h.iter.valid /\ h.iter.pos <= ListSize(h.device)

-----------------------------------------------------------------------------
Init == /\ fw_devices = <<>>
        /\ heap = [a \in Addr |-> NoHandle]
        /\ devices = [i \in 1..ArraySize |-> Null]
        /\ count = 0
        /\ told = devices
        /\ answer = Nothing
        /\ scan = [id \in {} |-> id]
        /\ begun = {}
        /\ resized = {}

\* Variants with a bug: the vector is not searched again for a device this scan
\* added, the known handles are not searched at all, the loop starts one late.
NewIndicesUnique(found) ==
  {i \in DOMAIN found : found[i].uniqueID \notin {ID(a) : a \in Registered}}
NewIndicesOfAll(found) ==
  {i \in DOMAIN found : \A j \in DOMAIN found : j < i => found[j].uniqueID # found[i].uniqueID}
NewIndicesFromSecond(found) ==
  {i \in DOMAIN found : i > 1 /\ found[i].uniqueID \notin {ID(a) : a \in Registered}}

\* The found devices that get a new handle: the first with each unknown ID.
NewIndices(found) ==
  {i \in DOMAIN found :
     /\ found[i].uniqueID \notin {ID(a) : a \in Registered}
     /\ \A j \in DOMAIN found : j < i => found[j].uniqueID # found[i].uniqueID}

\* Variant with a bug: handles are never dropped.
GoneNever(found) == {}

\* The handles whose device the scan did not find.
Gone(found) == {a \in Registered : ID(a) \notin FoundIDs(found)}

\* The handle at an address once the unknown devices have theirs: new[k] is the
\* k-th of them, place[k] its address.
HandleAt(a, found, new, place) ==
  IF a \in Registered
  THEN heap[a]
  ELSE NewHandle(found[new[CHOOSE k \in DOMAIN new : place[k] = a]])

\* fw_device_find_all after a successful scan, with *count = room: add or update,
\* drop what is gone, report as many as fit.
FindAll(room, found) ==
  LET new == InOrder(NewIndices(found))
  IN  \E place \in Injection(DOMAIN new, Addr \ Registered) :
        LET kept == Erase(fw_devices \o place, Gone(found))
            min_size == IF room < Len(kept) THEN room ELSE Len(kept)
            handle(a) == HandleAt(a, found, new, place)
            idOf(a) == handle(a).device.uniqueID
        IN  /\ fw_devices' = kept
            /\ heap' = [a \in Addr |-> IF a \in Range(kept)
                                       THEN Refreshed(handle(a), found)
                                       ELSE NoHandle]
            /\ devices' = [i \in 1..ArraySize |-> IF i <= min_size THEN kept[i] ELSE devices[i]]
            /\ count' = min_size
            /\ told' = [i \in 1..ArraySize |-> IF i <= min_size THEN idOf(kept[i]) ELSE told[i]]
            /\ answer' = Reported(room)
            /\ scan' = [id \in FoundIDs(found) |-> found[Max(WithID(found, id))]]
            /\ begun' = begun \cap Range(kept)
            /\ resized' = {a \in Range(kept) :
                             \/ a \in resized
                             \/ \E i \in WithID(found, idOf(a)) :
                                  ListSize(found[i]) # ListSize(handle(a).device)}

\* A call that returns early: find_all when Fw::find_all failed (whatever becomes
\* of the error text), and any call on nullptr.
Refused ==
  /\ answer' = Nothing
  /\ UNCHANGED <<fw_devices, heap, devices, count, told, scan, begun, resized>>

\* The handles of `gone` leave the registry, and with its reference their memory.
Destroy(gone) ==
  /\ fw_devices' = Erase(fw_devices, gone)
  /\ heap' = [a \in Addr |-> IF a \in gone THEN NoHandle ELSE heap[a]]
  /\ begun' = begun \ gone
  /\ resized' = resized \ gone
  /\ UNCHANGED scan

\* Variant with a bug: the freed entries are not set to nullptr.
FreeKeepingPointers(n) ==
  /\ n > 0
  /\ Destroy({devices[i] : i \in 1..n} \ {Null})
  /\ answer' = Nothing
  /\ UNCHANGED <<devices, told, count>>

\* Variant with a bug: the loop starts one late.
FreeFromSecond(n) ==
  LET freed == {devices[i] : i \in 2..n} \ {Null}
  IN  /\ n > 0
      /\ Destroy(freed)
      /\ devices' = [i \in 1..ArraySize |-> IF i \in 2..n THEN Null ELSE devices[i]]
      /\ told' = [i \in 1..ArraySize |-> IF i \in 2..n THEN Null ELSE told[i]]
      /\ answer' = Nothing
      /\ UNCHANGED count

\* fw_device_free(devices, n): the first n entries, null or stale ones included.
Free(n) ==
  LET freed == {devices[i] : i \in 1..n} \ {Null}
  IN  /\ n > 0
      /\ Destroy(freed)
      /\ devices' = [i \in 1..ArraySize |-> IF i <= n THEN Null ELSE devices[i]]
      /\ told' = [i \in 1..ArraySize |-> IF i <= n THEN Null ELSE told[i]]
      /\ answer' = Nothing
      /\ UNCHANGED count

\* fw_device_free(nullptr, 0): everything; the caller knows its array is void.
FreeAll ==
  /\ Destroy(Addr)
  /\ count' = 0
  /\ answer' = Nothing
  /\ UNCHANGED <<devices, told>>

\* fw_device_is_valid compares the ID behind the pointer with the registry's: true
\* of a live handle, anything of freed memory, which may still hold its old ID.
IsValid(p) ==
  /\ \/ answer' = ValidSaid(p)
     \/ p \notin Registered /\ answer' = Nothing
  /\ UNCHANGED <<fw_devices, heap, devices, count, told, scan, begun, resized>>

\* A call on a handle that is no more, which asks is_valid first: refused, or taken
\* for a known device because its freed memory still reads like one, and then
\* answered with whatever else is read there.
OnFreedMemory(p, answers) ==
  /\ p \notin Registered
  /\ answer' \in answers \cup {Nothing}
  /\ UNCHANGED <<fw_devices, heap, devices, count, told, scan, begun, resized>>

\* The iterator of p's handle is put somewhere; the rest stays.
Position(p, iter) ==
  /\ heap' = [heap EXCEPT ![p].iter = iter]
  /\ UNCHANGED <<fw_devices, devices, count, told, scan>>

\* Variant with a bug: a begun iterator stays where it was.
RewindIteratorInPlace(p) ==
  /\ p \in Registered
  /\ Position(p, heap[p].iter)
  /\ begun' = begun \cup {p}
  /\ resized' = resized \ {p}
  /\ answer' = Nothing

RewindIterator(p) ==
  /\ p \in Registered
  /\ Position(p, [valid |-> TRUE, pos |-> 0])
  /\ begun' = begun \cup {p}
  /\ resized' = resized \ {p}
  /\ answer' = Nothing

\* fw_usb_device_begin; its success tells the caller nothing.
Begin(p) == RewindIterator(p) \/ OnFreedMemory(p, {})

\* Variants with a bug: the step is forgotten, or the end not looked for after it.
StepIteratorInPlace(p) ==
  /\ p \in Registered
  /\ UNCHANGED <<begun, resized>>
  /\ Position(p, heap[p].iter)
  /\ answer' = IF OnDevice(heap[p]) THEN OnDeviceOf(p) ELSE Nothing
StepIteratorUnchecked(p) ==
  /\ p \in Registered
  /\ UNCHANGED <<begun, resized>>
  /\ IF OnDevice(heap[p])
     THEN Position(p, [heap[p].iter EXCEPT !.pos = @ + 1]) /\ answer' = OnDeviceOf(p)
     ELSE Position(p, heap[p].iter) /\ answer' = Nothing

\* fw_usb_device_next: no step at the end; one step, which may reach the end; or a
\* step of an iterator that is not in the list, which leaves it nowhere.
StepIterator(p) ==
  LET h == heap[p]
  IN  /\ p \in Registered
      /\ UNCHANGED <<begun, resized>>
      /\ \/ /\ TRUE \in AtEnd(h)
            /\ Position(p, h.iter)
            /\ answer' = Nothing
         \/ /\ OnDevice(h)
            /\ Position(p, [h.iter EXCEPT !.pos = @ + 1])
            /\ answer' = IF h.iter.pos + 1 = ListSize(h.device) THEN Nothing ELSE OnDeviceOf(p)
         \/ /\ ~OnDevice(h) /\ FALSE \in AtEnd(h)
            /\ Position(p, [valid |-> FALSE, pos |-> h.iter.pos])
            /\ answer' \in {OnDeviceOf(p), Nothing}

NextDevice(p) == StepIterator(p) \/ OnFreedMemory(p, {OnDeviceOf(p)})

\* The index the getter of an iterator set yields, 0 for its error.
Target(device, iter_set) ==
  CASE iter_set = "main"    -> getMainUSBDevice(device)
    [] iter_set = "display" -> getDisplayUSBDevice(device)
    [] iter_set = "fpga"    -> getFPGAUSBDevice(device)
    [] iter_set = "hub"     -> getHubUSBDevice(device)
    [] iter_set = "invalid" -> 0

\* Variants with a bug: the search starts where the iterator is, or the getter's
\* error is not checked.
SetIteratorFromHere(p, iter_set) ==
  LET target == Target(heap[p].device, iter_set)
  IN  /\ p \in Registered
      /\ target # 0
      /\ Position(p, [valid |-> TRUE,
                      pos |-> Max({target - 1, heap[p].iter.pos})])
      /\ begun' = begun \cup {p}
      /\ resized' = resized \ {p}
      /\ answer' = Nothing
SetIteratorUnchecked(p, iter_set) ==
  /\ p \in Registered
  /\ Position(p, [valid |-> TRUE, pos |-> Target(heap[p].device, iter_set) - 1])
  /\ begun' = begun \cup {p}
  /\ resized' = resized \ {p}
  /\ answer' = Nothing

\* fw_usb_device_set finds the getter's device again by comparing whole devices:
\* the first equal one is the one the getter took.
SetIterator(p, iter_set) ==
  LET target == Target(heap[p].device, iter_set)
  IN  /\ p \in Registered
      /\ target # 0   \* else an error message and an early return
      /\ Position(p, [valid |-> TRUE, pos |-> target - 1])
      /\ begun' = begun \cup {p}
      /\ resized' = resized \ {p}
      /\ answer' = Nothing

SetDevice(p, iter_set) == SetIterator(p, iter_set) \/ OnFreedMemory(p, {})

ReadIterator(p) ==
  /\ p \in Registered
  /\ \E end \in AtEnd(heap[p]) : answer' = IF end THEN Nothing ELSE OnDeviceOf(p)
  /\ UNCHANGED <<fw_devices, heap, devices, count, told, scan, begun, resized>>

\* fw_usb_device_get_type, _get_str, _get_int and _get_port_chain, up to the
\* point where they read the device the iterator is on.
GetFromDevice(p) == ReadIterator(p) \/ OnFreedMemory(p, {OnDeviceOf(p)})

\* The pointers the caller was given and did not free: also those of earlier
\* scans, beyond the entries the last one filled.
Pointer == Range(devices) \ {Null}

Next == \/ \E room \in 0..ArraySize, found \in Scans : FindAll(room, found)
        \/ \E n \in 1..ArraySize : Free(n)
        \/ FreeAll
        \/ Refused
        \/ \E p \in Pointer :
             \/ IsValid(p)
             \/ Begin(p)
             \/ NextDevice(p)
             \/ \E iter_set \in IterSet : SetDevice(p, iter_set)
             \/ GetFromDevice(p)

Spec == Init /\ [][Next]_vars

-----------------------------------------------------------------------------
(* Properties. *)

TypeOK ==
  /\ fw_devices \in Seq(Addr)
  /\ heap \in [Addr -> Handle \cup {NoHandle}]
  /\ devices \in [1..ArraySize -> Addr \cup {Null}]
  /\ count \in 0..ArraySize
  /\ told \in [1..ArraySize -> {d.uniqueID : d \in Device} \cup {Null}]
  /\ answer \in Answer
  /\ \A id \in DOMAIN scan : scan[id] \in Device /\ scan[id].uniqueID = id
  /\ begun \subseteq Addr /\ resized \subseteq Addr

(* A device has one handle.  Whatever the scans return, the same location    *)
(* twice included, the registry never holds two handles that operator==      *)
(* calls equal, nor one handle twice, and the memory that is alive is just   *)
(* what the registry refers to (cfwfinder.cpp:48, 74, 124).                  *)
OneHandlePerDevice ==
  /\ \A i, j \in DOMAIN fw_devices : ID(fw_devices[i]) = ID(fw_devices[j]) => i = j
  /\ \A a \in Addr : heap[a] # NoHandle <=> a \in Registered

(* What the registry says of a device is what the last successful scan said, *)
(* and of two entries with one ID the later (cfwfinder.cpp:68): no handle    *)
(* outlives the scan that no longer found its device.                        *)
RegistryFollowsScan ==
  \A a \in Registered : ID(a) \in DOMAIN scan /\ heap[a].device = scan[ID(a)]

(* Every entry the last find_all put in the caller's array is a live handle, *)
(* none twice, until the caller frees it: the pointers are taken after the   *)
(* vector was pruned (cfwfinder.cpp:74-94).                                  *)
ReportedHandlesAreLive ==
  \A i \in 1..count : devices[i] # Null =>
    /\ devices[i] \in Registered
    /\ told[i] = ID(devices[i])
    /\ \A j \in 1..count : devices[j] = devices[i] => j = i

(* A find_all whose array has room reports each found location once; one     *)
(* whose array is too small fills it, and its count is then the caller's own *)
(* room (cfwfinder.cpp:89-94), not "the total number of devices found" that  *)
(* cfwfinder.h:137 promises, by which the caller could tell.                 *)
EveryDeviceReported ==
  answer.is = "reported" =>
    LET reported == {ID(devices[i]) : i \in 1..count}
        found    == Cardinality(DOMAIN scan)
    IN  /\ reported \subseteq DOMAIN scan
        /\ count = IF answer.room < found THEN answer.room ELSE found
        /\ Cardinality(reported) = count

(* As long as no scan changed the length of a handle's list since its        *)
(* iterator was last set, the iterator stays in the list, through any number *)
(* of scans, frees and steps in between (cfwfinder.cpp:271, 288, 325).       *)
IteratorInRange == \A a \in Registered \ resized : InRange(heap[a])

(* A handle is one device's for life: no step makes a live handle another    *)
(* device's, and a device that stays known stays at its address, so the      *)
(* caller's pointer outlives any scan that finds the device again.           *)
HandlesAreStable ==
  [][\A a \in Registered, b \in Registered' : (ID(a) = ID(b)') <=> (a = b)]_vars

(* The registry as its caller sees it.                                       *)
Known == [id \in {ID(a) : a \in Registered} |->
            heap[CHOOSE a \in Registered : ID(a) = id].device]

Abstract == INSTANCE DeviceRegistry
              WITH known <- Known, latest <- scan, fresh <- answer.is = "reported"

(* The API is a map from IDs to devices that a successful scan replaces as a *)
(* whole and that freeing shrinks, and nothing else changes it: right after  *)
(* a scan it is what the scan found, and no sequence of calls leaves an      *)
(* entry of an older scan or brings back a freed one (cfwfinder.cpp:47-94).  *)
ImplementsRegistry == Abstract!Spec

-----------------------------------------------------------------------------
(* What the documentation says and the code does not keep. *)

(* cfwfinder.h:284: called after begin, next "will return the next USB       *)
(* device of the specified type, or an error if there are no more devices":  *)
(* on a handle the caller began, a call that succeeds leaves, or read, an    *)
(* iterator that is on a device of the list.                                 *)
SuccessIsOnADevice ==
  (answer.is = "on device" /\ answer.ptr \in begun) => OnDevice(heap[answer.ptr])
=============================================================================
