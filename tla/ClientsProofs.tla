--------------------------- MODULE ClientsProofs ---------------------------
(***************************************************************************)
(* The C example and the Zig binding's test are callers as CApi allows     *)
(* them, for all devices, addresses, rooms and buffers; so the theorems    *)
(* about CApi hold in them.  Then what they read, list, print and leave.   *)
(***************************************************************************)
EXTENDS Clients, CApiProofs

\* Where a program is: at an entry the scan filled, and none is void before the end.
AtFilledEntry ==
  /\ program \in Program
  /\ index \in Nat
  /\ pc = "find_all" => index = 1
  /\ pc \in OnHandle => index \in 1..count
  /\ ~Ended => \A i \in 1..count : devices[i] # Null

LEMMA CurrentIsPointer ==
  ASSUME IInv, AtFilledEntry, pc \in OnHandle
  PROVE  Current \in Pointer
<1>1. index \in 1..count /\ count \in 0..ArraySize
  BY DEF AtFilledEntry, IInv, TypeOK
<1>2. index \in 1..ArraySize
  BY <1>1, BoundsAssumption DEF BoundsAssumption
<1>3. devices \in [1..ArraySize -> Addr \cup {Null}]
  BY DEF IInv, TypeOK
<1>4. devices[index] # Null
  BY <1>1 DEF AtFilledEntry, OnHandle, Ended
<1> QED
  BY <1>2, <1>3, <1>4 DEF Current, Pointer, Range

\* The program stays at the entry or is through with it.
GoesOn ==
  \/ index' = index /\ pc' \in OnHandle \cup {"gave up"}
  \/ NextHandle

\* The calls on a handle leave the caller's array alone, and the program stays at
\* the entry or goes on to the next filled one.
LEMMA StaysInArray ==
  ASSUME IInv, AtFilledEntry, pc \in OnHandle,
         UNCHANGED <<program, devices, count>>,
         GoesOn
  PROVE  AtFilledEntry'
<1>0. ~Ended
  BY DEF OnHandle, Ended
<1>1. index \in 1..count /\ count \in Nat /\ \A i \in 1..count : devices[i] # Null
  <2>1. count \in 0..ArraySize
    BY DEF IInv, TypeOK
  <2> QED
    BY <1>0, <2>1, BoundsAssumption DEF AtFilledEntry, BoundsAssumption
<1>2. CASE index' = index /\ pc' \in OnHandle \cup {"gave up"}
  BY <1>1, <1>2 DEF AtFilledEntry, OnHandle
<1>3. CASE NextHandle
  <2>1. index' = index + 1 /\ pc' \in {"is_valid", "free", "done"}
    BY <1>3 DEF NextHandle
  <2>2. pc' \in OnHandle => index < count
    BY <1>3 DEF NextHandle, OnHandle
  <2>3. index < count => index' \in 1..count'
    BY <1>1, <2>1
  <2>4. index' \in Nat /\ \A i \in 1..count' : devices'[i] # Null
    BY <1>1, <2>1
  <2>5. pc' # "find_all"
    BY <2>1
  <2> QED
    BY <2>2, <2>3, <2>4, <2>5 DEF AtFilledEntry
<1> QED
  BY <1>2, <1>3 DEF GoesOn

LEMMA FindDevicesStep ==
  ASSUME IInv, AtFilledEntry, FindDevices
  PROVE  Next /\ AtFilledEntry'
<1>1. /\ TypeOK /\ OneHandlePerDevice /\ index = 1 /\ program \in Program
      /\ UNCHANGED <<program, index>>
  BY DEF IInv, AtFilledEntry, FindDevices
<1>2. ASSUME NEW found \in Scans, FindAll(Room[program], found),
             pc' = IF count' > 0 THEN "is_valid" ELSE IF program = "c" THEN "free" ELSE "done"
      PROVE  Next /\ AtFilledEntry'
  <2>1. Room[program] \in 0..ArraySize
    BY <1>1, RoomAssumption, BoundsAssumption DEF RoomAssumption, BoundsAssumption
  <2>2. Next
    BY <1>2, <2>1 DEF Next
  <2>3. PICK room \in 0..ArraySize : room = Room[program]
    BY <2>1
  <2>4. FindAll(room, found)
    BY <1>2, <2>3
  <2>5. /\ fw_devices' \in Seq(Addr)
        /\ count' = IF room < Len(fw_devices') THEN room ELSE Len(fw_devices')
        /\ devices' = [i \in 1..ArraySize |-> IF i <= count' THEN fw_devices'[i] ELSE devices[i]]
    BY <1>1, <2>4, FindAllEffect
  <2>6. count' \in 0..ArraySize /\ count' <= Len(fw_devices')
    BY <2>3, <2>5, BoundsAssumption DEF BoundsAssumption
  <2>7. ASSUME NEW i \in 1..count' PROVE devices'[i] # Null
    <3>1. i \in 1..ArraySize /\ i \in 1..Len(fw_devices')
      BY <2>5, <2>6, BoundsAssumption DEF BoundsAssumption
    <3>2. devices'[i] = fw_devices'[i]
      BY <2>5, <3>1
    <3> QED
      BY <2>5, <3>1, <3>2, NullAssumption DEF NullAssumption
  <2>8. pc' \in OnHandle => 1 \in 1..count'
    BY <1>2, <2>6 DEF OnHandle
  <2> QED
    BY <1>1, <1>2, <2>2, <2>7, <2>8 DEF AtFilledEntry
<1>3. ASSUME Refused, pc' = "done" PROVE Next /\ AtFilledEntry'
  BY <1>1, <1>3 DEF Next, AtFilledEntry, OnHandle, Ended
<1> QED
  BY <1>2, <1>3 DEF FindDevices

LEMMA CheckHandleStep ==
  ASSUME IInv, AtFilledEntry, CheckHandle
  PROVE  Next /\ AtFilledEntry'
<1>1. pc \in OnHandle
  BY DEF CheckHandle, OnHandle
<1>2. IsValid(Current) /\ UNCHANGED program
  BY DEF CheckHandle
<1>3. UNCHANGED <<devices, count>>
  BY <1>2 DEF IsValid
<1>4. GoesOn
  BY DEF CheckHandle, GoTo, OnHandle, GoesOn
<1> QED
  BY <1>1, <1>2, <1>3, <1>4, CurrentIsPointer, StaysInArray DEF Next

\* Asked goes to another call on the handle or to the next one.
LEMMA AskedGoesOn ==
  ASSUME Asked
  PROVE  GoesOn
BY DEF Asked, GoTo, OnHandle, GoesOn

LEMMA AskForStep ==
  ASSUME IInv, AtFilledEntry, NEW iter_set \in Range(Sets), AskFor(iter_set)
  PROVE  Next /\ AtFilledEntry'
<1>1. pc \in OnHandle /\ UNCHANGED program
  BY DEF AskFor, OnHandle
<1>2. iter_set \in IterSet
  BY DEF Range, Sets, IterSet
<1>3. ASSUME SetDevice(Current, iter_set), GoTo("get set")
      PROVE  Next /\ AtFilledEntry'
  <2>1. UNCHANGED <<devices, count>>
    BY <1>3 DEF SetDevice, SetIterator, Position, OnFreedMemory
  <2>2. index' = index /\ pc' \in OnHandle
    BY <1>3 DEF GoTo, OnHandle
  <2>3. Next
    BY <1>1, <1>2, <1>3, CurrentIsPointer DEF Next
  <2> QED
    BY <1>1, <2>1, <2>2, <2>3, StaysInArray DEF GoesOn
<1>4. ASSUME Refused, Asked PROVE Next /\ AtFilledEntry'
  <2>1. UNCHANGED <<devices, count>>
    BY <1>4 DEF Refused
  <2> QED
    BY <1>1, <1>4, <2>1, AskedGoesOn, StaysInArray DEF Next
<1> QED
  BY <1>3, <1>4 DEF AskFor

LEMMA GetSteps ==
  ASSUME IInv, AtFilledEntry,
         \/ \E iter_set \in Range(Sets) : PrintAsked(iter_set)
         \/ PrintListed
         \/ ReadListed
  PROVE  Next /\ AtFilledEntry'
<1>1. pc \in OnHandle /\ GetFromDevice(Current) /\ UNCHANGED program
  BY DEF PrintAsked, PrintListed, ReadListed, OnHandle
<1>2. UNCHANGED <<devices, count>>
  BY <1>1 DEF GetFromDevice, ReadIterator, OnFreedMemory
<1>3. GoesOn
  BY AskedGoesOn DEF PrintAsked, PrintListed, ReadListed, GoTo, OnHandle, GoesOn
<1> QED
  BY <1>1, <1>2, <1>3, CurrentIsPointer, StaysInArray DEF Next

LEMMA IterationSteps ==
  ASSUME IInv, AtFilledEntry, BeginListing \/ StepListing
  PROVE  Next /\ AtFilledEntry'
<1>1. pc \in OnHandle /\ (Begin(Current) \/ NextDevice(Current)) /\ UNCHANGED program
  BY DEF BeginListing, StepListing, OnHandle
<1>2. UNCHANGED <<devices, count>>
  BY <1>1 DEF Begin, RewindIterator, NextDevice, StepIterator, Position, OnFreedMemory
<1>3. GoesOn
  BY DEF BeginListing, StepListing, ListingReturned, GoTo, OnHandle, GoesOn
<1> QED
  BY <1>1, <1>2, <1>3, CurrentIsPointer, StaysInArray DEF Next

LEMMA SliceFullStep ==
  ASSUME IInv, AtFilledEntry, SliceFull
  PROVE  UNCHANGED vars /\ AtFilledEntry'
<1>1. pc \in OnHandle /\ UNCHANGED <<vars, program>>
  BY DEF SliceFull, OnHandle
<1>2. index' = index /\ pc' \in OnHandle
  BY DEF SliceFull, ListingReturned, GoTo, OnHandle
<1> QED
  BY <1>1, <1>2, StaysInArray DEF vars, GoesOn

LEMMA FreeDevicesStep ==
  ASSUME IInv, AtFilledEntry, FreeDevices
  PROVE  Next /\ AtFilledEntry'
<1>1. pc' = "done" /\ UNCHANGED <<program, index>>
  BY DEF FreeDevices, GoTo
<1>2. count \in 0..ArraySize
  BY DEF IInv, TypeOK
<1>3. Next
  BY <1>2, BoundsAssumption DEF FreeDevices, Next, BoundsAssumption
<1> QED
  BY <1>1, <1>3 DEF AtFilledEntry, OnHandle, Ended

LEMMA ClientStep ==
  ASSUME IInv, AtFilledEntry, [ClientNext]_clientVars
  PROVE  [Next]_vars /\ AtFilledEntry'
<1>1. CASE UNCHANGED clientVars
  BY <1>1 DEF clientVars, vars, AtFilledEntry, Ended
<1>2. CASE ClientNext
  BY <1>2, FindDevicesStep, CheckHandleStep, AskForStep, GetSteps, IterationSteps,
     SliceFullStep, FreeDevicesStep DEF ClientNext
<1> QED
  BY <1>1, <1>2

LEMMA ClientInvariant == ClientSpec => [](IInv /\ AtFilledEntry)
<1>1. ClientInit => IInv /\ AtFilledEntry
  <2> SUFFICES ASSUME ClientInit PROVE IInv /\ AtFilledEntry
    OBVIOUS
  <2>1. count = 0 /\ pc = "find_all" /\ index = 1 /\ program \in Program
    BY DEF ClientInit, Init
  <2> QED
    BY <2>1, InitIInv DEF ClientInit, AtFilledEntry, OnHandle
<1>2. IInv /\ AtFilledEntry /\ [ClientNext]_clientVars => (IInv /\ AtFilledEntry)'
  BY ClientStep, NextIInv
<1> QED
  BY <1>1, <1>2, PTL DEF ClientSpec

(* Both programs keep to what CApi allows its caller, whatever is plugged in *)
(* and however large their arrays and buffers are: each of their steps is a  *)
(* call of the API with pointers they were given and have not freed and with *)
(* no more room than their array has (c_api_basic_usage.c:19-175,            *)
(* root.zig:155-308).                                                        *)
THEOREM ProgramsUseTheApi == ClientSpec => UsesTheApi
<1>1. ClientInit => Init
  BY DEF ClientInit
<1>2. IInv /\ AtFilledEntry /\ [ClientNext]_clientVars => [Next]_vars
  BY ClientStep
<1> QED
  BY <1>1, <1>2, ClientInvariant, PTL DEF ClientSpec, UsesTheApi, Spec

(* No program ever passes a freed handle or an unfilled entry: whatever call *)
(* comes next on a handle, it is alive (c_api_basic_usage.c:39-167,          *)
(* root.zig:168-172, 318).                                                   *)
THEOREM HandlesInUse == ClientSpec => []HandlesInUseAreLive
<1>1. ASSUME IInv, AtFilledEntry, ReportedHandlesAreLive PROVE HandlesInUseAreLive
  <2> SUFFICES ASSUME pc \in OnHandle PROVE index \in 1..count /\ Current \in Registered
    BY DEF HandlesInUseAreLive
  <2>0. ~Ended
    BY DEF OnHandle, Ended
  <2>1. index \in 1..count /\ devices[index] # Null
    BY <1>1, <2>0 DEF AtFilledEntry
  <2> QED
    BY <1>1, <2>1 DEF ReportedHandlesAreLive, Current
<1>2. ClientSpec => Spec
  BY ProgramsUseTheApi DEF UsesTheApi
<1> QED
  BY <1>1, <1>2, ClientInvariant, ReportedLive, PTL

-----------------------------------------------------------------------------
(* What the programs read. *)

\* Where a program reads or steps the iterator, it has set it itself and no scan came
\* in between; and what it last read was a device of the list.
ReadsInv ==
  /\ ReadsOnlyDevices
  /\ pc \in {"get set", "get", "next"} => Current \notin resized

\* A getter that finds an iterator of the list not at the end finds it on a device.
LEMMA NotAtEndIsOnDevice ==
  ASSUME NEW h \in Handle, InRange(h), FALSE \in AtEnd(h)
  PROVE  OnDevice(h)
<1>1. h.iter.valid /\ h.iter.pos \in Nat /\ h.iter.pos <= ListSize(h.device)
  BY DEF InRange, Handle, Iterator
<1>2. ListSize(h.device) \in Nat
  BY ListSizeIsNat DEF Handle
<1>3. h.iter.pos # ListSize(h.device)
  <2> SUFFICES ASSUME h.iter.pos = ListSize(h.device) PROVE FALSE
    OBVIOUS
  <2>1. AtEnd(h) = {TRUE}
    BY <1>1, Zenon DEF AtEnd
  <2> QED
    BY <2>1
<1> QED
  BY <1>1, <1>2, <1>3 DEF OnDevice

\* A call on a live handle does not read freed memory.
LEMMA LiveCalls ==
  ASSUME NEW p \in Registered
  PROVE  /\ GetFromDevice(p) => ReadIterator(p)
         /\ NextDevice(p) => StepIterator(p)
         /\ Begin(p) => RewindIterator(p)
         /\ \A iter_set : SetDevice(p, iter_set) => SetIterator(p, iter_set)
BY DEF GetFromDevice, NextDevice, Begin, SetDevice, OnFreedMemory

LEMMA GetReadsDevice ==
  ASSUME IInv, IteratorInv, NEW p \in Registered, p \notin resized, ReadIterator(p)
  PROVE  ReadsOnlyDevices'
<1>1. heap[p] \in Handle /\ InRange(heap[p])
  BY RegistryDistinct DEF IInv, IteratorInv
<1>2. heap' = heap /\ \E end \in AtEnd(heap[p]) : answer' = IF end THEN Nothing ELSE OnDeviceOf(p)
  BY DEF ReadIterator
<1>3. PICK end \in AtEnd(heap[p]) : answer' = IF end THEN Nothing ELSE OnDeviceOf(p)
  BY <1>2
<1>4. end \in BOOLEAN
  BY <1>3 DEF AtEnd
<1>5. CASE end = TRUE
  BY <1>3, <1>5 DEF Nothing, ReadsOnlyDevices
<1>6. CASE end = FALSE
  <2>1. OnDevice(heap[p])
    BY <1>1, <1>3, <1>6, NotAtEndIsOnDevice
  <2>2. answer' = OnDeviceOf(p)
    BY <1>3, <1>6
  <2> QED
    BY <1>2, <2>1, <2>2 DEF OnDeviceOf, ReadsOnlyDevices, OnDevice, ListSize
<1> QED
  BY <1>4, <1>5, <1>6

LEMMA NextReadsDevice ==
  ASSUME IInv, IteratorInv, NEW p \in Registered, p \notin resized, StepIterator(p)
  PROVE  ReadsOnlyDevices'
<1> DEFINE h == heap[p]
           iter == [h.iter EXCEPT !.pos = @ + 1]
<1>1. h \in Handle /\ InRange(h) /\ ListSize(h.device) \in Nat
  BY RegistryDistinct, ListSizeIsNat DEF IInv, IteratorInv, Handle
<1>2. CASE answer' = Nothing
  BY <1>2 DEF Nothing, ReadsOnlyDevices
<1>3. CASE /\ OnDevice(h) /\ Position(p, iter)
           /\ h.iter.pos + 1 # ListSize(h.device)
           /\ answer' = OnDeviceOf(p)
  <2>1. iter \in Iterator /\ iter.valid = h.iter.valid /\ iter.pos = h.iter.pos + 1
    BY <1>1, IteratorSteps DEF Handle, Iterator
  <2>2. iter.valid /\ iter.pos < ListSize(h.device)
    BY <1>1, <1>3, <2>1 DEF OnDevice, Handle, Iterator
  <2>3. heap'[p].iter = iter /\ heap'[p].device = h.device
    <3> HIDE DEF iter
    <3> QED
      BY <1>3, <2>1, PositionIterators DEF IInv
  <2>4. OnDevice(heap'[p])
    BY <2>2, <2>3 DEF OnDevice
  <2> QED
    BY <1>3, <2>4 DEF OnDeviceOf, ReadsOnlyDevices, OnDevice, ListSize
<1>4. CASE ~OnDevice(h) /\ FALSE \in AtEnd(h)
  BY <1>1, <1>4, NotAtEndIsOnDevice
<1> QED
  BY <1>2, <1>3, <1>4 DEF StepIterator

LEMMA ReadsStep ==
  ASSUME IInv, IteratorInv, HandlesInUseAreLive, ReadsInv, [ClientNext]_clientVars
  PROVE  ReadsInv'
<1>1. ASSUME answer' = Nothing \/ \E p : answer' = ValidSaid(p)
      PROVE  ReadsOnlyDevices'
  <2>1. Nothing.is # "on device"
    BY DEF Nothing
  <2>2. \A p : ValidSaid(p).is # "on device"
    BY DEF ValidSaid
  <2>3. answer'.is # "on device"
    BY <1>1, <2>1, <2>2, Zenon
  <2> QED
    BY <2>3 DEF ReadsOnlyDevices
<1>2. ASSUME Asked \/ NextHandle PROVE pc' \notin {"get set", "get", "next"}
  BY <1>2 DEF Asked, NextHandle, GoTo
<1>3. pc \in OnHandle => Current \in Registered
  BY DEF HandlesInUseAreLive
<1>4. ASSUME FindDevices PROVE ReadsInv'
  <2>1. pc' \notin {"get set", "get", "next"}
    BY <1>4 DEF FindDevices
  <2>2. answer'.is # "on device"
    <3>1. CASE Refused
      BY <3>1 DEF Refused, Nothing
    <3>2. ASSUME NEW room, NEW found, FindAll(room, found) PROVE answer'.is # "on device"
      BY <3>2 DEF FindAll, Reported
    <3> QED
      BY <1>4, <3>1, <3>2 DEF FindDevices
  <2> QED
    BY <2>1, <2>2 DEF ReadsInv, ReadsOnlyDevices
<1>5. ASSUME CheckHandle PROVE ReadsInv'
  <2>1. pc' \notin {"get set", "get", "next"}
    BY <1>2, <1>5 DEF CheckHandle, GoTo
  <2>2. answer' = Nothing \/ \E p : answer' = ValidSaid(p)
    BY <1>5 DEF CheckHandle, IsValid
  <2> QED
    BY <1>1, <2>1, <2>2 DEF ReadsInv
<1>6. ASSUME NEW iter_set \in Range(Sets), AskFor(iter_set) PROVE ReadsInv'
  <2>1. CASE SetDevice(Current, iter_set) /\ GoTo("get set")
    <3>1. Current \in Registered
      BY <1>3, <1>6 DEF AskFor, OnHandle
    <3>2. SetIterator(Current, iter_set)
      BY <2>1, <3>1, LiveCalls
    <3>3. answer' = Nothing /\ resized' = resized \ {Current} /\ devices' = devices
      BY <3>2 DEF SetIterator, Position
    <3>4. Current' = Current
      BY <2>1, <3>3 DEF GoTo, Current
    <3> QED
      BY <1>1, <3>3, <3>4 DEF ReadsInv
  <2>2. CASE Refused /\ Asked
    BY <1>1, <1>2, <2>2 DEF Refused, ReadsInv
  <2> QED
    BY <1>6, <2>1, <2>2 DEF AskFor
<1>7. ASSUME NEW iter_set \in Range(Sets), PrintAsked(iter_set) PROVE ReadsInv'
  <2>1. pc = "get set" /\ GetFromDevice(Current) /\ Asked
    BY <1>7 DEF PrintAsked
  <2>2. Current \in Registered /\ Current \notin resized
    BY <1>3, <2>1 DEF OnHandle, ReadsInv
  <2> QED
    BY <1>2, <2>1, <2>2, GetReadsDevice, LiveCalls DEF ReadsInv
<1>8. ASSUME BeginListing PROVE ReadsInv'
  <2>1. Current \in Registered
    BY <1>3, <1>8 DEF BeginListing, OnHandle
  <2>2. RewindIterator(Current)
    BY <1>8, <2>1, LiveCalls DEF BeginListing
  <2>3. answer' = Nothing /\ resized' = resized \ {Current} /\ devices' = devices
    BY <2>2 DEF RewindIterator, Position
  <2>4. Current' = Current
    BY <1>8, <2>3 DEF BeginListing, GoTo, Current
  <2> QED
    BY <1>1, <2>3, <2>4 DEF ReadsInv
<1>9. ASSUME PrintListed \/ ReadListed PROVE ReadsInv'
  <2>1. pc = "get" /\ GetFromDevice(Current)
    BY <1>9 DEF PrintListed, ReadListed
  <2>2. Current \in Registered /\ Current \notin resized
    BY <1>3, <2>1 DEF OnHandle, ReadsInv
  <2>3. ReadsOnlyDevices'
    BY <2>1, <2>2, GetReadsDevice, LiveCalls
  <2>4. pc' \in {"get set", "get", "next"} => index' = index
    BY <1>2, <1>9 DEF PrintListed, ReadListed, GoTo
  <2>5. devices' = devices /\ resized' = resized
    BY <2>1 DEF GetFromDevice, ReadIterator, OnFreedMemory
  <2> QED
    BY <2>2, <2>3, <2>4, <2>5 DEF ReadsInv, Current
<1>10. ASSUME SliceFull PROVE ReadsInv'
  <2>1. pc' = "set" /\ UNCHANGED <<answer, heap>>
    BY <1>10 DEF SliceFull, ListingReturned, GoTo, vars
  <2> QED
    BY <2>1 DEF ReadsInv, ReadsOnlyDevices, OnDevice, ListSize
<1>11. ASSUME StepListing PROVE ReadsInv'
  <2>1. pc = "next" /\ NextDevice(Current)
    BY <1>11 DEF StepListing
  <2>2. Current \in Registered /\ Current \notin resized
    BY <1>3, <2>1 DEF OnHandle, ReadsInv
  <2>3. ReadsOnlyDevices'
    BY <2>1, <2>2, NextReadsDevice, LiveCalls
  <2>4. pc' \in {"get set", "get", "next"} => index' = index
    BY <1>2, <1>11 DEF StepListing, ListingReturned, GoTo
  <2>5. devices' = devices /\ resized' = resized
    BY <2>1 DEF NextDevice, StepIterator, Position, OnFreedMemory
  <2> QED
    BY <2>2, <2>3, <2>4, <2>5 DEF ReadsInv, Current
<1>12. ASSUME FreeDevices PROVE ReadsInv'
  <2>1. pc' = "done" /\ answer' = Nothing
    BY <1>12 DEF FreeDevices, GoTo, Free, Refused
  <2> QED
    BY <1>1, <2>1 DEF ReadsInv
<1>13. CASE UNCHANGED clientVars
  BY <1>13 DEF clientVars, vars, ReadsInv, ReadsOnlyDevices, OnDevice, ListSize, Current
<1> QED
  BY <1>4, <1>5, <1>6, <1>7, <1>8, <1>9, <1>10, <1>11, <1>12, <1>13 DEF ClientNext

LEMMA ReadsInvariant == ClientSpec => []ReadsInv
<1>1. ClientInit => ReadsInv
  <2> SUFFICES ASSUME ClientInit PROVE ReadsInv
    OBVIOUS
  <2>1. answer = Nothing /\ pc = "find_all"
    BY DEF ClientInit, Init
  <2> QED
    BY <2>1 DEF Nothing, ReadsInv, ReadsOnlyDevices
<1>2. IInv /\ IteratorInv /\ HandlesInUseAreLive /\ ReadsInv /\ [ClientNext]_clientVars => ReadsInv'
  BY ReadsStep
<1>3. ClientSpec => Spec
  BY ProgramsUseTheApi DEF UsesTheApi
<1> QED
  BY <1>1, <1>2, <1>3, InductiveInvariant, IteratorInvariant, HandlesInUse, PTL
  DEF ClientSpec

(* Whatever order a program lists and asks in, a call that succeeded on an   *)
(* iterator left or read it on a device of the list: a program that begins   *)
(* or sets before it reads never reads beyond (c_api_basic_usage.c:96-166,   *)
(* root.zig:240-259).                                                        *)
THEOREM OnlyDevicesRead == ClientSpec => []ReadsOnlyDevices
<1>1. ReadsInv => ReadsOnlyDevices
  BY DEF ReadsInv
<1> QED
  BY <1>1, ReadsInvariant, PTL

-----------------------------------------------------------------------------
(* What the programs keep and print. *)

Line ==
  [handle : Nat, is : {"listed"}, usb : Nat]
    \cup [handle : Nat, is : {"found"}, asked : Range(Sets), usb : Nat]
    \cup [handle : Nat, is : {"missing", "unread"}, asked : Range(Sets), text : Text]

\* The program has a set to ask for.
Asking == pc \in {"set", "get set"}

\* A program that asks has a set left to ask for; what it printed are lines.
ClientTypeInv ==
  /\ pc \in Call
  /\ index \in 1..(ArraySize + 1)
  /\ asked \in 0..4
  /\ Asking => asked < 4
  /\ program = "zig" /\ pc \in {"begin", "get", "next"} => asked < 4
  /\ usb_devices \in Seq(Nat)
  /\ error_message_size \in 1..ErrorBuffer[program]
  /\ error_message \in Text /\ error_message.length < ErrorBuffer[program]
  /\ output \in Seq(Line)

LEMMA SetsAre ==
  /\ Range(Sets) = {"main", "display", "fpga", "hub"}
  /\ Len(Sets) = 4
BY DEF Sets, Range

\* What a handle can have printed about it.
MostLines == MaxUsb + 4

LEMMA MaxOutputIsNat ==
  /\ MostLines \in Nat /\ ArraySize \in Nat
  /\ MaxOutput = ArraySize * MostLines /\ MaxOutput \in Nat
<1>1. ArraySize \in Nat /\ MaxUsb \in Nat
  BY BoundsAssumption, UsbAssumption DEF BoundsAssumption, UsbAssumption
<1>2. MostLines \in Nat /\ MaxOutput = ArraySize * MostLines
  BY <1>1, SetsAre DEF MostLines, MaxOutput
<1>3. ASSUME NEW a \in Nat, NEW b \in Nat PROVE a * b \in Nat
  OBVIOUS
<1> QED
  BY <1>1, <1>2, <1>3

LEMMA SayLines ==
  ASSUME output \in Seq(Line), NEW lines \in Seq(Line), Say(lines)
  PROVE  output' \in Seq(Line)
BY DEF Say

\* What a copy of the text of a missing device leaves in the buffer.
LEMMA CopiedText ==
  ASSUME NEW says \in Says, NEW size \in Nat \ {0}, NEW src,
         src = [says |-> says, length |-> TextLength[says]]
  PROVE  /\ Copied(size, src) \in Text
         /\ Copied(size, src).says = says
         /\ Copied(size, src).length = IF TextLength[says] < size - 1
                                       THEN TextLength[says] ELSE size - 1
         /\ SizeAfter(size, src) \in 1..size
         /\ SizeAfter(size, src) = Copied(size, src).length + 1
<1> DEFINE n == IF TextLength[says] < size - 1 THEN TextLength[says] ELSE size - 1
<1>1. TextLength[says] \in Nat
  BY TextAssumption DEF TextAssumption
<1>2. Copied(size, src) = [says |-> says, length |-> n]
  BY DEF Copied
<1>3. n \in 0..(size - 1)
  BY <1>1
<1> HIDE DEF n
<1>4. Copied(size, src) \in Text
  BY <1>2, <1>3 DEF Text
<1>5. SizeAfter(size, src) = n + 1
  BY <1>2 DEF SizeAfter
<1> QED
  BY <1>2, <1>3, <1>4, <1>5 DEF n

LEMMA NotFoundIsText ==
  ASSUME IInv, Current \in Registered, NEW iter_set \in Range(Sets)
  PROVE  \E says \in Says :
           NotFound(iter_set) = [says |-> says, length |-> TextLength[says]] /\ says.of = iter_set
<1> DEFINE says == [of |-> iter_set, standalone |-> heap[Current].device.standalone]
<1>1. heap[Current].device \in Device
  BY RegistryDistinct DEF IInv, Handle
<1>2. heap[Current].device.standalone \in BOOLEAN
  BY <1>1, StandaloneAssumption DEF StandaloneAssumption
<1> QED
  BY <1>2, SetsAre DEF NotFound, Says

\* Where a program goes on once a set was asked for.
LEMMA AskedTypes ==
  ASSUME AtFilledEntry, count \in 0..ArraySize, Asking, ClientTypeInv, Asked, UNCHANGED program
  PROVE  /\ pc' \in Call /\ index' \in 1..(ArraySize + 1) /\ asked' \in 0..4
         /\ Asking' => asked' < 4
         /\ ~(program' = "zig" /\ pc' \in {"begin", "get", "next"})
<1>1. asked \in 0..3 /\ asked' = asked + 1 /\ index \in 1..count
  <2>1. pc \in OnHandle
    BY DEF Asking, OnHandle
  <2>2. asked < 4 /\ asked \in 0..4
    BY DEF ClientTypeInv
  <2> QED
    BY <2>1, <2>2 DEF Asked, AtFilledEntry
<1>2. index \in 1..ArraySize /\ ArraySize \in Nat
  BY <1>1, BoundsAssumption DEF BoundsAssumption
<1>3. asked' \in 0..4 /\ (asked + 1 < Len(Sets) <=> asked' < 4)
  BY <1>1, SetsAre
<1>4. index' \in {index, index + 1}
  BY DEF Asked, GoTo, NextHandle
<1>5. index' \in 1..(ArraySize + 1)
  BY <1>2, <1>4
<1>6. /\ pc' \in {"set", "begin", "is_valid", "free", "done"}
      /\ pc' = "set" => asked + 1 < Len(Sets)
      /\ pc' = "begin" => program = "c"
  BY DEF Asked, GoTo, NextHandle
<1>7. program' = program /\ pc' \in Call
  BY <1>6 DEF Call
<1> QED
  <2>1. Asking' => pc' = "set"
    BY <1>6 DEF Asking
  <2>2. ~(program' = "zig" /\ pc' \in {"begin", "get", "next"})
    BY <1>6, <1>7
  <2> QED
    BY <1>3, <1>5, <1>6, <1>7, <2>1, <2>2

\* A program at a filled entry stays at it or goes on to the one behind it.
LEMMA IndexStaysSmall ==
  ASSUME IInv, AtFilledEntry, pc \in OnHandle, GoesOn
  PROVE  index' \in 1..(ArraySize + 1)
<1>1. index \in 1..count /\ count \in 0..ArraySize
  BY DEF AtFilledEntry, IInv, TypeOK
<1>2. index' = index \/ index' = index + 1
  BY DEF GoesOn, NextHandle
<1>3. index \in 1..ArraySize /\ ArraySize \in Nat
  BY <1>1, BoundsAssumption DEF BoundsAssumption
<1> QED
  BY <1>2, <1>3

\* A step that neither asks nor lists.
LEMMA PlainTypes ==
  ASSUME ClientTypeInv, UNCHANGED <<program, usb_devices, errorVars, output>>,
         pc' \in Call, index' \in 1..(ArraySize + 1), asked' \in 0..4,
         Asking' => asked' < 4,
         program' = "zig" /\ pc' \in {"begin", "get", "next"} => asked' < 4
  PROVE  ClientTypeInv'
BY DEF ClientTypeInv, errorVars

LEMMA AskForTypes ==
  ASSUME IInv, AtFilledEntry, HandlesInUseAreLive, ClientTypeInv,
         NEW iter_set \in Range(Sets), AskFor(iter_set)
  PROVE  ClientTypeInv'
<1>1. /\ Asking /\ pc \in OnHandle /\ UNCHANGED <<program, usb_devices>>
      /\ program \in Program
  BY DEF AskFor, Asking, OnHandle, AtFilledEntry
<1>2. Current \in Registered /\ index \in 1..count
  BY <1>1 DEF HandlesInUseAreLive
<1>3. CASE SetDevice(Current, iter_set) /\ GoTo("get set") /\ UNCHANGED <<asked, errorVars, output>>
  <2>1. pc' = "get set" /\ index' = index /\ asked' = asked
    BY <1>3 DEF GoTo
  <2>2. pc' \in Call /\ Asking' /\ pc' \notin {"begin", "get", "next"}
    BY <2>1 DEF Call, Asking
  <2>3. asked < 4 /\ asked \in 0..4 /\ index \in 1..(ArraySize + 1)
    BY <1>1 DEF ClientTypeInv
  <2> QED
    BY <1>1, <1>3, <2>1, <2>2, <2>3, PlainTypes
<1>4. CASE /\ Refused /\ Asked
           /\ IF CanCopy(error_message_size)
              THEN /\ error_message' = Copied(error_message_size, NotFound(iter_set))
                   /\ error_message_size' = SizeAfter(error_message_size, NotFound(iter_set))
              ELSE UNCHANGED errorVars
           /\ Say(<<Missing(iter_set, error_message')>>)
  <2>1. error_message_size \in Nat \ {0} /\ error_message_size <= ErrorBuffer[program]
    BY BufferAssumption, <1>1 DEF ClientTypeInv, BufferAssumption
  <2>2. CanCopy(error_message_size)
    BY <2>1 DEF CanCopy
  <2>3. PICK says \in Says :
          NotFound(iter_set) = [says |-> says, length |-> TextLength[says]] /\ says.of = iter_set
    BY <1>2, NotFoundIsText
  <2>4. PICK src : src = NotFound(iter_set)
    OBVIOUS
  <2>5. /\ error_message' = Copied(error_message_size, src)
        /\ error_message_size' = SizeAfter(error_message_size, src)
    BY <1>4, <2>2, <2>4
  <2>6. TextLength[says] \in Nat
    BY TextAssumption DEF TextAssumption
  <2>7. /\ error_message' \in Text
        /\ error_message_size' \in 1..error_message_size
        /\ error_message_size' = error_message'.length + 1
    BY <2>1, <2>3, <2>4, <2>5, CopiedText
  <2>8. ErrorBuffer[program] \in Nat
    BY BufferAssumption, <1>1 DEF BufferAssumption
  <2>9. error_message'.length \in Nat
    BY <2>7 DEF Text
  <2>10. /\ error_message_size' \in 1..ErrorBuffer[program]
         /\ error_message'.length < ErrorBuffer[program]
    BY <2>1, <2>7, <2>8, <2>9
  <2>11. Missing(iter_set, error_message') \in Line
    <3>1. index \in Nat
      BY DEF AtFilledEntry
    <3> QED
      BY <2>7, <3>1 DEF Missing, Line
  <2>12. <<Missing(iter_set, error_message')>> \in Seq(Line)
    BY <2>11
  <2>13. output' \in Seq(Line)
    BY <1>4, <2>12, SayLines DEF ClientTypeInv
  <2>14. count \in 0..ArraySize
    BY DEF IInv, TypeOK
  <2>15. /\ pc' \in Call /\ index' \in 1..(ArraySize + 1) /\ asked' \in 0..4
         /\ Asking' => asked' < 4
         /\ ~(program' = "zig" /\ pc' \in {"begin", "get", "next"})
    BY <1>1, <1>4, <2>14, AskedTypes
  <2>16. usb_devices' \in Seq(Nat)
    BY <1>1 DEF ClientTypeInv
  <2>17. /\ error_message_size' \in 1..ErrorBuffer[program']
         /\ error_message'.length < ErrorBuffer[program']
    BY <1>1, <2>10
  <2> QED
    BY <2>7, <2>13, <2>15, <2>16, <2>17, Zenon DEF ClientTypeInv
<1> QED
  BY <1>3, <1>4 DEF AskFor

LEMMA UsbIsNat ==
  ASSUME IInv, Current \in Registered
  PROVE  Usb \in Nat
<1>1. heap[Current] \in Handle
  BY RegistryDistinct DEF IInv
<1> QED
  BY <1>1 DEF Usb, Handle, Iterator

LEMMA PrintAskedTypes ==
  ASSUME IInv, AtFilledEntry, HandlesInUseAreLive, ClientTypeInv,
         NEW iter_set \in Range(Sets), PrintAsked(iter_set)
  PROVE  ClientTypeInv'
<1>1. /\ Asking /\ pc \in OnHandle /\ Asked
      /\ UNCHANGED <<program, usb_devices, errorVars>>
  BY DEF PrintAsked, Asking, OnHandle
<1>2. Current \in Registered /\ index \in Nat
  BY <1>1 DEF HandlesInUseAreLive, AtFilledEntry
<1>3. PICK lines \in {<<Found(iter_set, Usb)>>, <<>>, <<Unread(iter_set, error_message)>>} : Say(lines)
  BY DEF PrintAsked
<1>4. Found(iter_set, Usb) \in Line /\ Unread(iter_set, error_message) \in Line
  BY <1>2, UsbIsNat DEF Found, Unread, Line, ClientTypeInv
<1>5. lines \in Seq(Line)
  <2>1. <<Found(iter_set, Usb)>> \in Seq(Line)
    BY <1>4
  <2>2. <<Unread(iter_set, error_message)>> \in Seq(Line)
    BY <1>4
  <2>3. <<>> \in Seq(Line)
    OBVIOUS
  <2> QED
    BY <2>1, <2>2, <2>3, Zenon
<1>6. output' \in Seq(Line)
  BY <1>3, <1>5, SayLines DEF ClientTypeInv
<1>7. count \in 0..ArraySize
  BY DEF IInv, TypeOK
<1>8. /\ pc' \in Call /\ index' \in 1..(ArraySize + 1) /\ asked' \in 0..4
      /\ Asking' => asked' < 4
      /\ ~(program' = "zig" /\ pc' \in {"begin", "get", "next"})
  BY <1>1, <1>7, AskedTypes
<1> QED
  BY <1>1, <1>6, <1>8, Zenon DEF ClientTypeInv, errorVars

\* The listing is printed and the error buffer set up anew.
LEMMA ListingTypes ==
  ASSUME ClientTypeInv, AtFilledEntry, ListingReturned, program = "zig",
         pc \in {"get", "next"}, UNCHANGED <<program, asked, usb_devices>>
  PROVE  ClientTypeInv'
<1> DEFINE lines == [k \in DOMAIN usb_devices |-> Listed(usb_devices[k])]
<1>1. usb_devices \in Seq(Nat) /\ index \in Nat
  BY DEF ClientTypeInv, AtFilledEntry
<1>2. \A k \in DOMAIN usb_devices : Listed(usb_devices[k]) \in Line
  BY <1>1 DEF Listed, Line
<1>3. lines \in Seq(Line)
  BY <1>1, <1>2
<1>4. Say(lines)
  BY DEF ListingReturned
<1> HIDE DEF lines
<1>5. output' \in Seq(Line)
  BY <1>3, <1>4, SayLines DEF ClientTypeInv
<1>6. ErrorBuffer[program] \in Nat \ {0}
  BY BufferAssumption DEF AtFilledEntry, BufferAssumption
<1>7. error_message' \in Text /\ error_message'.length = 0
  BY DEF ListingReturned, Empty, Text
<1>8. /\ error_message_size' \in 1..ErrorBuffer[program]
      /\ error_message'.length < ErrorBuffer[program]
  BY <1>6, <1>7 DEF ListingReturned
<1>9. /\ pc' = "set" /\ index' = index
      /\ index \in 1..(ArraySize + 1) /\ asked \in 0..4 /\ asked < 4
  BY DEF ListingReturned, GoTo, ClientTypeInv
<1>10. pc' \in Call /\ pc' \notin {"begin", "get", "next"}
  BY <1>9 DEF Call
<1> QED
  BY <1>1, <1>5, <1>7, <1>8, <1>9, <1>10, Zenon DEF ClientTypeInv

LEMMA ListTypes ==
  ASSUME IInv, AtFilledEntry, HandlesInUseAreLive, ClientTypeInv,
         PrintListed \/ ReadListed \/ SliceFull \/ StepListing
  PROVE  ClientTypeInv'
<1>1. /\ pc \in {"get", "next"} /\ pc \in OnHandle /\ program' = program /\ asked' = asked
  BY DEF PrintListed, ReadListed, SliceFull, StepListing, OnHandle
<1>2. Current \in Registered /\ index \in Nat
  BY <1>1 DEF HandlesInUseAreLive, AtFilledEntry
<1>3. Usb \in Nat /\ Listed(Usb) \in Line
  BY <1>2, UsbIsNat DEF Listed, Line
<1>4. asked \in 0..4 /\ (program = "zig" => asked < 4)
  BY <1>1 DEF ClientTypeInv
<1>5. GoesOn => index' \in 1..(ArraySize + 1)
  BY <1>1, IndexStaysSmall
<1>6. CASE PrintListed
  <2>1. pc' \in {"next", "is_valid", "free", "done"} /\ GoesOn /\ program = "c"
    BY <1>6 DEF PrintListed, GoTo, NextHandle, GoesOn, OnHandle
  <2>2. pc' \in Call /\ ~Asking' /\ program # "zig"
    BY <2>1 DEF Call, Asking
  <2>3. output' \in Seq(Line)
    <3>1. <<Listed(Usb)>> \in Seq(Line)
      BY <1>3
    <3> QED
      BY <1>6, <3>1, SayLines DEF PrintListed, ClientTypeInv
  <2>4. UNCHANGED <<usb_devices, error_message_size, error_message>>
    BY <1>6 DEF PrintListed, errorVars
  <2> QED
    BY <1>1, <1>4, <1>5, <2>1, <2>2, <2>3, <2>4, Zenon DEF ClientTypeInv
<1>7. CASE ReadListed
  <2>1. pc' \in {"next", "gave up"} /\ GoesOn /\ program = "zig"
    BY <1>7 DEF ReadListed, GoTo, GoesOn, OnHandle
  <2>2. pc' \in Call /\ ~Asking'
    BY <2>1 DEF Call, Asking
  <2>3. usb_devices' \in Seq(Nat)
    <3>1. usb_devices' = usb_devices \/ usb_devices' = Append(usb_devices, Usb)
      BY <1>7 DEF ReadListed
    <3>2. usb_devices \in Seq(Nat)
      BY DEF ClientTypeInv
    <3> QED
      BY <1>3, <3>1, <3>2
  <2>4. UNCHANGED <<output, error_message_size, error_message>>
    BY <1>7 DEF ReadListed, errorVars
  <2> QED
    BY <1>1, <1>4, <1>5, <2>1, <2>2, <2>3, <2>4, Zenon DEF ClientTypeInv
<1>8. CASE SliceFull
  BY <1>8, ListingTypes DEF SliceFull
<1>9. CASE StepListing
  <2>1. CASE pc' = "get" /\ index' = index /\ UNCHANGED <<errorVars, output>>
    <3>1. pc' \in Call /\ ~Asking'
      BY <2>1 DEF Call, Asking
    <3>2. usb_devices' = usb_devices /\ index \in 1..(ArraySize + 1)
      BY <1>9 DEF StepListing, ClientTypeInv
    <3>3. asked' \in 0..4 /\ (program' = "zig" => asked' < 4)
      BY <1>1, <1>4, Zenon
    <3>4. index' \in 1..(ArraySize + 1)
      BY <2>1, <3>2
    <3> QED
      BY <1>1, <2>1, <3>1, <3>2, <3>3, <3>4, PlainTypes, Zenon
  <2>2. CASE program = "c" /\ NextHandle /\ UNCHANGED <<errorVars, output>>
    <3>1. pc' \in {"is_valid", "free", "done"} /\ GoesOn
      BY <2>2 DEF NextHandle, GoesOn
    <3>2. pc' \in Call /\ ~Asking' /\ pc' \notin {"begin", "get", "next"}
      BY <3>1 DEF Call, Asking
    <3>3. usb_devices' = usb_devices
      BY <1>9 DEF StepListing
    <3>4. asked' \in 0..4
      BY <1>1, <1>4, Zenon
    <3> QED
      BY <1>1, <1>5, <2>2, <3>1, <3>2, <3>3, <3>4, PlainTypes, Zenon
  <2>3. CASE program = "zig" /\ ListingReturned
    BY <1>1, <1>9, <2>3, ListingTypes DEF StepListing
  <2>4. program = "c" \/ program = "zig"
    BY DEF AtFilledEntry, Program
  <2> QED
    BY <1>9, <2>1, <2>2, <2>3, <2>4 DEF StepListing, GoTo
<1> QED
  BY <1>6, <1>7, <1>8, <1>9

LEMMA ClientTypeStep ==
  ASSUME IInv, AtFilledEntry, HandlesInUseAreLive, ClientTypeInv, [ClientNext]_clientVars
  PROVE  ClientTypeInv'
<1>1. asked \in 0..4 /\ index \in 1..(ArraySize + 1)
  BY DEF ClientTypeInv
<1>2. ASSUME FindDevices \/ FreeDevices PROVE ClientTypeInv'
  <2>1. /\ pc' \in {"is_valid", "free", "done"} /\ index' = index /\ asked' = asked
        /\ UNCHANGED <<program, usb_devices, errorVars, output>>
    BY <1>2 DEF FindDevices, FreeDevices, GoTo
  <2>2. pc' \in Call /\ ~Asking' /\ pc' \notin {"begin", "get", "next"}
    BY <2>1 DEF Call, Asking
  <2> QED
    BY <1>1, <2>1, <2>2, PlainTypes
<1>3. ASSUME CheckHandle PROVE ClientTypeInv'
  <2>1. /\ pc' \in {"set", "begin", "gave up", "is_valid", "free", "done"}
        /\ GoesOn /\ pc \in OnHandle
        /\ asked' = 0 /\ UNCHANGED <<program, usb_devices, errorVars, output>>
    BY <1>3 DEF CheckHandle, GoTo, NextHandle, GoesOn, OnHandle
  <2>2. pc' \in Call
    BY <2>1 DEF Call
  <2>3. index' \in 1..(ArraySize + 1)
    BY <2>1, IndexStaysSmall
  <2>4. asked' \in 0..4 /\ asked' < 4
    <3>1. asked' = 0
      BY <2>1
    <3> QED
      BY <3>1
  <2> QED
    BY <2>1, <2>2, <2>3, <2>4, PlainTypes
<1>4. ASSUME BeginListing PROVE ClientTypeInv'
  <2>1. /\ pc = "begin" /\ pc' = "get" /\ index' = index /\ asked' = asked /\ usb_devices' = <<>>
        /\ UNCHANGED <<program, error_message_size, error_message, output>>
    BY <1>4 DEF BeginListing, GoTo, errorVars
  <2>2. pc' \in Call /\ ~Asking' /\ usb_devices' \in Seq(Nat)
    BY <2>1 DEF Call, Asking
  <2>3. program = "zig" => asked < 4
    BY <2>1 DEF ClientTypeInv
  <2> QED
    BY <1>1, <2>1, <2>2, <2>3, Zenon DEF ClientTypeInv
<1>5. CASE UNCHANGED clientVars
  BY <1>5 DEF clientVars, errorVars, ClientTypeInv, Asking
<1> QED
  BY <1>2, <1>3, <1>4, <1>5, AskForTypes, PrintAskedTypes, ListTypes DEF ClientNext

LEMMA ClientTypeInvariant == ClientSpec => []ClientTypeInv
<1>1. ClientInit => ClientTypeInv
  <2> SUFFICES ASSUME ClientInit PROVE ClientTypeInv
    OBVIOUS
  <2>1. /\ pc = "find_all" /\ index = 1 /\ asked = 0 /\ usb_devices = <<>> /\ output = <<>>
        /\ error_message_size = ErrorBuffer[program] /\ error_message = Empty
        /\ program \in Program
    BY DEF ClientInit
  <2>2. pc \in Call /\ ~Asking /\ pc \notin {"begin", "get", "next"}
    BY <2>1 DEF Call, Asking
  <2>3. index \in 1..(ArraySize + 1) /\ asked \in 0..4
    BY <2>1, BoundsAssumption DEF BoundsAssumption
  <2>4. usb_devices \in Seq(Nat) /\ output \in Seq(Line)
    BY <2>1
  <2>5. ErrorBuffer[program] \in Nat \ {0}
    BY <2>1, BufferAssumption DEF BufferAssumption
  <2>6. error_message \in Text /\ error_message.length = 0
    BY <2>1 DEF Empty, Text
  <2>7. error_message_size \in 1..ErrorBuffer[program] /\ error_message.length < ErrorBuffer[program]
    BY <2>1, <2>5, <2>6
  <2> QED
    BY <2>2, <2>3, <2>4, <2>6, <2>7, Zenon DEF ClientTypeInv
<1>2. IInv /\ AtFilledEntry /\ HandlesInUseAreLive /\ ClientTypeInv /\ [ClientNext]_clientVars
        => ClientTypeInv'
  BY ClientTypeStep
<1> QED
  BY <1>1, <1>2, ClientInvariant, HandlesInUse, PTL DEF ClientSpec

(* The programs' counters, buffers and output keep their types: above all,   *)
(* an index never passes the entry behind the last, no more than the four    *)
(* iterator sets are asked for, and the size that goes back and forth with   *)
(* error_message stays one the buffer has room for                           *)
(* (c_api_basic_usage.c:23-175, root.zig:155-415).                           *)
THEOREM ClientTypes == ClientSpec => []ClientTypeOK
<1>1. IInv /\ AtFilledEntry /\ ClientTypeInv => ClientTypeOK
  <2> SUFFICES ASSUME IInv, AtFilledEntry, ClientTypeInv PROVE ClientTypeOK
    OBVIOUS
  <2>1. TypeOK /\ program \in Program
    BY DEF IInv, AtFilledEntry
  <2>2. asked \in 0..Len(Sets)
    BY SetsAre DEF ClientTypeInv
  <2>3. \A k \in DOMAIN output : IsLine(output[k])
    BY DEF ClientTypeInv, Line, IsLine
  <2> QED
    BY <2>1, <2>2, <2>3 DEF ClientTypeInv, ClientTypeOK
<1> QED
  BY <1>1, ClientInvariant, ClientTypeInvariant, PTL

-----------------------------------------------------------------------------
(* What stays in the registry. *)

\* The C example has freed what it was given.
Freed == program = "c" /\ pc = "done"

\* What the C example leaves of so many found devices.
LeftOf(found) == IF found > Room["c"] THEN found - Room["c"] ELSE 0

\* Before the first scan nothing is registered; after it, until it is freed, all that
\* was found, and as much of it as fits was reported.
StaysInv ==
  /\ pc = "find_all" => Registered = {} /\ DOMAIN scan = {}
  /\ ~Freed => {ID(a) : a \in Registered} = DOMAIN scan
  /\ ~Ended /\ pc # "find_all" =>
       LET found == Cardinality(DOMAIN scan)
       IN  count = IF Room[program] < found THEN Room[program] ELSE found
  /\ IF program = "c" THEN pc # "gave up" ELSE pc # "free"
  /\ Freed => Cardinality(Registered) = LeftOf(Cardinality(DOMAIN scan))

\* All other calls leave the registry as it is.
LEMMA OtherCallsAreQuiet ==
  ASSUME IInv, AtFilledEntry, ClientNext, ~FindDevices, ~FreeDevices
  PROVE  /\ Quiet /\ program' = program
         /\ pc \in OnHandle /\ pc' # "find_all"
         /\ IF program = "c" THEN pc' \notin {"done", "gave up"} ELSE pc' # "free"
<1>0. program \in {"c", "zig"} /\ TypeOK /\ OneHandlePerDevice
  BY DEF AtFilledEntry, Program, IInv
<1>1. ASSUME Asked
      PROVE  /\ pc' # "find_all"
             /\ IF program = "c" THEN pc' \notin {"done", "gave up"} ELSE pc' # "free"
  BY <1>1 DEF Asked, NextHandle, GoTo
<1>2. ASSUME NextHandle
      PROVE  /\ pc' # "find_all"
             /\ IF program = "c" THEN pc' \notin {"done", "gave up"} ELSE pc' # "free"
  BY <1>2 DEF NextHandle
<1>3. CASE CheckHandle
  <2>1. IsValid(Current)
    BY <1>3 DEF CheckHandle
  <2>2. Quiet
    BY <1>0, <2>1, CallIsQuiet
  <2> QED
    BY <1>2, <1>3, <2>2 DEF CheckHandle, GoTo, OnHandle
<1>4. ASSUME NEW iter_set \in Range(Sets), AskFor(iter_set)
      PROVE  /\ Quiet /\ program' = program
             /\ pc \in OnHandle /\ pc' # "find_all"
             /\ IF program = "c" THEN pc' \notin {"done", "gave up"} ELSE pc' # "free"
  <2>1. iter_set \in IterSet
    BY SetsAre DEF IterSet
  <2>2. SetDevice(Current, iter_set) \/ Refused
    BY <1>4 DEF AskFor
  <2>3. Quiet
    BY <1>0, <2>1, <2>2, CallIsQuiet
  <2> QED
    BY <1>1, <1>4, <2>3 DEF AskFor, GoTo, OnHandle
<1>5. ASSUME NEW iter_set \in Range(Sets), PrintAsked(iter_set)
      PROVE  /\ Quiet /\ program' = program
             /\ pc \in OnHandle /\ pc' # "find_all"
             /\ IF program = "c" THEN pc' \notin {"done", "gave up"} ELSE pc' # "free"
  <2>1. GetFromDevice(Current)
    BY <1>5 DEF PrintAsked
  <2>2. Quiet
    BY <1>0, <2>1, CallIsQuiet
  <2> QED
    BY <1>1, <1>5, <2>2 DEF PrintAsked, OnHandle
<1>6. CASE BeginListing \/ StepListing
  <2>1. Begin(Current) \/ NextDevice(Current)
    BY <1>6 DEF BeginListing, StepListing
  <2>2. Quiet
    BY <1>0, <2>1, CallIsQuiet
  <2> QED
    BY <1>2, <1>6, <2>2 DEF BeginListing, StepListing, ListingReturned, GoTo, OnHandle
<1>7. CASE PrintListed \/ ReadListed
  <2>1. GetFromDevice(Current)
    BY <1>7 DEF PrintListed, ReadListed
  <2>2. Quiet
    BY <1>0, <2>1, CallIsQuiet
  <2> QED
    BY <1>2, <1>7, <2>2 DEF PrintListed, ReadListed, GoTo, OnHandle
<1>8. CASE SliceFull
  <2>1. Quiet
    BY <1>8 DEF SliceFull, vars, Quiet
  <2> QED
    BY <1>8, <2>1 DEF SliceFull, ListingReturned, GoTo, OnHandle
<1> QED
  BY <1>3, <1>4, <1>5, <1>6, <1>7, <1>8 DEF ClientNext

LEMMA FindDevicesStays ==
  ASSUME IInv, AtFilledEntry, StaysInv, FindDevices, EveryDeviceReported'
  PROVE  StaysInv'
<1>1. /\ pc = "find_all" /\ program' = program /\ program \in Program
      /\ TypeOK /\ OneHandlePerDevice
  BY DEF FindDevices, AtFilledEntry, IInv
<1>2. ASSUME NEW found \in Scans, FindAll(Room[program], found),
             pc' = IF count' > 0 THEN "is_valid" ELSE IF program = "c" THEN "free" ELSE "done"
      PROVE  StaysInv'
  <2>1. PICK room : room = Room[program]
    OBVIOUS
  <2>2. room \in 0..ArraySize
    BY <1>1, <2>1, RoomAssumption, BoundsAssumption DEF RoomAssumption, BoundsAssumption
  <2>3. FindAll(room, found)
    BY <1>2, <2>1
  <2>4. {ID(a)' : a \in Registered'} = DOMAIN scan'
    BY <1>1, <2>2, <2>3, FoundAreRegistered DEF FindAll
  <2>5. answer' = Reported(room)
    BY <2>3 DEF FindAll
  <2>6. LET n == Cardinality(DOMAIN scan') IN count' = IF room < n THEN room ELSE n
    BY <2>5 DEF EveryDeviceReported, Reported
  <2>7. /\ pc' # "find_all" /\ ~(program = "c" /\ pc' \in {"done", "gave up"})
        /\ program # "c" => pc' # "free"
    BY <1>2
  <2>8. ~Freed' /\ program' = program
    BY <1>1, <2>7 DEF Freed
  <2> QED
    BY <2>1, <2>4, <2>6, <2>7, <2>8 DEF StaysInv
<1>3. ASSUME Refused, pc' = "done" PROVE StaysInv'
  <2>1. Registered = {} /\ DOMAIN scan = {}
    BY <1>1 DEF StaysInv
  <2>2. Registered' = {} /\ DOMAIN scan' = {}
    BY <1>3, <2>1 DEF Refused, Registered
  <2>3. Cardinality(Registered') = 0 /\ Cardinality(DOMAIN scan') = 0
    BY <2>2, FS_EmptySet
  <2>4. LeftOf(0) = 0
    <3>1. Room["c"] \in Nat
      BY RoomAssumption DEF RoomAssumption, Program
    <3> QED
      BY <3>1 DEF LeftOf
  <2>5. {ID(a)' : a \in Registered'} = DOMAIN scan'
    BY <2>2
  <2> QED
    BY <1>3, <2>2, <2>3, <2>4, <2>5 DEF StaysInv, Ended
<1> QED
  BY <1>2, <1>3 DEF FindDevices

LEMMA FreeDevicesStays ==
  ASSUME IInv, AtFilledEntry, ReportedHandlesAreLive, StaysInv, FreeDevices
  PROVE  StaysInv'
<1>1. /\ pc = "free" /\ pc' = "done" /\ program' = program /\ program \in Program
      /\ TypeOK /\ OneHandlePerDevice
  BY DEF FreeDevices, AtFilledEntry, IInv, GoTo
<1>2. ~Freed /\ ~Ended
  BY <1>1 DEF Freed, Ended
<1> DEFINE found == Cardinality(DOMAIN scan)
<1>3. /\ IsFiniteSet(Registered) /\ found \in Nat
      /\ Cardinality(Registered) = found
      /\ {ID(a) : a \in Registered} = DOMAIN scan
  BY <1>1, <1>2, RegisteredCardinality DEF StaysInv
<1>4. /\ count = IF Room[program] < found THEN Room[program] ELSE found
      /\ Room[program] \in Nat \ {0} /\ count \in Nat /\ count <= ArraySize
  <2>1. count = IF Room[program] < found THEN Room[program] ELSE found
    BY <1>1, <1>2 DEF StaysInv
  <2>2. Room[program] \in 1..ArraySize
    BY <1>1, RoomAssumption DEF RoomAssumption
  <2>3. Room[program] \in Nat \ {0} /\ count \in Nat /\ count <= ArraySize
    BY <1>1, <2>2, BoundsAssumption DEF BoundsAssumption, TypeOK
  <2> QED
    BY <2>1, <2>3
<1>5. /\ scan' = scan
      /\ Cardinality(Registered') = found - count
      /\ \A a \in Registered' : a \in Registered /\ ID(a)' = ID(a)
      /\ count = 0 => Registered' = Registered
  <2>1. CASE count = 0
    <3>1. Refused
      BY <2>1 DEF FreeDevices
    <3>2. Registered' = Registered /\ scan' = scan /\ \A a \in Registered : ID(a)' = ID(a)
      BY <3>1 DEF Refused, Registered, ID
    <3> QED
      BY <1>3, <2>1, <3>2
  <2>2. CASE count > 0
    <3> DEFINE freed == {devices[i] : i \in 1..count} \ {Null}
               f == [i \in 1..count |-> devices[i]]
    <3>1. Destroy(freed)
      BY <2>2 DEF FreeDevices, Free
    <3>2. \A i \in 1..count : /\ devices[i] # Null /\ devices[i] \in Registered
                              /\ \A j \in 1..count : devices[j] = devices[i] => j = i
      BY <1>2 DEF AtFilledEntry, ReportedHandlesAreLive
    <3>3. Numbers(f, count, freed)
      BY <1>4, <3>2 DEF Numbers
    <3>4. Cardinality(freed) = count
      <4> HIDE DEF freed, f
      <4> QED
        BY <3>3, NumberedCardinality
    <3>5. Registered \cap freed = freed
      BY <3>2
    <3> HIDE DEF freed, f
    <3>6. Registered' = Registered \ freed /\ \A a \in Registered' : ID(a)' = ID(a)
      BY <1>1, <3>1, FreeingKeeps
    <3>7. Cardinality(Registered \ freed) = Cardinality(Registered) - count
      <4>1. Cardinality(Registered \ freed)
              = Cardinality(Registered) - Cardinality(Registered \cap freed)
        BY <1>3, FS_Difference
      <4> QED
        BY <3>4, <3>5, <4>1
    <3>8. scan' = scan
      BY <3>1 DEF Destroy
    <3> QED
      BY <1>3, <2>2, <3>6, <3>7, <3>8
  <2> QED
    BY <1>4, <2>1, <2>2
<1>6. program = "c" => Cardinality(Registered') = LeftOf(Cardinality(DOMAIN scan'))
  <2> SUFFICES ASSUME program = "c" PROVE Cardinality(Registered') = LeftOf(found)
    BY <1>5
  <2>1. PICK room : room = Room["c"]
    OBVIOUS
  <2>2. count = (IF room < found THEN room ELSE found) /\ room \in Nat \ {0}
    BY <1>4, <2>1
  <2>3. Cardinality(Registered') = IF found > room THEN found - room ELSE 0
    <3> HIDE DEF found
    <3> QED
      BY <1>3, <1>5, <2>2
  <2> QED
    BY <2>1, <2>3 DEF LeftOf
<1>7. program = "c"
  BY DEF StaysInv, FreeDevices
<1> QED
  BY <1>1, <1>6, <1>7 DEF StaysInv, Freed, Ended

LEMMA StaysStep ==
  ASSUME IInv, AtFilledEntry, ReportedHandlesAreLive, StaysInv, EveryDeviceReported',
         [ClientNext]_clientVars
  PROVE  StaysInv'
<1>1. ASSUME ClientNext, ~FindDevices, ~FreeDevices PROVE StaysInv'
  <2>1. /\ Quiet /\ program' = program /\ pc \in OnHandle /\ pc' # "find_all"
        /\ IF program = "c" THEN pc' \notin {"done", "gave up"} ELSE pc' # "free"
    BY <1>1, OtherCallsAreQuiet
  <2>2. ~Freed /\ ~Freed' /\ ~Ended /\ pc # "find_all"
    BY <2>1 DEF Freed, OnHandle, Ended
  <2>3. /\ Registered' = Registered /\ \A a \in Registered : ID(a)' = ID(a)
        /\ scan' = scan /\ count' = count
    BY <2>1, QuietKeeps DEF Quiet
  <2>4. {ID(a)' : a \in Registered'} = DOMAIN scan'
    BY <2>2, <2>3 DEF StaysInv
  <2> QED
    BY <2>1, <2>2, <2>3, <2>4 DEF StaysInv
<1>2. CASE UNCHANGED clientVars
  BY <1>2 DEF clientVars, vars, StaysInv, Freed, Ended, Registered, ID
<1> QED
  BY <1>1, <1>2, FindDevicesStays, FreeDevicesStays

(* When the C example has ended, what it leaves in the process-wide registry *)
(* are just the devices that did not fit its array; the Zig test, which the  *)
(* binding gives no way to free a handle, leaves all of them                 *)
(* (cfwfinder.cpp:89-94, 120-135, c_api_basic_usage.c:169).                  *)
THEOREM WhatStays == ClientSpec => []OnlyUnreportedHandlesStay
<1>1. ClientInit => StaysInv
  <2> SUFFICES ASSUME ClientInit PROVE StaysInv
    OBVIOUS
  <2>1. fw_devices = <<>> /\ DOMAIN scan = {} /\ pc = "find_all"
    BY DEF ClientInit, Init
  <2>2. Registered = {}
    BY <2>1 DEF Registered, Range
  <2> QED
    BY <2>1, <2>2 DEF StaysInv, Freed, Ended
<1>2. /\ IInv /\ AtFilledEntry /\ ReportedHandlesAreLive /\ StaysInv /\ EveryDeviceReported'
      /\ [ClientNext]_clientVars
      => StaysInv'
  BY StaysStep
<1>3. IInv /\ AtFilledEntry /\ StaysInv => OnlyUnreportedHandlesStay
  <2> SUFFICES ASSUME IInv, AtFilledEntry, StaysInv, Ended PROVE OnlyUnreportedHandlesStay
    BY DEF OnlyUnreportedHandlesStay
  <2>1. CASE program = "c"
    BY <2>1 DEF StaysInv, Freed, Ended, LeftOf, OnlyUnreportedHandlesStay
  <2>2. CASE program = "zig"
    <3>1. {ID(a) : a \in Registered} = DOMAIN scan
      BY <2>2 DEF StaysInv, Freed
    <3>2. Cardinality(Registered) = Cardinality(DOMAIN scan)
      BY <3>1, RegisteredCardinality DEF IInv
    <3> QED
      BY <2>2, <3>2 DEF OnlyUnreportedHandlesStay
  <2> QED
    BY <2>1, <2>2 DEF AtFilledEntry, Program
<1>4. ClientSpec => Spec
  BY ProgramsUseTheApi DEF UsesTheApi
<1> QED
  BY <1>1, <1>2, <1>3, <1>4, ClientInvariant, ReportedLive, AllReported, PTL DEF ClientSpec

-----------------------------------------------------------------------------
(* How long the error texts are. *)

\* The lines among the first k that say a device of entry j is missing; the C example
\* has one buffer for all entries.
MissingAmong(out, prog, k, j) ==
  {m \in 1..k : out[m].is = "missing" /\ (prog = "zig" => out[m].handle = j)}

\* What those lines and the buffer leave a further text.
Limits(out, prog, k, j) ==
  {ErrorBuffer[prog] - 1} \cup {out[m].text.length : m \in MissingAmong(out, prog, k, j)}

CutRight(out, prog, k) ==
  out[k].is = "missing" =>
    /\ out[k].text.says.of = out[k].asked
    /\ out[k].text.length =
         Min({TextLength[out[k].text.says]} \cup Limits(out, prog, k - 1, out[k].handle))

\* The size that goes into the next copy is what the lines before left; the Zig test
\* has printed nothing of a handle it does not ask for yet.
TextsInv ==
  /\ \A k \in DOMAIN output : CutRight(output, program, k)
  /\ (program = "c" \/ Asking) /\ Len(output) < MaxOutput =>
       error_message_size - 1 = Min(Limits(output, program, Len(output), index))
  /\ program = "zig" =>
       \A m \in DOMAIN output : output[m].is = "missing" =>
         output[m].handle <= index /\ (output[m].handle = index => Asking)

LEMMA MissingLine ==
  ASSUME NEW line \in Line, line.is = "missing"
  PROVE  line.handle \in Nat /\ line.text \in Text /\ line.text.length \in Nat
BY DEF Line, Text

LEMMA LimitsAreNat ==
  ASSUME NEW out \in Seq(Line), NEW prog \in Program, NEW k \in 0..Len(out), NEW j
  PROVE  Limits(out, prog, k, j) \subseteq Nat /\ Limits(out, prog, k, j) # {}
<1>1. ErrorBuffer[prog] \in Nat \ {0}
  BY BufferAssumption DEF BufferAssumption
<1>2. ErrorBuffer[prog] - 1 \in Nat
  BY <1>1
<1>3. ASSUME NEW m \in MissingAmong(out, prog, k, j) PROVE out[m].text.length \in Nat
  <2>1. out[m] \in Line /\ out[m].is = "missing"
    BY DEF MissingAmong
  <2> QED
    BY <2>1, MissingLine
<1> QED
  BY <1>2, <1>3 DEF Limits

\* The least of a set, told by what makes it so.
LEMMA MinIs ==
  ASSUME NEW S, S \subseteq Nat, NEW x \in S, \A s \in S : x <= s
  PROVE  Min(S) = x
<1>1. Min(S) \in S /\ \A s \in S : Min(S) <= s
  BY MinInSet
<1>2. PICK m : m = Min(S)
  OBVIOUS
<1>3. m \in Nat /\ x \in Nat /\ m <= x /\ x <= m
  BY <1>1, <1>2
<1> QED
  BY <1>2, <1>3

\* Later lines change nothing for the earlier ones.
LEMMA SamePrefix ==
  ASSUME NEW out1, NEW out2, NEW prog, NEW k \in Nat, NEW j,
         \A m \in 1..k : out2[m] = out1[m]
  PROVE  Limits(out2, prog, k, j) = Limits(out1, prog, k, j)
<1>1. MissingAmong(out2, prog, k, j) = MissingAmong(out1, prog, k, j)
  BY DEF MissingAmong
<1>2. \A m \in MissingAmong(out1, prog, k, j) : out2[m].text.length = out1[m].text.length
  BY DEF MissingAmong
<1> QED
  BY <1>1, <1>2, Zenon DEF Limits

LEMMA EarlierLinesStay ==
  ASSUME NEW out1, NEW out2, NEW prog, NEW n \in Nat, NEW k \in 1..n,
         \A m \in 1..n : out2[m] = out1[m],
         CutRight(out1, prog, k)
  PROVE  CutRight(out2, prog, k)
<1>1. out2[k] = out1[k] /\ k - 1 \in Nat
  OBVIOUS
<1>2. \A m \in 1..(k - 1) : out2[m] = out1[m]
  OBVIOUS
<1>3. \A j : Limits(out2, prog, k - 1, j) = Limits(out1, prog, k - 1, j)
  BY <1>1, <1>2, SamePrefix
<1> QED
  BY <1>1, <1>3, Zenon DEF CutRight

\* The text of one more missing device is cut to what the earlier ones left.
LEMMA OneMoreText ==
  ASSUME NEW out \in Seq(Line), NEW prog \in Program, NEW line \in Line, line.is = "missing",
         NEW size \in Nat \ {0}, size - 1 = Min(Limits(out, prog, Len(out), line.handle)),
         line.text.says \in Says, line.text.says.of = line.asked,
         line.text.length = IF TextLength[line.text.says] < size - 1
                            THEN TextLength[line.text.says] ELSE size - 1
  PROVE  LET out2 == Append(out, line)
         IN  /\ CutRight(out2, prog, Len(out) + 1)
             /\ Min(Limits(out2, prog, Len(out) + 1, line.handle)) = line.text.length
<1> DEFINE n == Len(out)
           S == Limits(out, prog, n, line.handle)
           long == TextLength[line.text.says]
           cut == line.text.length
<1>1. PICK out2 : out2 = Append(out, line)
  OBVIOUS
<1>2. n \in Nat /\ Len(out2) = n + 1 /\ out2[n + 1] = line /\ \A m \in 1..n : out2[m] = out[m]
  BY <1>1
<1>3. long \in Nat
  BY TextAssumption DEF TextAssumption
<1>4. S \subseteq Nat /\ size - 1 \in S /\ \A s \in S : size - 1 <= s
  <2>1. n \in 0..n
    BY <1>2
  <2>2. S \subseteq Nat /\ S # {}
    BY <2>1, LimitsAreNat
  <2> HIDE DEF S
  <2>3. Min(S) \in S /\ \A s \in S : Min(S) <= s
    BY <2>2, MinInSet
  <2>4. size - 1 = Min(S)
    BY DEF S
  <2> QED
    BY <2>2, <2>3, <2>4
<1>5. Limits(out2, prog, n, line.handle) = S
  BY <1>2, SamePrefix
<1>6. Limits(out2, prog, n + 1, line.handle) = S \cup {cut}
  <2>1. MissingAmong(out2, prog, n + 1, line.handle)
          = MissingAmong(out2, prog, n, line.handle) \cup {n + 1}
    BY <1>2 DEF MissingAmong
  <2>2. Limits(out2, prog, n + 1, line.handle)
          = Limits(out2, prog, n, line.handle) \cup {out2[n + 1].text.length}
    BY <2>1, Zenon DEF Limits
  <2> QED
    BY <1>2, <1>5, <2>2
<1> HIDE DEF n, S, long, cut
<1>7. cut = (IF long < size - 1 THEN long ELSE size - 1) /\ cut \in Nat
  <2>1. cut = IF long < size - 1 THEN long ELSE size - 1
    BY DEF long, cut
  <2> QED
    BY <1>3, <2>1
<1>8. Min({long} \cup S) = cut
  <2>1. {long} \cup S \subseteq Nat /\ cut \in {long} \cup S
    BY <1>3, <1>4, <1>7
  <2>2. \A s \in {long} \cup S : cut <= s
    <3>1. \A s \in S : s \in Nat /\ size - 1 <= s
      BY <1>4
    <3> QED
      BY <1>3, <1>7, <3>1
  <2> QED
    BY <2>1, <2>2, MinIs
<1>9. Min(S \cup {cut}) = cut
  <2>1. \A s \in S \cup {cut} : s \in Nat /\ cut <= s
    BY <1>3, <1>4, <1>7
  <2> QED
    BY <2>1, MinIs
<1>10. CutRight(out2, prog, n + 1)
  <2>1. (n + 1) - 1 = n
    BY <1>2
  <2> QED
    BY <1>2, <1>5, <1>8, <2>1 DEF CutRight, long, cut
<1> QED
  BY <1>1, <1>6, <1>9, <1>10 DEF n, cut

\* The texts of `out` and of the longer `out2` are the same.
AllCutRight(out, prog) == \A k \in DOMAIN out : CutRight(out, prog, k)

NoneMissing(lines) == \A k \in DOMAIN lines : lines[k].is # "missing"

SameTexts(out, out2, prog) ==
  /\ AllCutRight(out2, prog)
  /\ \A j : Limits(out2, prog, Len(out2), j) = Limits(out, prog, Len(out), j)
  /\ Len(out) <= Len(out2)
  /\ \A m \in DOMAIN out2 : out2[m].is = "missing" => m \in DOMAIN out /\ out2[m] = out[m]

\* Lines about anything else leave the texts and their limits as they are.
LEMMA OtherLines ==
  ASSUME NEW out \in Seq(Line), NEW lines \in Seq(Line), NoneMissing(lines),
         NEW out2, out2 = out \/ out2 = out \o lines, NEW prog, AllCutRight(out, prog)
  PROVE  SameTexts(out, out2, prog)
<1> DEFINE n == Len(out)
<1>1. CASE out2 = out
  BY <1>1 DEF SameTexts
<1>2. CASE out2 = out \o lines
  <2>1. PICK l : l = Len(out2)
    OBVIOUS
  <2>2. n \in Nat /\ l \in Nat /\ n <= l
    BY <1>2, <2>1
  <2>3. DOMAIN out = 1..n /\ DOMAIN out2 = 1..l
    BY <1>2, <2>1
  <2>4. \A m \in 1..n : out2[m] = out[m]
    BY <1>2
  <2>5. ASSUME NEW m \in 1..l, ~(m <= n) PROVE out2[m].is # "missing"
    <3>1. m - n \in DOMAIN lines /\ out2[m] = lines[m - n]
      BY <1>2, <2>1, <2>2, <2>5
    <3> QED
      BY <3>1 DEF NoneMissing
  <2> HIDE DEF n
  <2>6. \A m \in 1..l : out2[m].is = "missing" => m \in 1..n
    <3>1. \A m \in 1..l : m <= n => m \in 1..n
      BY <2>2
    <3> QED
      BY <2>5, <3>1
  <2>7. \A k \in 1..n : CutRight(out2, prog, k)
    <3>1. \A k \in 1..n : CutRight(out, prog, k)
      BY <2>3 DEF AllCutRight
    <3> QED
      BY <2>2, <2>4, <3>1, EarlierLinesStay
  <2>8. AllCutRight(out2, prog)
    BY <2>3, <2>6, <2>7 DEF CutRight, AllCutRight
  <2>9. ASSUME NEW j PROVE Limits(out2, prog, l, j) = Limits(out, prog, n, j)
    <3>1. 1..n \subseteq 1..l
      BY <2>2
    <3>2. MissingAmong(out2, prog, l, j) = MissingAmong(out2, prog, n, j)
      BY <2>6, <3>1, Zenon DEF MissingAmong
    <3>3. Limits(out2, prog, l, j) = Limits(out2, prog, n, j)
      BY <3>2, Zenon DEF Limits
    <3>4. Limits(out2, prog, n, j) = Limits(out, prog, n, j)
      BY <2>2, <2>4, SamePrefix
    <3> QED
      BY <3>3, <3>4
  <2>10. \A m \in DOMAIN out2 : out2[m].is = "missing" => m \in DOMAIN out /\ out2[m] = out[m]
    BY <2>6, <2>3, <2>4
  <2> QED
    BY <2>1, <2>2, <2>8, <2>9, <2>10 DEF n, SameTexts
<1> QED
  BY <1>1, <1>2

\* Where the program goes on, as far as the texts are concerned.
AsksOn ==
  program = "zig" =>
    \/ index' = index /\ (Asking <=> Asking')
    \/ index' = index + 1 /\ ~Asking'

\* A step that copies no text.
LEMMA TextsKept ==
  ASSUME TextsInv, ClientTypeInv, index \in Nat, UNCHANGED <<program, error_message_size>>,
         program \in Program, AsksOn,
         NEW lines \in Seq(Line), NoneMissing(lines),
         output' = output \/ output' = output \o lines
  PROVE  TextsInv'
<1>1. PICK out2 : out2 = output'
  OBVIOUS
<1>2. output \in Seq(Line)
  BY DEF ClientTypeInv
<1>3. /\ \A k \in DOMAIN out2 : CutRight(out2, program, k)
      /\ \A j : Limits(out2, program, Len(out2), j) = Limits(output, program, Len(output), j)
      /\ Len(output) <= Len(out2)
      /\ \A m \in DOMAIN out2 :
           out2[m].is = "missing" => m \in DOMAIN output /\ out2[m] = output[m]
  <2>1. AllCutRight(output, program)
    BY DEF TextsInv, AllCutRight
  <2>2. SameTexts(output, out2, program)
    BY <1>1, <1>2, <2>1, OtherLines
  <2> QED
    BY <2>2 DEF SameTexts, AllCutRight
<1>4. Len(output) \in Nat /\ Len(out2) \in Nat /\ MaxOutput \in Nat
  BY <1>1, <1>2, MaxOutputIsNat DEF BufferAssumption
<1>5. (program = "c" \/ Asking') /\ Len(out2) < MaxOutput =>
        error_message_size - 1 = Min(Limits(out2, program, Len(out2), index'))
  <2> SUFFICES ASSUME program = "c" \/ Asking', Len(out2) < MaxOutput
               PROVE  error_message_size - 1 = Min(Limits(out2, program, Len(out2), index'))
    OBVIOUS
  <2>1. Len(output) < MaxOutput
    BY <1>3, <1>4
  <2>2. CASE program = "c"
    <3>1. error_message_size - 1 = Min(Limits(output, program, Len(output), index))
      BY <2>1, <2>2 DEF TextsInv
    <3>2. MissingAmong(output, program, Len(output), index)
            = MissingAmong(output, program, Len(output), index')
      BY <2>2 DEF MissingAmong
    <3>3. Limits(output, program, Len(output), index) = Limits(output, program, Len(output), index')
      BY <3>2, Zenon DEF Limits
    <3> QED
      BY <1>3, <3>1, <3>3
  <2>3. CASE program = "zig"
    <3>1. index' = index /\ Asking
      BY <2>3 DEF AsksOn
    <3>2. error_message_size - 1 = Min(Limits(output, program, Len(output), index))
      BY <2>1, <3>1 DEF TextsInv
    <3> QED
      BY <1>3, <3>1, <3>2
  <2> QED
    BY <2>2, <2>3 DEF Program
<1>6. ASSUME program = "zig", NEW m \in DOMAIN out2, out2[m].is = "missing"
      PROVE  out2[m].handle <= index' /\ (out2[m].handle = index' => Asking')
  <2>1. m \in DOMAIN output /\ output[m] = out2[m]
    BY <1>3, <1>6
  <2>2. output[m].handle <= index /\ (output[m].handle = index => Asking)
    BY <1>6, <2>1 DEF TextsInv
  <2>3. output[m].handle \in Nat
    <3>1. output[m] \in Line /\ output[m].is = "missing"
      BY <1>2, <1>6, <2>1
    <3> QED
      BY <3>1, MissingLine
  <2>4. CASE index' = index /\ (Asking <=> Asking')
    BY <2>1, <2>2, <2>4
  <2>5. CASE index' = index + 1
    BY <2>1, <2>2, <2>3, <2>5
  <2> QED
    BY <1>6, <2>4, <2>5 DEF AsksOn
<1> QED
  BY <1>1, <1>3, <1>5, <1>6 DEF TextsInv

\* A fresh buffer for the next handle.
LEMMA ListingTexts ==
  ASSUME TextsInv, ClientTypeInv, AtFilledEntry, ListingReturned, program = "zig", ~Asking,
         UNCHANGED program
  PROVE  TextsInv'
<1> DEFINE lines == [k \in DOMAIN usb_devices |-> Listed(usb_devices[k])]
<1>1. index \in Nat /\ output \in Seq(Line) /\ program \in Program /\ usb_devices \in Seq(Nat)
  BY DEF AtFilledEntry, ClientTypeInv
<1>2. lines \in Seq(Line) /\ NoneMissing(lines)
  <2>1. \A k \in DOMAIN usb_devices : /\ Listed(usb_devices[k]) \in Line
                                      /\ Listed(usb_devices[k]).is # "missing"
    BY <1>1 DEF Listed, Line
  <2> QED
    BY <1>1, <2>1 DEF NoneMissing
<1>3. output' = output \/ output' = output \o lines
  BY DEF ListingReturned, Say
<1> HIDE DEF lines
<1>4. PICK out2 : out2 = output'
  OBVIOUS
<1>5. /\ \A k \in DOMAIN out2 : CutRight(out2, program, k)
      /\ Limits(out2, program, Len(out2), index) = Limits(output, program, Len(output), index)
      /\ \A m \in DOMAIN out2 :
           out2[m].is = "missing" => m \in DOMAIN output /\ out2[m] = output[m]
  <2>1. AllCutRight(output, program)
    BY DEF TextsInv, AllCutRight
  <2>2. SameTexts(output, out2, program)
    BY <1>1, <1>2, <1>3, <1>4, <2>1, OtherLines
  <2> QED
    BY <2>2 DEF SameTexts, AllCutRight
<1>6. \A m \in DOMAIN output : output[m].is = "missing" =>
        output[m].handle <= index /\ output[m].handle # index
  BY DEF TextsInv
<1>7. MissingAmong(output, program, Len(output), index) = {}
  BY <1>1, <1>6 DEF MissingAmong
<1>8. Limits(output, program, Len(output), index) = {ErrorBuffer[program] - 1}
  BY <1>7 DEF Limits
<1>9. Min({ErrorBuffer[program] - 1}) = ErrorBuffer[program] - 1
  <2>1. ErrorBuffer[program] \in Nat \ {0}
    BY <1>1, BufferAssumption DEF BufferAssumption
  <2> QED
    BY <2>1, MinIs
<1>10. pc' = "set" /\ index' = index /\ error_message_size' = ErrorBuffer[program]
  BY DEF ListingReturned, GoTo
<1>11. Asking'
  BY <1>10 DEF Asking
<1>12. error_message_size' - 1 = Min(Limits(out2, program, Len(out2), index'))
  BY <1>5, <1>8, <1>9, <1>10
<1>13. \A m \in DOMAIN out2 : out2[m].is = "missing" => out2[m].handle <= index'
  BY <1>5, <1>6, <1>10
<1> QED
  BY <1>4, <1>5, <1>11, <1>12, <1>13 DEF TextsInv

\* The next set of the same handle, or another handle that is not asked yet.
LEMMA AskedAsksOn ==
  ASSUME Asking, Asked
  PROVE  AsksOn
<1>1. CASE GoTo("set")
  BY <1>1 DEF GoTo, Asking, AsksOn
<1>2. CASE NextHandle
  <2>1. index' = index + 1 /\ pc' \in {"is_valid", "free", "done"}
    BY <1>2 DEF NextHandle
  <2> QED
    BY <2>1 DEF Asking, AsksOn
<1>3. CASE program # "zig"
  BY <1>3 DEF AsksOn
<1>4. program = "zig" => program # "c"
  OBVIOUS
<1> QED
  BY <1>1, <1>2, <1>3, <1>4, Zenon DEF Asked

\* The text of a missing device becomes a line, or there is no room for lines.
LEMMA MissingTexts ==
  ASSUME AtFilledEntry, ClientTypeInv, TextsInv, Asking, AsksOn, UNCHANGED program,
         NEW says \in Says, NEW line \in Line,
         line.is = "missing", line.handle = index, line.asked = says.of,
         line.text.says = says,
         line.text.length = IF TextLength[says] < error_message_size - 1
                            THEN TextLength[says] ELSE error_message_size - 1,
         error_message_size' - 1 = line.text.length,
         Say(<<line>>)
  PROVE  TextsInv'
<1>1. PICK out : out = output
  OBVIOUS
<1>2. PICK out2 : out2 = output'
  OBVIOUS
<1>3. PICK n : n = Len(out)
  OBVIOUS
<1>4. out \in Seq(Line) /\ n \in Nat /\ DOMAIN out = 1..n
  BY <1>1, <1>3 DEF ClientTypeInv
<1>5. program \in Program /\ index \in Nat /\ MaxOutput \in Nat
  BY MaxOutputIsNat DEF AtFilledEntry
<1>6. ASSUME program = "zig"
      PROVE  \/ index' = index /\ Asking'
             \/ index' = index + 1 /\ ~Asking'
  BY <1>6 DEF AsksOn
<1>7. ASSUME program = "zig", NEW m \in 1..n, out[m].is = "missing"
      PROVE  out[m].handle \in Nat /\ out[m].handle <= index
  <2>1. out[m] \in Line
    BY <1>4
  <2> QED
    BY <1>1, <1>4, <1>7, <2>1, MissingLine DEF TextsInv
<1>8. CASE ~(n < MaxOutput)
  <2>1. ~(n + 1 <= MaxOutput)
    BY <1>4, <1>5, <1>8
  <2>2. out2 = out
    BY <1>1, <1>2, <1>3, <2>1 DEF Say
  <2>3. \A k \in DOMAIN out2 : CutRight(out2, program, k)
    BY <1>1, <2>2 DEF TextsInv
  <2>4. ~(Len(out2) < MaxOutput)
    BY <1>3, <1>8, <2>2
  <2>5. ASSUME program = "zig", NEW m \in DOMAIN out2, out2[m].is = "missing"
        PROVE  out2[m].handle <= index' /\ (out2[m].handle = index' => Asking')
    <3>1. out[m].handle \in Nat /\ out[m].handle <= index /\ out2[m] = out[m]
      BY <1>4, <1>7, <2>2, <2>5
    <3> QED
      BY <1>5, <1>6, <2>5, <3>1
  <2> QED
    BY <1>2, <2>3, <2>4, <2>5 DEF TextsInv
<1>9. CASE n < MaxOutput
  <2>1. PICK size : size = error_message_size
    OBVIOUS
  <2>2. size \in Nat \ {0} /\ size - 1 = Min(Limits(out, program, n, index))
    <3>1. ErrorBuffer[program] \in Nat
      BY <1>5, BufferAssumption DEF BufferAssumption
    <3>2. size \in Nat \ {0}
      BY <2>1, <3>1 DEF ClientTypeInv
    <3> QED
      BY <1>1, <1>3, <1>9, <2>1, <3>2 DEF TextsInv
  <2>3. out2 = Append(out, line)
    <3>1. n + 1 <= MaxOutput
      BY <1>4, <1>5, <1>9
    <3>2. out2 = out \o <<line>>
      BY <1>1, <1>2, <1>3, <3>1 DEF Say
    <3> QED
      BY <1>4, <3>2
  <2>4. /\ CutRight(out2, program, n + 1)
        /\ Min(Limits(out2, program, n + 1, index)) = line.text.length
    BY <1>3, <1>4, <1>5, <2>1, <2>2, <2>3, OneMoreText
  <2>5. /\ Len(out2) = n + 1 /\ DOMAIN out2 = 1..(n + 1) /\ out2[n + 1] = line
        /\ \A m \in 1..n : out2[m] = out[m]
    BY <1>3, <1>4, <2>3
  <2>6. \A k \in 1..n : CutRight(out2, program, k)
    <3>1. \A k \in 1..n : CutRight(out, program, k)
      BY <1>1, <1>4 DEF TextsInv
    <3> QED
      BY <1>4, <2>5, <3>1, EarlierLinesStay
  <2>7. \A k \in 1..(n + 1) : k = n + 1 \/ k \in 1..n
    BY <1>4
  <2>8. \A k \in DOMAIN out2 : CutRight(out2, program, k)
    BY <2>4, <2>5, <2>6, <2>7
  <2>9. program = "c" \/ Asking' =>
          error_message_size' - 1 = Min(Limits(out2, program, Len(out2), index'))
    <3>1. CASE program = "c"
      <4>1. MissingAmong(out2, program, n + 1, index) = MissingAmong(out2, program, n + 1, index')
        BY <3>1 DEF MissingAmong
      <4>2. Limits(out2, program, n + 1, index) = Limits(out2, program, n + 1, index')
        BY <4>1, Zenon DEF Limits
      <4> QED
        BY <2>4, <2>5, <4>2
    <3>2. CASE program = "zig" /\ Asking'
      BY <1>6, <2>4, <2>5, <3>2
    <3> QED
      BY <1>5, <3>1, <3>2 DEF Program
  <2>10. ASSUME program = "zig", NEW m \in DOMAIN out2, out2[m].is = "missing"
         PROVE  out2[m].handle <= index' /\ (out2[m].handle = index' => Asking')
    <3>1. out2[m].handle \in Nat /\ out2[m].handle <= index
      <4>1. CASE m = n + 1
        BY <1>5, <2>5, <4>1
      <4>2. CASE m \in 1..n
        BY <1>7, <2>5, <2>10, <4>2
      <4> QED
        BY <2>5, <2>7, <4>1, <4>2
    <3> QED
      BY <1>5, <1>6, <2>10, <3>1
  <2> QED
    BY <1>2, <2>8, <2>9, <2>10 DEF TextsInv
<1> QED
  BY <1>8, <1>9

LEMMA AskForTexts ==
  ASSUME IInv, AtFilledEntry, HandlesInUseAreLive, ClientTypeInv, TextsInv,
         NEW iter_set \in Range(Sets), AskFor(iter_set)
  PROVE  TextsInv'
<1>1. /\ Asking /\ pc \in OnHandle /\ UNCHANGED program
      /\ program \in Program /\ index \in Nat
  BY DEF AskFor, Asking, OnHandle, AtFilledEntry
<1>2. Current \in Registered
  BY <1>1 DEF HandlesInUseAreLive
<1>3. CASE GoTo("get set") /\ UNCHANGED <<errorVars, output>>
  <2>1. AsksOn
    BY <1>1, <1>3 DEF GoTo, Asking, AsksOn
  <2>2. <<>> \in Seq(Line) /\ NoneMissing(<<>>)
    BY DEF NoneMissing
  <2>3. output' = output /\ error_message_size' = error_message_size
    BY <1>3 DEF errorVars
  <2> QED
    BY <1>1, <2>1, <2>2, <2>3, TextsKept
<1>4. CASE /\ Asked
           /\ IF CanCopy(error_message_size)
              THEN /\ error_message' = Copied(error_message_size, NotFound(iter_set))
                   /\ error_message_size' = SizeAfter(error_message_size, NotFound(iter_set))
              ELSE UNCHANGED errorVars
           /\ Say(<<Missing(iter_set, error_message')>>)
  <2>1. error_message_size \in Nat \ {0}
    BY BufferAssumption, <1>1 DEF ClientTypeInv, BufferAssumption
  <2>2. CanCopy(error_message_size)
    BY <2>1 DEF CanCopy
  <2>3. PICK says \in Says :
          NotFound(iter_set) = [says |-> says, length |-> TextLength[says]] /\ says.of = iter_set
    BY <1>2, NotFoundIsText
  <2>4. PICK src : src = NotFound(iter_set)
    OBVIOUS
  <2>5. /\ error_message' = Copied(error_message_size, src)
        /\ error_message_size' = SizeAfter(error_message_size, src)
    BY <1>4, <2>2, <2>4
  <2>6. PICK text : text = error_message'
    OBVIOUS
  <2>7. /\ text \in Text /\ text.says = says
        /\ text.length = IF TextLength[says] < error_message_size - 1
                         THEN TextLength[says] ELSE error_message_size - 1
        /\ error_message_size' = text.length + 1
    BY <2>1, <2>3, <2>4, <2>5, <2>6, CopiedText
  <2>8. error_message_size' - 1 = text.length
    BY <2>7 DEF Text
  <2>9. PICK line : line = Missing(iter_set, text)
    OBVIOUS
  <2>10. /\ line \in Line /\ line.is = "missing" /\ line.handle = index
         /\ line.asked = iter_set /\ line.text = text
    BY <1>1, <2>7, <2>9 DEF Missing, Line
  <2>11. Say(<<line>>)
    BY <1>4, <2>6, <2>9
  <2>12. AsksOn
    BY <1>1, <1>4, AskedAsksOn
  <2> QED
    BY <1>1, <2>3, <2>7, <2>8, <2>10, <2>11, <2>12, MissingTexts
<1> QED
  BY <1>3, <1>4 DEF AskFor

\* The calls that print something else, or nothing.
LEMMA OtherTexts ==
  ASSUME IInv, AtFilledEntry, HandlesInUseAreLive, ClientTypeInv, TextsInv,
         \/ FindDevices \/ CheckHandle \/ BeginListing \/ FreeDevices
         \/ \E iter_set \in Range(Sets) : PrintAsked(iter_set)
         \/ PrintListed \/ ReadListed
         \/ StepListing /\ ~ListingReturned
  PROVE  TextsInv'
<1>1. UNCHANGED program /\ error_message_size' = error_message_size
  BY DEF FindDevices, CheckHandle, BeginListing, FreeDevices, PrintAsked, PrintListed,
         ReadListed, StepListing, errorVars
<1>2. program \in Program /\ index \in Nat
  BY DEF AtFilledEntry
<1>3. AsksOn
  <2>1. ASSUME NEW iter_set \in Range(Sets), PrintAsked(iter_set) PROVE AsksOn
    <3>1. Asking /\ Asked
      BY <2>1 DEF PrintAsked, Asking
    <3> QED
      BY <3>1, AskedAsksOn
  <2>2. CASE FindDevices \/ BeginListing \/ FreeDevices
    <3>1. /\ pc \in {"find_all", "begin", "free"} /\ index' = index
          /\ pc' \in {"is_valid", "free", "done", "get"}
      BY <2>2 DEF FindDevices, BeginListing, FreeDevices, GoTo
    <3> QED
      BY <3>1 DEF Asking, AsksOn
  <2>3. CASE program # "zig"
    BY <2>3 DEF AsksOn
  <2>4. CASE program = "zig" /\ (CheckHandle \/ ReadListed \/ (StepListing /\ ~ListingReturned))
    <3>1. /\ pc \in {"is_valid", "get", "next"} /\ index' = index
          /\ pc' \in {"begin", "gave up", "next", "get"}
      BY <2>4 DEF CheckHandle, ReadListed, StepListing, GoTo
    <3> QED
      BY <3>1 DEF Asking, AsksOn
  <2>5. PrintListed => program # "zig"
    BY DEF PrintListed
  <2> QED
    BY <2>1, <2>2, <2>3, <2>4, <2>5, Zenon
<1>4. \E lines \in Seq(Line) : NoneMissing(lines) /\ (UNCHANGED output \/ Say(lines))
  <2>1. <<>> \in Seq(Line) /\ NoneMissing(<<>>)
    BY DEF NoneMissing
  <2>2. ASSUME NEW line \in Line, line.is # "missing"
        PROVE  <<line>> \in Seq(Line) /\ NoneMissing(<<line>>)
    BY <2>2 DEF NoneMissing
  <2>3. CASE PrintListed \/ \E iter_set \in Range(Sets) : PrintAsked(iter_set)
    <3>1. pc \in OnHandle
      BY <2>3 DEF PrintListed, PrintAsked, OnHandle
    <3>2. Usb \in Nat
      BY <3>1, UsbIsNat DEF HandlesInUseAreLive
    <3>3. Listed(Usb) \in Line /\ Listed(Usb).is # "missing"
      BY <1>2, <3>2 DEF Listed, Line
    <3>4. ASSUME NEW iter_set \in Range(Sets)
          PROVE  /\ Found(iter_set, Usb) \in Line /\ Found(iter_set, Usb).is # "missing"
                 /\ Unread(iter_set, error_message) \in Line
                 /\ Unread(iter_set, error_message).is # "missing"
      BY <1>2, <3>2 DEF Found, Unread, Line, ClientTypeInv
    <3>5. CASE PrintListed
      <4>1. Say(<<Listed(Usb)>>) \/ UNCHANGED output
        BY <3>5 DEF PrintListed
      <4> QED
        BY <2>1, <2>2, <3>3, <4>1
    <3>6. ASSUME NEW iter_set \in Range(Sets), PrintAsked(iter_set)
          PROVE  <1>4!:
      <4>1. PICK lines \in {<<Found(iter_set, Usb)>>, <<>>, <<Unread(iter_set, error_message)>>} :
              Say(lines)
        BY <3>6 DEF PrintAsked
      <4>2. lines \in Seq(Line) /\ NoneMissing(lines)
        BY <2>1, <2>2, <3>4, <4>1, Zenon
      <4> QED
        BY <4>1, <4>2
    <3> QED
      BY <2>3, <3>5, <3>6
  <2>4. CASE ~PrintListed /\ ~\E iter_set \in Range(Sets) : PrintAsked(iter_set)
    <3>1. UNCHANGED output
      BY <2>4 DEF FindDevices, CheckHandle, BeginListing, FreeDevices, ReadListed, StepListing
    <3> QED
      BY <2>1, <3>1
  <2> QED
    BY <2>3, <2>4
<1>5. PICK lines \in Seq(Line) : NoneMissing(lines) /\ (UNCHANGED output \/ Say(lines))
  BY <1>4
<1>6. output' = output \/ output' = output \o lines
  BY <1>5 DEF Say
<1> QED
  BY <1>1, <1>2, <1>3, <1>5, <1>6, TextsKept

LEMMA TextsStep ==
  ASSUME IInv, AtFilledEntry, HandlesInUseAreLive, ClientTypeInv, TextsInv,
         [ClientNext]_clientVars
  PROVE  TextsInv'
<1>1. ASSUME ListingReturned, SliceFull \/ (StepListing /\ program # "c") PROVE TextsInv'
  <2>1. program = "zig" /\ ~Asking /\ UNCHANGED program
    BY <1>1 DEF SliceFull, StepListing, Asking, AtFilledEntry, Program
  <2> QED
    BY <1>1, <2>1, ListingTexts
<1>2. CASE StepListing
  <2>1. CASE ~ListingReturned
    BY <1>2, <2>1, OtherTexts
  <2>2. CASE ListingReturned /\ program # "c"
    BY <1>1, <1>2, <2>2
  <2>3. CASE ListingReturned /\ program = "c"
    <3>1. pc' = "set"
      BY <2>3 DEF ListingReturned, GoTo
    <3>2. pc' \in {"get", "is_valid", "free", "done"}
      BY <1>2, <2>3 DEF StepListing, GoTo, NextHandle
    <3> QED
      BY <3>1, <3>2
  <2> QED
    BY <2>1, <2>2, <2>3
<1>3. CASE UNCHANGED clientVars
  <2>1. /\ program' = program /\ output' = output /\ index' = index /\ pc' = pc
        /\ error_message_size' = error_message_size
    BY <1>3 DEF clientVars, errorVars
  <2>2. \A k : CutRight(output, program, k)' <=> CutRight(output, program, k)
    BY <2>1 DEF CutRight, Limits, MissingAmong
  <2>3. Limits(output, program, Len(output), index)' = Limits(output, program, Len(output), index)
    BY <2>1 DEF Limits, MissingAmong
  <2> QED
    BY <2>1, <2>2, <2>3 DEF TextsInv, Asking
<1>4. SliceFull => ListingReturned
  BY DEF SliceFull
<1> QED
  BY <1>1, <1>2, <1>3, <1>4, AskForTexts, OtherTexts DEF ClientNext

\* The invariant says of each text what the property does.
LEMMA TextsInvIsEnough ==
  ASSUME TextsInv, ClientTypeInv, program \in Program
  PROVE  TextsAreCutToTheShortest
<1> SUFFICES ASSUME NEW k \in DOMAIN output, output[k].is = "missing"
             PROVE  LET text == output[k].text
                        before == {m \in 1..(k - 1) :
                                     /\ output[m].is = "missing"
                                     /\ program = "zig" => output[m].handle = output[k].handle}
                    IN  /\ text.says.of = output[k].asked
                        /\ text.length = Min({TextLength[text.says], ErrorBuffer[program] - 1}
                                               \cup {output[m].text.length : m \in before})
  BY Zenon DEF TextsAreCutToTheShortest
<1> DEFINE text == output[k].text
           before == MissingAmong(output, program, k - 1, output[k].handle)
           lengths == {output[m].text.length : m \in before}
<1>1. /\ text.says.of = output[k].asked
      /\ text.length = Min({TextLength[text.says]} \cup ({ErrorBuffer[program] - 1} \cup lengths))
  BY DEF TextsInv, CutRight, Limits
<1>2. {TextLength[text.says]} \cup ({ErrorBuffer[program] - 1} \cup lengths)
        = {TextLength[text.says], ErrorBuffer[program] - 1} \cup lengths
  OBVIOUS
<1>3. text.length = Min({TextLength[text.says], ErrorBuffer[program] - 1} \cup lengths)
  BY <1>1, <1>2
<1> QED
  BY <1>1, <1>3, Zenon DEF MissingAmong

(* However often a program asks and whatever devices are missing, an error   *)
(* text is cut to the shortest shown before it from the same buffer: of the  *)
(* C example over all handles, of the Zig test over those of one handle, and *)
(* for any text lengths and buffers (cfwfinder_internal.hpp:29-32,           *)
(* c_api_basic_usage.c:99-143, root.zig:392-415).                            *)
THEOREM TextsAreCut == ClientSpec => []TextsAreCutToTheShortest
<1>1. ClientInit => TextsInv
  <2> SUFFICES ASSUME ClientInit PROVE TextsInv
    OBVIOUS
  <2>1. /\ output = <<>> /\ program \in Program
        /\ error_message_size = ErrorBuffer[program]
    BY DEF ClientInit
  <2>2. DOMAIN output = {} /\ Len(output) = 0
    BY <2>1
  <2>3. MissingAmong(output, program, 0, index) = {}
    BY DEF MissingAmong
  <2>4. Limits(output, program, 0, index) = {ErrorBuffer[program] - 1}
    BY <2>3 DEF Limits
  <2>5. Min({ErrorBuffer[program] - 1}) = ErrorBuffer[program] - 1
    <3>1. ErrorBuffer[program] - 1 \in Nat
      BY <2>1, BufferAssumption DEF BufferAssumption
    <3> QED
      BY <3>1, MinIs
  <2> QED
    BY <2>1, <2>2, <2>4, <2>5 DEF TextsInv
<1>2. IInv /\ AtFilledEntry /\ HandlesInUseAreLive /\ ClientTypeInv /\ TextsInv
        /\ [ClientNext]_clientVars => TextsInv'
  BY TextsStep
<1>3. AtFilledEntry /\ ClientTypeInv /\ TextsInv => TextsAreCutToTheShortest
  BY TextsInvIsEnough DEF AtFilledEntry
<1> QED
  BY <1>1, <1>2, <1>3, ClientInvariant, ClientTypeInvariant, HandlesInUse, PTL DEF ClientSpec
-----------------------------------------------------------------------------
(* What the programs have printed of each handle. *)

Lists(line, j) == line.handle = j /\ line.is = "listed"
Answers(line, j) == line.handle = j /\ line.is # "listed"

\* The first n USB devices of handle j are listed, each once and in order.
ListedTo(out, j, n) ==
  /\ \A k \in 1..n : \E m \in DOMAIN out : Lists(out[m], j) /\ out[m].usb = k
  /\ \A m \in DOMAIN out : Lists(out[m], j) => out[m].usb \in 1..n
  /\ \A m, l \in DOMAIN out : m < l /\ Lists(out[m], j) /\ Lists(out[l], j) => out[m].usb < out[l].usb

\* The first n sets were asked for of handle j, each once and in order.
AskedTo(out, j, n) ==
  /\ \A k \in 1..n : \E m \in DOMAIN out : Answers(out[m], j) /\ out[m].asked = Sets[k]
  /\ \A m \in DOMAIN out : Answers(out[m], j) => \E k \in 1..n : out[m].asked = Sets[k]
  /\ \A m, l \in DOMAIN out : \A k, i \in 1..4 :
       /\ m < l /\ Answers(out[m], j) /\ Answers(out[l], j)
       /\ out[m].asked = Sets[k] /\ out[l].asked = Sets[i]
       => k < i

RightAnswer(line, prog, device) ==
  LET target == Target(device, line.asked)
  IN  /\ line.is = "found" => line.usb = target
      /\ line.is = "missing" <=> target = 0
      /\ line.is = "unread" => prog = "zig" /\ TooLong(device.usbDevices[target])

RightAnswers(out, prog, j, device) ==
  \A m \in DOMAIN out : Answers(out[m], j) => RightAnswer(out[m], prog, device)

\* What handle j's device was listed and asked so far.
Told(out, prog, j, device, listed, answered) ==
  /\ ListedTo(out, j, listed)
  /\ AskedTo(out, j, answered)
  /\ RightAnswers(out, prog, j, device)

\* What a program lists of a device.
ShownOf(prog, device) ==
  IF prog = "c" THEN device.usbDevices
  ELSE SubSeq(device.usbDevices, 1, Min({UsbBuffer, Len(device.usbDevices)}))

NoneTooLong(list) == \A k \in DOMAIN list : ~TooLong(list[k])

Complete(out, prog, j, device) ==
  /\ device \in Device
  /\ Told(out, prog, j, device, Len(ShownOf(prog, device)), 4)
  /\ prog = "zig" => NoneTooLong(ShownOf(prog, device))

\* Nothing of later handles than j, no more than each one before has to say, and of j
\* so much.
UpTo(out, j, said) ==
  /\ \A m \in DOMAIN out : out[m].handle <= j
  /\ Len(out) <= (j - 1) * MostLines + said

\* The output while a program is at handle j.
Progress(out, prog, j, device, listed, answered) ==
  /\ Told(out, prog, j, device, listed, answered)
  /\ UpTo(out, j, listed + answered)

DeviceOf(j) == heap[devices[j]].device

AtHandle == pc \in OnHandle \cup {"gave up"}

ListedSoFar ==
  IF program = "c"
  THEN IF pc = "get" THEN heap[Current].iter.pos
       ELSE IF pc = "next" THEN heap[Current].iter.pos + 1 ELSE 0
  ELSE IF Asking THEN Len(Shown(index)) ELSE 0

AnsweredSoFar ==
  IF Asking THEN asked
  ELSE IF program = "c" /\ pc \in {"begin", "get", "next"} THEN 4 ELSE 0

\* Where the iterator is at each call, and what the Zig binding has in its buffer.
PlaceInv ==
  LET pos == heap[Current].iter.pos
  IN  /\ pc = "get set" => Target(DeviceOf(index), Sets[asked + 1]) = pos + 1
      /\ pc \in {"get", "next"} => OnDevice(heap[Current])
      /\ program = "zig" /\ pc \in {"get", "next"} =>
           /\ Len(usb_devices) = IF pc = "get" THEN pos ELSE pos + 1
           /\ Len(usb_devices) <= UsbBuffer
           /\ \A k \in DOMAIN usb_devices :
                usb_devices[k] = k /\ ~TooLong(DeviceOf(index).usbDevices[k])
      /\ program = "zig" /\ pc \in {"begin", "get", "next"} => asked = 0
      /\ program = "zig" /\ Asking => NoneTooLong(Shown(index))
      /\ pc = "gave up" => program = "zig" /\ ~NoneTooLong(Shown(index))

ProgressInv ==
  /\ pc = "find_all" => output = <<>>
  /\ pc = "free" => program = "c"
  /\ AtHandle => /\ Progress(output, program, index, DeviceOf(index), ListedSoFar, AnsweredSoFar)
                 /\ PlaceInv
  /\ \A j \in Through : Complete(output, program, j, DeviceOf(j))

\* out2 is out with the lines behind it.
Extends(out, out2, lines) ==
  /\ out \in Seq(Line) /\ lines \in Seq(Line) /\ out2 \in Seq(Line)
  /\ Len(out2) = Len(out) + Len(lines)
  /\ \A m \in DOMAIN out : m \in DOMAIN out2 /\ out2[m] = out[m]
  /\ \A i \in DOMAIN lines : /\ Len(out) + i \in DOMAIN out2 /\ out2[Len(out) + i] = lines[i]
                             /\ Len(out) + i \notin DOMAIN out
  /\ \A m \in DOMAIN out2 : m \in DOMAIN out \/ \E i \in DOMAIN lines : m = Len(out) + i

LEMMA ConcatExtends ==
  ASSUME NEW out \in Seq(Line), NEW lines \in Seq(Line)
  PROVE  Extends(out, out \o lines, lines)
<1>1. PICK out2 : out2 = out \o lines
  OBVIOUS
<1>2. PICK n : n = Len(out)
  OBVIOUS
<1>3. PICK b : b = Len(lines)
  OBVIOUS
<1>4. /\ out2 \in Seq(Line) /\ n \in Nat /\ b \in Nat /\ Len(out2) = n + b
      /\ DOMAIN out = 1..n /\ DOMAIN lines = 1..b /\ DOMAIN out2 = 1..(n + b)
  BY <1>1, <1>2, <1>3
<1>5. ASSUME NEW m \in 1..n PROVE m \in 1..(n + b) /\ out2[m] = out[m]
  <2>1. m \in 1..(n + b)
    BY <1>4
  <2> QED
    BY <1>1, <1>2, <1>3, <2>1, <1>4
<1>6. ASSUME NEW i \in 1..b PROVE n + i \in 1..(n + b) /\ n + i \notin 1..n /\ out2[n + i] = lines[i]
  <2>1. n + i \in 1..(n + b) /\ n + i \notin 1..n /\ (n + i) - n = i /\ ~(n + i <= n)
    BY <1>4
  <2>2. PICK m : m = n + i
    OBVIOUS
  <2>3. out2[m] = lines[m - n]
    BY <1>1, <1>2, <1>3, <1>4, <2>1, <2>2
  <2> QED
    BY <2>1, <2>2, <2>3
<1>7. ASSUME NEW m \in 1..(n + b) PROVE m \in 1..n \/ \E i \in 1..b : m = n + i
  <2>1. m \notin 1..n => m - n \in 1..b /\ m = n + (m - n)
    BY <1>4
  <2> QED
    BY <2>1
<1>8. Extends(out, out2, lines)
  BY <1>2, <1>3, <1>4, <1>5, <1>6, <1>7 DEF Extends
<1> QED
  BY <1>1, <1>8

\* Where a position of the longer output is.
LEMMA NewOrOld ==
  ASSUME NEW out, NEW out2, NEW lines, Extends(out, out2, lines), NEW m \in DOMAIN out2
  PROVE  \/ m \in DOMAIN out /\ out2[m] = out[m]
         \/ \E i \in DOMAIN lines : m = Len(out) + i /\ out2[m] = lines[i]
BY DEF Extends

LEMMA OldStays ==
  ASSUME NEW out, NEW out2, NEW lines, Extends(out, out2, lines)
  PROVE  /\ \A m \in DOMAIN out : m \in DOMAIN out2 /\ out2[m] = out[m]
         /\ \A i \in DOMAIN lines : Len(out) + i \in DOMAIN out2 /\ out2[Len(out) + i] = lines[i]
         /\ \A m \in DOMAIN out, i \in DOMAIN lines : m < Len(out) + i /\ ~(Len(out) + i < m)
         /\ Len(out) \in Nat /\ DOMAIN lines \subseteq Nat /\ DOMAIN out \subseteq Nat
         /\ DOMAIN lines = 1..Len(lines) /\ Len(lines) \in Nat
         /\ \A m \in DOMAIN out : out[m] \in Line
<1>1. out \in Seq(Line) /\ lines \in Seq(Line)
  BY DEF Extends
<1>2. PICK n \in Nat : n = Len(out) /\ DOMAIN out = 1..n
  BY <1>1
<1>3. DOMAIN lines = 1..Len(lines) /\ Len(lines) \in Nat
  BY <1>1
<1>4. \A m \in DOMAIN out, i \in DOMAIN lines : m < Len(out) + i /\ ~(Len(out) + i < m)
  BY <1>2, <1>3
<1>5. \A m \in DOMAIN out : out[m] \in Line
  BY <1>1
<1> QED
  BY <1>2, <1>3, <1>4, <1>5 DEF Extends

\* Lines of other handles, and answers, leave the listing of a handle alone.
LEMMA ListingKept ==
  ASSUME NEW out, NEW out2, NEW lines, Extends(out, out2, lines), NEW j, NEW n,
         ListedTo(out, j, n), \A i \in DOMAIN lines : ~Lists(lines[i], j)
  PROVE  ListedTo(out2, j, n)
<1>1. ASSUME NEW m \in DOMAIN out2, Lists(out2[m], j) PROVE m \in DOMAIN out /\ out2[m] = out[m]
  BY <1>1, NewOrOld
<1>2. \A m \in DOMAIN out : m \in DOMAIN out2 /\ out2[m] = out[m]
  BY OldStays
<1>3. ASSUME NEW k \in 1..n PROVE \E m \in DOMAIN out2 : Lists(out2[m], j) /\ out2[m].usb = k
  <2>1. PICK m \in DOMAIN out : Lists(out[m], j) /\ out[m].usb = k
    BY DEF ListedTo
  <2> QED
    BY <1>2, <2>1
<1>4. ASSUME NEW m \in DOMAIN out2, Lists(out2[m], j) PROVE out2[m].usb \in 1..n
  BY <1>1, <1>4 DEF ListedTo
<1>5. ASSUME NEW m \in DOMAIN out2, NEW l \in DOMAIN out2, m < l,
             Lists(out2[m], j), Lists(out2[l], j)
      PROVE  out2[m].usb < out2[l].usb
  BY <1>1, <1>5 DEF ListedTo
<1> QED
  BY <1>3, <1>4, <1>5 DEF ListedTo

\* Lines of other handles, and listed devices, leave the answers alone.
LEMMA AnswersKept ==
  ASSUME NEW out, NEW out2, NEW lines, Extends(out, out2, lines), NEW j, NEW n,
         AskedTo(out, j, n), \A i \in DOMAIN lines : ~Answers(lines[i], j)
  PROVE  AskedTo(out2, j, n)
<1>1. ASSUME NEW m \in DOMAIN out2, Answers(out2[m], j) PROVE m \in DOMAIN out /\ out2[m] = out[m]
  BY <1>1, NewOrOld
<1>2. \A m \in DOMAIN out : m \in DOMAIN out2 /\ out2[m] = out[m]
  BY OldStays
<1>3. ASSUME NEW k \in 1..n
      PROVE  \E m \in DOMAIN out2 : Answers(out2[m], j) /\ out2[m].asked = Sets[k]
  <2>1. PICK m \in DOMAIN out : Answers(out[m], j) /\ out[m].asked = Sets[k]
    BY DEF AskedTo
  <2> QED
    BY <1>2, <2>1
<1>4. ASSUME NEW m \in DOMAIN out2, Answers(out2[m], j)
      PROVE  \E k \in 1..n : out2[m].asked = Sets[k]
  BY <1>1, <1>4 DEF AskedTo
<1>5. ASSUME NEW m \in DOMAIN out2, NEW l \in DOMAIN out2, NEW k \in 1..4, NEW i \in 1..4,
             m < l, Answers(out2[m], j), Answers(out2[l], j),
             out2[m].asked = Sets[k], out2[l].asked = Sets[i]
      PROVE  k < i
  <2>1. /\ m \in DOMAIN out /\ out2[m] = out[m] /\ l \in DOMAIN out /\ out2[l] = out[l]
    BY <1>1, <1>5
  <2>2. Answers(out[m], j) /\ Answers(out[l], j) /\ out[m].asked = Sets[k] /\ out[l].asked = Sets[i]
    BY <1>5, <2>1
  <2> QED
    BY <1>5, <2>1, <2>2 DEF AskedTo
<1> QED
  BY <1>3, <1>4, <1>5 DEF AskedTo

\* The next devices of a handle are listed.
LEMMA ListingGrows ==
  ASSUME NEW out, NEW out2, NEW lines, Extends(out, out2, lines), NEW j, NEW a \in Nat,
         ListedTo(out, j, a),
         \A i \in DOMAIN lines : Lists(lines[i], j) /\ lines[i].usb = a + i
  PROVE  ListedTo(out2, j, a + Len(lines))
<1>1. PICK b : b = Len(lines)
  OBVIOUS
<1>2. PICK n : n = Len(out)
  OBVIOUS
<1>3. /\ \A m \in DOMAIN out : m \in DOMAIN out2 /\ out2[m] = out[m]
      /\ \A i \in 1..b : n + i \in DOMAIN out2 /\ out2[n + i] = lines[i]
      /\ \A m \in DOMAIN out, i \in 1..b : ~(n + i < m)
      /\ n \in Nat /\ b \in Nat /\ DOMAIN lines = 1..b
  BY <1>1, <1>2, OldStays
<1>4. ASSUME NEW m \in DOMAIN out2
      PROVE  \/ m \in DOMAIN out /\ out2[m] = out[m]
             \/ \E i \in 1..b : m = n + i /\ out2[m] = lines[i]
  <2>1. \/ m \in DOMAIN out /\ out2[m] = out[m]
        \/ \E i \in DOMAIN lines : m = Len(out) + i /\ out2[m] = lines[i]
    BY NewOrOld
  <2> QED
    BY <1>2, <1>3, <2>1
<1>5. ASSUME NEW k \in 1..(a + b) PROVE \E m \in DOMAIN out2 : Lists(out2[m], j) /\ out2[m].usb = k
  <2>1. CASE k \in 1..a
    <3>1. PICK m \in DOMAIN out : Lists(out[m], j) /\ out[m].usb = k
      BY <2>1 DEF ListedTo
    <3> QED
      BY <1>3, <3>1
  <2>2. CASE k \notin 1..a
    <3>1. PICK i \in 1..b : k = a + i
      <4>1. k - a \in 1..b /\ k = a + (k - a)
        BY <1>3, <2>2
      <4> QED
        BY <4>1
    <3> QED
      BY <1>3, <3>1
  <2> QED
    BY <2>1, <2>2
<1>6. ASSUME NEW m \in DOMAIN out2, Lists(out2[m], j) PROVE out2[m].usb \in 1..(a + b)
  <2>1. CASE m \in DOMAIN out /\ out2[m] = out[m]
    <3>1. out2[m].usb \in 1..a
      BY <1>6, <2>1 DEF ListedTo
    <3> QED
      BY <1>3, <3>1
  <2>2. ASSUME NEW i \in 1..b, out2[m] = lines[i] PROVE out2[m].usb \in 1..(a + b)
    <3>1. out2[m].usb = a + i
      BY <1>3, <2>2
    <3> QED
      BY <1>3, <3>1
  <2> QED
    BY <1>4, <2>1, <2>2
<1>7. ASSUME NEW m \in DOMAIN out2, NEW l \in DOMAIN out2, m < l,
             Lists(out2[m], j), Lists(out2[l], j)
      PROVE  out2[m].usb < out2[l].usb
  <2>1. CASE l \in DOMAIN out /\ out2[l] = out[l]
    <3>1. m \in DOMAIN out /\ out2[m] = out[m]
      BY <1>3, <1>4, <1>7, <2>1
    <3> QED
      BY <1>7, <2>1, <3>1 DEF ListedTo
  <2>2. ASSUME NEW i \in 1..b, l = n + i, out2[l] = lines[i] PROVE out2[m].usb < out2[l].usb
    <3>1. out2[l].usb = a + i
      BY <1>3, <2>2
    <3>2. CASE m \in DOMAIN out /\ out2[m] = out[m]
      <4>1. out2[m].usb \in 1..a
        BY <1>7, <3>2 DEF ListedTo
      <4> QED
        BY <3>1, <4>1
    <3>3. ASSUME NEW h \in 1..b, m = n + h, out2[m] = lines[h] PROVE out2[m].usb < out2[l].usb
      <4>1. out2[m].usb = a + h
        BY <1>3, <3>3
      <4>2. h < i
        BY <1>3, <1>7, <2>2, <3>3
      <4> QED
        BY <1>3, <3>1, <4>1, <4>2
    <3> QED
      BY <1>4, <3>2, <3>3
  <2> QED
    BY <1>4, <2>1, <2>2
<1>8. ListedTo(out2, j, a + b)
  BY <1>5, <1>6, <1>7 DEF ListedTo
<1> QED
  BY <1>1, <1>8

LEMMA SetsDiffer ==
  /\ \A k, i \in 1..4 : Sets[k] = Sets[i] => k = i
  /\ \A k \in 1..4 : Sets[k] \in Range(Sets)
  /\ \A set \in Range(Sets) : \E k \in 1..4 : set = Sets[k]
  /\ DOMAIN Sets = 1..4
BY DEF Sets, Range

\* The next set is answered.
LEMMA AnswersGrow ==
  ASSUME NEW out, NEW out2, NEW lines, Extends(out, out2, lines), NEW j, NEW a \in 0..3,
         AskedTo(out, j, a), Len(lines) = 1, Answers(lines[1], j), lines[1].asked = Sets[a + 1]
  PROVE  AskedTo(out2, j, a + 1)
<1>1. PICK n : n = Len(out)
  OBVIOUS
<1>2. /\ \A m \in DOMAIN out : m \in DOMAIN out2 /\ out2[m] = out[m] /\ ~(n + 1 < m)
      /\ n + 1 \in DOMAIN out2 /\ out2[n + 1] = lines[1]
      /\ n \in Nat /\ DOMAIN lines = {1}
  <2>1. DOMAIN lines = 1..1 /\ 1 \in DOMAIN lines
    BY OldStays
  <2> QED
    BY <1>1, <2>1, OldStays
<1>3. ASSUME NEW m \in DOMAIN out2
      PROVE  \/ m \in DOMAIN out /\ out2[m] = out[m]
             \/ m = n + 1 /\ out2[m] = lines[1]
  BY <1>1, <1>2, NewOrOld
<1>4. ASSUME NEW k \in 1..(a + 1)
      PROVE  \E m \in DOMAIN out2 : Answers(out2[m], j) /\ out2[m].asked = Sets[k]
  <2>1. CASE k \in 1..a
    <3>1. PICK m \in DOMAIN out : Answers(out[m], j) /\ out[m].asked = Sets[k]
      BY <2>1 DEF AskedTo
    <3> QED
      BY <1>2, <3>1
  <2>2. CASE k = a + 1
    BY <1>2, <2>2
  <2> QED
    BY <2>1, <2>2
<1>5. ASSUME NEW m \in DOMAIN out2, Answers(out2[m], j)
      PROVE  \E k \in 1..(a + 1) : out2[m].asked = Sets[k]
  <2>1. CASE m \in DOMAIN out /\ out2[m] = out[m]
    <3>1. PICK k \in 1..a : out2[m].asked = Sets[k]
      BY <1>5, <2>1 DEF AskedTo
    <3>2. k \in 1..(a + 1)
      OBVIOUS
    <3> QED
      BY <3>1, <3>2
  <2>2. CASE out2[m] = lines[1]
    BY <2>2
  <2> QED
    BY <1>3, <2>1, <2>2
<1>6. ASSUME NEW m \in DOMAIN out2, NEW l \in DOMAIN out2, NEW k \in 1..4, NEW i \in 1..4,
             m < l, Answers(out2[m], j), Answers(out2[l], j),
             out2[m].asked = Sets[k], out2[l].asked = Sets[i]
      PROVE  k < i
  <2>1. m \in DOMAIN out /\ out2[m] = out[m]
    BY <1>2, <1>3, <1>6
  <2>2. CASE l \in DOMAIN out /\ out2[l] = out[l]
    <3>1. Answers(out[m], j) /\ Answers(out[l], j) /\ out[m].asked = Sets[k] /\ out[l].asked = Sets[i]
      BY <1>6, <2>1, <2>2
    <3> QED
      BY <1>6, <2>1, <2>2, <3>1 DEF AskedTo
  <2>3. CASE out2[l] = lines[1]
    <3>1. Sets[i] = Sets[a + 1] /\ a + 1 \in 1..4
      BY <1>6, <2>3
    <3>2. i = a + 1
      BY <3>1, SetsDiffer
    <3>3. PICK h \in 1..a : out[m].asked = Sets[h]
      BY <1>6, <2>1 DEF AskedTo
    <3>4. h \in 1..4 /\ Sets[k] = Sets[h]
      BY <1>6, <2>1, <3>3
    <3>5. k = h
      BY <3>4, SetsDiffer
    <3> QED
      BY <3>2, <3>5
  <2> QED
    BY <1>3, <2>2, <2>3
<1> QED
  BY <1>4, <1>5, <1>6 DEF AskedTo

LEMMA RightAnswersGrow ==
  ASSUME NEW out, NEW out2, NEW lines, Extends(out, out2, lines), NEW j, NEW prog, NEW device,
         RightAnswers(out, prog, j, device),
         \A i \in DOMAIN lines : Answers(lines[i], j) => RightAnswer(lines[i], prog, device)
  PROVE  RightAnswers(out2, prog, j, device)
<1> SUFFICES ASSUME NEW m \in DOMAIN out2, Answers(out2[m], j)
             PROVE  RightAnswer(out2[m], prog, device)
  BY DEF RightAnswers
<1>1. CASE m \in DOMAIN out /\ out2[m] = out[m]
  BY <1>1 DEF RightAnswers
<1>2. ASSUME NEW i \in DOMAIN lines, out2[m] = lines[i] PROVE RightAnswer(out2[m], prog, device)
  BY <1>2
<1> QED
  BY <1>1, <1>2, NewOrOld
\* What a handle was told stays while lines of another are printed.
LEMMA OthersStayTold ==
  ASSUME NEW out, NEW out2, NEW lines, Extends(out, out2, lines), NEW j, NEW prog, NEW device,
         Complete(out, prog, j, device), \A i \in DOMAIN lines : lines[i].handle # j
  PROVE  Complete(out2, prog, j, device)
<1>1. \A i \in DOMAIN lines : ~Lists(lines[i], j) /\ ~Answers(lines[i], j)
  BY DEF Lists, Answers
<1>2. PICK n : n = Len(ShownOf(prog, device))
  OBVIOUS
<1>3. ListedTo(out, j, n) /\ AskedTo(out, j, 4) /\ RightAnswers(out, prog, j, device)
  BY <1>2 DEF Complete, Told
<1>4. ListedTo(out2, j, n) /\ AskedTo(out2, j, 4) /\ RightAnswers(out2, prog, j, device)
  BY <1>1, <1>3, ListingKept, AnswersKept, RightAnswersGrow
<1> QED
  BY <1>2, <1>4 DEF Complete, Told

\* The bookkeeping of a longer output: no later handle, and no more lines.
LEMMA LongerOutput ==
  ASSUME NEW out, NEW out2, NEW lines, Extends(out, out2, lines), NEW j \in Nat \ {0},
         NEW said \in Nat, UpTo(out, j, said), \A i \in DOMAIN lines : lines[i].handle = j
  PROVE  UpTo(out2, j, said + Len(lines))
<1>1. ASSUME NEW m \in DOMAIN out2 PROVE out2[m].handle <= j
  <2>1. CASE m \in DOMAIN out /\ out2[m] = out[m]
    BY <2>1 DEF UpTo
  <2>2. ASSUME NEW i \in DOMAIN lines, out2[m] = lines[i] PROVE out2[m].handle <= j
    BY <2>2
  <2> QED
    BY <2>1, <2>2, NewOrOld
<1>2. Len(out2) = Len(out) + Len(lines) /\ Len(out) \in Nat /\ Len(lines) \in Nat
  BY OldStays DEF Extends
<1>3. PICK room : room = (j - 1) * MostLines
  OBVIOUS
<1>4. room \in Nat
  <2>1. ASSUME NEW a \in Nat, NEW b \in Nat PROVE a * b \in Nat
    OBVIOUS
  <2> QED
    BY <1>3, <2>1, MaxOutputIsNat
<1>5. Len(out2) <= room + (said + Len(lines))
  <2>1. Len(out) <= room + said
    BY <1>3 DEF UpTo
  <2> QED
    BY <1>2, <1>4, <2>1
<1> QED
  BY <1>1, <1>3, <1>5 DEF UpTo

LEMMA ProgressLists ==
  ASSUME NEW out, NEW out2, NEW lines, Extends(out, out2, lines), NEW j \in Nat \ {0},
         NEW prog, NEW device, NEW listed \in Nat, NEW answered \in 0..4,
         Progress(out, prog, j, device, listed, answered),
         \A i \in DOMAIN lines : Lists(lines[i], j) /\ lines[i].usb = listed + i
  PROVE  Progress(out2, prog, j, device, listed + Len(lines), answered)
<1>1. /\ ListedTo(out, j, listed) /\ AskedTo(out, j, answered) /\ RightAnswers(out, prog, j, device)
      /\ UpTo(out, j, listed + answered)
  BY DEF Progress, Told
<1>2. \A i \in DOMAIN lines : lines[i].handle = j /\ ~Answers(lines[i], j)
  BY DEF Lists, Answers
<1>3. ListedTo(out2, j, listed + Len(lines))
  BY <1>1, ListingGrows
<1>4. AskedTo(out2, j, answered) /\ RightAnswers(out2, prog, j, device)
  BY <1>1, <1>2, AnswersKept, RightAnswersGrow
<1>5. UpTo(out2, j, (listed + answered) + Len(lines))
  BY <1>1, <1>2, LongerOutput
<1>6. (listed + answered) + Len(lines) = (listed + Len(lines)) + answered
  BY OldStays
<1> QED
  BY <1>3, <1>4, <1>5, <1>6 DEF Progress, Told

LEMMA ProgressAnswers ==
  ASSUME NEW out, NEW out2, NEW lines, Extends(out, out2, lines), NEW j \in Nat \ {0},
         NEW prog, NEW device, NEW listed \in Nat, NEW answered \in 0..3,
         Progress(out, prog, j, device, listed, answered),
         Len(lines) = 1, Answers(lines[1], j), lines[1].asked = Sets[answered + 1],
         RightAnswer(lines[1], prog, device)
  PROVE  Progress(out2, prog, j, device, listed, answered + 1)
<1>1. /\ ListedTo(out, j, listed) /\ AskedTo(out, j, answered) /\ RightAnswers(out, prog, j, device)
      /\ UpTo(out, j, listed + answered)
  BY DEF Progress, Told
<1>2. DOMAIN lines = {1}
  <2>1. DOMAIN lines = 1..1
    BY OldStays
  <2> QED
    BY <2>1
<1>3. \A i \in DOMAIN lines : /\ lines[i].handle = j /\ ~Lists(lines[i], j)
                              /\ RightAnswer(lines[i], prog, device)
  BY <1>2 DEF Lists, Answers
<1>4. AskedTo(out2, j, answered + 1)
  BY <1>1, AnswersGrow
<1>5. ListedTo(out2, j, listed) /\ RightAnswers(out2, prog, j, device)
  BY <1>1, <1>3, ListingKept, RightAnswersGrow
<1>6. UpTo(out2, j, (listed + answered) + Len(lines))
  <2>1. listed + answered \in Nat /\ \A i \in DOMAIN lines : lines[i].handle = j
    BY <1>3
  <2> QED
    BY <1>1, <2>1, LongerOutput
<1>7. (listed + answered) + Len(lines) = listed + (answered + 1)
  OBVIOUS
<1> QED
  BY <1>4, <1>5, <1>6, <1>7 DEF Progress, Told

\* While a handle has something left to say, there is room for it.
LEMMA RoomForLines ==
  ASSUME NEW j \in 1..ArraySize, NEW n \in Nat, NEW more \in Nat, NEW said \in Nat,
         n <= (j - 1) * MostLines + said, said + more <= MostLines
  PROVE  n + more <= MaxOutput
<1>1. PICK k : k = MostLines
  OBVIOUS
<1>2. k \in Nat /\ ArraySize \in Nat /\ MaxOutput = ArraySize * k /\ MaxOutput \in Nat
  BY <1>1, MaxOutputIsNat
<1>3. (j - 1) * k + k <= ArraySize * k
  <2>1. PICK d \in Nat : ArraySize = j + d
    <3>1. ArraySize - j \in Nat /\ ArraySize = j + (ArraySize - j)
      BY <1>2
    <3> QED
      BY <3>1
  <2>2. ASSUME NEW a \in Nat, NEW b \in Nat, NEW c \in Nat
        PROVE  /\ (a + 1 + b) * c = a * c + c + b * c
               /\ a * c \in Nat /\ b * c \in Nat
    OBVIOUS
  <2>3. j - 1 \in Nat /\ ArraySize = (j - 1) + 1 + d
    BY <1>2, <2>1
  <2>4. /\ ArraySize * k = (j - 1) * k + k + d * k
        /\ (j - 1) * k \in Nat /\ d * k \in Nat
    BY <1>2, <2>2, <2>3
  <2>5. PICK x : x = (j - 1) * k
    OBVIOUS
  <2>6. PICK y : y = d * k
    OBVIOUS
  <2>7. x + k <= x + k + y
    BY <1>2, <2>4, <2>5, <2>6
  <2> QED
    BY <2>4, <2>5, <2>6, <2>7
<1>4. PICK room : room = (j - 1) * k
  OBVIOUS
<1>5. room \in Nat
  <2>1. ASSUME NEW a \in Nat, NEW b \in Nat PROVE a * b \in Nat
    OBVIOUS
  <2> QED
    BY <1>2, <1>4, <2>1
<1>6. n <= room + said /\ room + k <= MaxOutput /\ said + more <= k
  BY <1>1, <1>2, <1>3, <1>4
<1> QED
  BY <1>2, <1>5, <1>6

\* Nothing was said of the next handle yet.
LEMMA NextHandleUntold ==
  ASSUME NEW out \in Seq(Line), NEW j \in Nat \ {0}, NEW prog, NEW device, NEW device2,
         NEW listed \in Nat, NEW answered \in 0..4, listed + answered <= MostLines,
         Progress(out, prog, j, device, listed, answered)
  PROVE  Progress(out, prog, j + 1, device2, 0, 0)
<1>1. \A m \in DOMAIN out : out[m].handle <= j
  BY DEF Progress, UpTo
<1>2. \A m \in DOMAIN out : out[m].handle \in Nat
  <2>1. \A m \in DOMAIN out : out[m] \in Line
    OBVIOUS
  <2> QED
    BY <2>1 DEF Line
<1>3. \A m \in DOMAIN out : out[m].handle <= j + 1 /\ out[m].handle # j + 1
  BY <1>1, <1>2
<1>4. \A m \in DOMAIN out : ~Lists(out[m], j + 1) /\ ~Answers(out[m], j + 1)
  BY <1>3 DEF Lists, Answers
<1>5. Told(out, prog, j + 1, device2, 0, 0)
  BY <1>4 DEF Told, ListedTo, AskedTo, RightAnswers
<1>6. Len(out) <= (j + 1 - 1) * MostLines + (0 + 0)
  <2>1. PICK k : k = MostLines
    OBVIOUS
  <2>2. k \in Nat
    BY <2>1, MaxOutputIsNat
  <2>3. ASSUME NEW a \in Nat, NEW b \in Nat PROVE (a + 1) * b = a * b + b /\ a * b \in Nat
    OBVIOUS
  <2>4. (j - 1) + 1 = j /\ j + 1 - 1 = j /\ j - 1 \in Nat
    OBVIOUS
  <2>5. j * k = (j - 1) * k + k /\ (j - 1) * k \in Nat
    BY <2>2, <2>3, <2>4
  <2>6. PICK room : room = (j - 1) * k
    OBVIOUS
  <2>7. Len(out) <= room + (listed + answered) /\ listed + answered <= k
    BY <2>1, <2>6 DEF Progress, UpTo
  <2>8. Len(out) \in Nat
    OBVIOUS
  <2>9. Len(out) <= room + k
    BY <2>2, <2>5, <2>6, <2>7, <2>8
  <2>10. PICK next : next = j * k
    OBVIOUS
  <2>11. (j + 1 - 1) * MostLines = next /\ next = room + k /\ next \in Nat
    BY <2>1, <2>2, <2>4, <2>5, <2>6, <2>10
  <2> QED
    BY <2>9, <2>11
<1> QED
  BY <1>3, <1>5, <1>6 DEF Progress, UpTo

LEMMA MinOfTwo ==
  ASSUME NEW a \in Nat, NEW b \in Nat
  PROVE  Min({a, b}) = IF a <= b THEN a ELSE b
<1> DEFINE S == {a, b}
           x == IF a <= b THEN a ELSE b
<1>1. S \subseteq Nat /\ x \in S /\ \A s \in S : x <= s
  OBVIOUS
<1> HIDE DEF S, x
<1>2. Min(S) = x
  BY <1>1, MinIs
<1> QED
  BY <1>2 DEF S, x

\* What a program shows of a device are the devices of its list from the first on.
LEMMA ShownIsPrefix ==
  ASSUME NEW device \in Device, NEW prog \in Program
  PROVE  LET n == Len(ShownOf(prog, device))
         IN  /\ n \in Nat /\ n <= ListSize(device) /\ ListSize(device) \in 1..MaxUsb
             /\ ListSize(device) \in Nat /\ MaxUsb \in Nat
             /\ prog = "c" => n = ListSize(device)
             /\ prog = "zig" => n = IF UsbBuffer <= ListSize(device) THEN UsbBuffer ELSE ListSize(device)
             /\ DOMAIN ShownOf(prog, device) = 1..n
             /\ \A k \in 1..n : ShownOf(prog, device)[k] = device.usbDevices[k]
<1>1. PICK list : list = device.usbDevices
  OBVIOUS
<1>2. PICK size : size = Len(list)
  OBVIOUS
<1>3. list \in Seq(Range(list)) /\ size \in Nat /\ DOMAIN list = 1..size /\ size \in 1..MaxUsb /\ MaxUsb \in Nat
  BY <1>1, <1>2, DeviceAssumption, UsbAssumption DEF DeviceAssumption, UsbAssumption
<1>4. UsbBuffer \in Nat \ {0}
  BY BufferAssumption DEF BufferAssumption
<1>5. Min({UsbBuffer, size}) = IF UsbBuffer <= size THEN UsbBuffer ELSE size
  BY <1>3, <1>4, MinOfTwo
<1>6. CASE prog = "c"
  BY <1>1, <1>2, <1>3, <1>6 DEF ShownOf, ListSize
<1>7. CASE prog = "zig"
  <2>1. PICK n : n = IF UsbBuffer <= size THEN UsbBuffer ELSE size
    OBVIOUS
  <2>2. n \in Nat /\ n <= size /\ n \in 0..size
    BY <1>3, <1>4, <2>1
  <2>3. ShownOf(prog, device) = SubSeq(list, 1, n)
    BY <1>1, <1>2, <1>5, <1>7, <2>1 DEF ShownOf
  <2>4. PICK shown : shown = SubSeq(list, 1, n)
    OBVIOUS
  <2>5. Len(shown) = n /\ DOMAIN shown = 1..n /\ \A k \in 1..n : shown[k] = list[k]
    <3>1. \A i \in 1..n : list[i] \in Range(list)
      BY <1>3, <2>2 DEF Range
    <3>2. shown \in Seq(Range(list))
      BY <2>2, <2>4, <3>1, SubSeqProperties
    <3>3. Len(shown) = IF 1 <= n THEN n - 1 + 1 ELSE 0
      BY <2>2, <2>4, <3>1, SubSeqProperties
    <3>4. \A i \in 1..(n - 1 + 1) : shown[i] = list[1 + i - 1]
      BY <2>2, <2>4, <3>1, SubSeqProperties
    <3>5. \A i \in 1..n : i \in 1..(n - 1 + 1) /\ 1 + i - 1 = i
      BY <2>2
    <3> QED
      BY <2>2, <3>2, <3>3, <3>4, <3>5
  <2> QED
    BY <1>1, <1>2, <1>3, <1>7, <2>1, <2>2, <2>3, <2>4, <2>5 DEF ListSize
<1> QED
  BY <1>6, <1>7 DEF Program
\* A call on a handle moves iterators at most: the array and the devices stay.
CallOnHandle ==
  /\ pc \in OnHandle
  /\ UNCHANGED <<program, devices, count>>
  /\ \A a \in Registered : heap'[a].device = heap[a].device

\* The entries the scan filled, while the program has them.
LEMMA EntriesAreDevices ==
  ASSUME IInv, AtFilledEntry, ReportedHandlesAreLive, ~Ended, NEW j \in 1..count
  PROVE  devices[j] \in Registered /\ heap[devices[j]] \in Handle /\ DeviceOf(j) \in Device
<1>1. devices[j] \in Registered
  BY DEF AtFilledEntry, ReportedHandlesAreLive
<1>2. heap[devices[j]] \in Handle
  BY <1>1, RegistryDistinct DEF IInv
<1> QED
  BY <1>1, <1>2 DEF DeviceOf, Handle

\* What is printed of the handle the program is at is never cut off.
LEMMA LinesArePrinted ==
  ASSUME index \in 1..ArraySize, NEW said \in Nat, UpTo(output, index, said),
         output \in Seq(Line), NEW lines \in Seq(Line), said + Len(lines) <= MostLines, Say(lines)
  PROVE  output' = output \o lines
<1>1. Len(output) <= (index - 1) * MostLines + said
  BY DEF UpTo
<1>2. Len(output) \in Nat /\ Len(lines) \in Nat
  OBVIOUS
<1>3. Len(output) + Len(lines) <= MaxOutput
  BY <1>1, <1>2, RoomForLines
<1> QED
  BY <1>3 DEF Say

\* One call on the handle the program is at: if what was printed so far is right and the
\* program goes on accordingly, all is as it should be.
LEMMA CallProgress ==
  ASSUME IInv, AtFilledEntry, ReportedHandlesAreLive, ClientTypeInv, ProgressInv,
         CallOnHandle, GoesOn,
         NEW lines \in Seq(Line), \A i \in DOMAIN lines : lines[i].handle = index,
         output' = output \o lines,
         NEW listed \in Nat, NEW answered \in 0..4,
         Progress(output', program, index, DeviceOf(index), listed, answered),
         index' = index => listed = ListedSoFar' /\ answered = AnsweredSoFar' /\ PlaceInv',
         NextHandle => /\ listed = Len(ShownOf(program, DeviceOf(index))) /\ answered = 4
                       /\ program = "zig" => NoneTooLong(ShownOf(program, DeviceOf(index)))
  PROVE  ProgressInv'
<1>1. PICK out : out = output
  OBVIOUS
<1>2. PICK out2 : out2 = output'
  OBVIOUS
<1>3. out \in Seq(Line) /\ out2 \in Seq(Line) /\ Extends(out, out2, lines)
  BY <1>1, <1>2, ConcatExtends DEF ClientTypeInv
<1>4. ~Ended /\ index \in 1..count /\ count \in 0..ArraySize /\ ArraySize \in Nat /\ program \in Program
  BY BoundsAssumption DEF CallOnHandle, OnHandle, Ended, AtFilledEntry, IInv, TypeOK, BoundsAssumption
<1>5. \A j \in 1..count : DeviceOf(j)' = DeviceOf(j) /\ DeviceOf(j) \in Device
  BY <1>4, EntriesAreDevices DEF CallOnHandle, DeviceOf
<1>6. /\ program' = program /\ pc' # "find_all" /\ (pc' = "free" => program' = "c")
      /\ \/ index' = index /\ pc' \in OnHandle \cup {"gave up"}
         \/ index' = index + 1 /\ NextHandle
  BY DEF CallOnHandle, GoesOn, NextHandle, OnHandle
<1>7. Through = 1..(index - 1)
  BY <1>4 DEF Through
<1>8. \A j \in Through : Complete(out2, program, j, DeviceOf(j))
  <2> SUFFICES ASSUME NEW j \in Through PROVE Complete(out2, program, j, DeviceOf(j))
    OBVIOUS
  <2>1. Complete(out, program, j, DeviceOf(j))
    BY <1>1 DEF ProgressInv
  <2>2. j # index
    BY <1>4, <1>7
  <2> QED
    BY <1>3, <2>1, <2>2, OthersStayTold
<1>9. CASE index' = index /\ pc' \in OnHandle \cup {"gave up"}
  <2>1. Through' \subseteq Through
    BY <1>6, <1>7, <1>9 DEF Through
  <2>2. \A j \in Through : j \in 1..count
    BY <1>4, <1>7
  <2>3. \A j \in Through' : Complete(out2, program, j, DeviceOf(j)')
    BY <1>5, <1>8, <2>1, <2>2
  <2>4. Progress(out2, program, index, DeviceOf(index)', ListedSoFar', AnsweredSoFar')
    BY <1>2, <1>4, <1>5, <1>9
  <2>5. DeviceOf(index') = DeviceOf(index)
    BY <1>9
  <2>6. pc' # "find_all" /\ (pc' = "free" => program' = "c") /\ PlaceInv'
    BY <1>6, <1>9
  <2>7. Progress(output, program, index, DeviceOf(index), ListedSoFar, AnsweredSoFar)'
    <3>1. DeviceOf(index)' = heap'[devices'[index]].device
      BY <1>9 DEF DeviceOf
    <3> QED
      BY <1>2, <1>6, <1>9, <2>4
  <2>8. \A j \in Through' : Complete(output, program, j, DeviceOf(j))'
    BY <1>2, <1>6, <2>3
  <2> QED
    BY <2>6, <2>7, <2>8 DEF ProgressInv
<1>10. CASE index' = index + 1 /\ NextHandle
  <2>1. /\ listed = Len(ShownOf(program, DeviceOf(index))) /\ answered = 4
        /\ program = "zig" => NoneTooLong(ShownOf(program, DeviceOf(index)))
    BY <1>10
  <2>2. Complete(out2, program, index, DeviceOf(index))
    BY <1>2, <1>4, <1>5, <2>1 DEF Complete, Progress
  <2>3. \A j \in 1..index : Complete(out2, program, j, DeviceOf(j)')
    <3>1. \A j \in 1..index : j = index \/ j \in Through
      BY <1>4, <1>7
    <3>2. \A j \in 1..index : j \in 1..count
      BY <1>4
    <3> QED
      BY <1>5, <1>8, <2>2, <3>1, <3>2
  <2>4. Through' \subseteq 1..index
    BY <1>4, <1>10 DEF Through
  <2>5. \A j \in Through' : Complete(output, program, j, DeviceOf(j))'
    BY <1>2, <1>6, <2>3, <2>4
  <2>6. pc' \in {"is_valid", "free", "done"}
    BY <1>10 DEF NextHandle
  <2>7. ASSUME pc' = "is_valid"
        PROVE  /\ Progress(output, program, index, DeviceOf(index), ListedSoFar, AnsweredSoFar)'
               /\ PlaceInv'
    <3>1. listed + answered <= MostLines
      <4>1. DeviceOf(index) \in Device
        BY <1>4, <1>5
      <4>2. listed \in Nat /\ listed <= MaxUsb
        <5>1. PICK d \in Device : d = DeviceOf(index)
          BY <4>1
        <5>2. /\ Len(ShownOf(program, d)) \in Nat /\ Len(ShownOf(program, d)) <= ListSize(d)
              /\ ListSize(d) \in 1..MaxUsb /\ MaxUsb \in Nat
          BY <1>4, ShownIsPrefix
        <5> QED
          BY <2>1, <5>1, <5>2
      <4> QED
        BY <2>1, <4>2, UsbAssumption DEF MostLines, UsbAssumption
    <3>2. index \in Nat \ {0}
      BY <1>4
    <3>3. Progress(out2, program, index + 1, DeviceOf(index)', 0, 0)
      <4>1. Progress(out2, program, index, DeviceOf(index), listed, answered)
        BY <1>2
      <4> QED
        BY <1>3, <3>1, <3>2, <4>1, NextHandleUntold
    <3>4. ListedSoFar' = 0 /\ AnsweredSoFar' = 0
      BY <2>7 DEF ListedSoFar, AnsweredSoFar, Asking
    <3>5. PlaceInv'
      BY <2>7 DEF PlaceInv, Asking
    <3>6. Progress(output', program', index', DeviceOf(index)', ListedSoFar', AnsweredSoFar')
      BY <1>2, <1>6, <1>10, <3>3, <3>4
    <3> QED
      BY <3>5, <3>6
  <2>8. pc' # "find_all" /\ (pc' \in OnHandle \cup {"gave up"} => pc' = "is_valid")
    BY <2>6 DEF OnHandle
  <2> QED
    BY <1>6, <2>5, <2>7, <2>8 DEF ProgressInv, AtHandle
<1> QED
  BY <1>6, <1>9, <1>10
LEMMA AtTheHandle ==
  ASSUME IInv, AtFilledEntry, HandlesInUseAreLive, pc \in OnHandle
  PROVE  /\ index \in 1..count /\ index \in 1..ArraySize /\ index \in Nat \ {0}
         /\ program \in Program /\ ~Ended /\ AtHandle
         /\ Current \in Registered /\ heap[Current] \in Handle /\ heap[Current].iter.pos \in Nat
         /\ DeviceOf(index) = heap[Current].device /\ DeviceOf(index) \in Device
         /\ ListSize(DeviceOf(index)) \in 1..MaxUsb /\ MaxUsb \in Nat
         /\ Shown(index) = ShownOf(program, DeviceOf(index))
<1>1. Current \in Registered /\ index \in 1..count
  BY DEF HandlesInUseAreLive
<1>2. count \in 0..ArraySize /\ ArraySize \in Nat
  BY BoundsAssumption DEF IInv, TypeOK, BoundsAssumption
<1>3. heap[Current] \in Handle
  BY <1>1, RegistryDistinct DEF IInv
<1>4. heap[Current].device \in Device /\ heap[Current].iter.pos \in Nat
  BY <1>3 DEF Handle, Iterator
<1>5. DeviceOf(index) = heap[Current].device
  BY DEF DeviceOf, Current
<1>6. ListSize(DeviceOf(index)) \in 1..MaxUsb /\ MaxUsb \in Nat
  BY <1>4, <1>5, UsbAssumption DEF UsbAssumption, ListSize
<1>7. Shown(index) = ShownOf(program, DeviceOf(index))
  BY DEF Shown, ShownOf, DeviceOf
<1>8. program \in Program /\ ~Ended /\ AtHandle
  BY DEF AtFilledEntry, OnHandle, Ended, AtHandle
<1> QED
  BY <1>1, <1>2, <1>3, <1>4, <1>5, <1>6, <1>7, <1>8

LEMMA PositionOnHandle ==
  ASSUME IInv, NEW p \in Registered, NEW iter, Position(p, iter)
  PROVE  /\ UNCHANGED <<devices, count>>
         /\ \A a \in Registered : heap'[a].device = heap[a].device
         /\ heap'[p].iter = iter
<1>1. heap' = [heap EXCEPT ![p].iter = iter] /\ UNCHANGED <<devices, count>>
  BY DEF Position
<1>2. Registered \subseteq Addr /\ heap \in [Addr -> Handle \cup {NoHandle}]
  BY RegistryDistinct DEF IInv, TypeOK
<1>3. heap[p] \in Handle
  BY RegistryDistinct DEF IInv
<1>4. heap'[p] = [heap[p] EXCEPT !.iter = iter]
  BY <1>1, <1>2
<1>5. heap'[p].iter = iter /\ heap'[p].device = heap[p].device
  BY <1>3, <1>4 DEF Handle
<1>6. \A a \in Registered : a # p => heap'[a] = heap[a]
  BY <1>1, <1>2
<1> QED
  BY <1>1, <1>5, <1>6

\* A call after which nothing is printed.
LEMMA SilentProgress ==
  ASSUME IInv, AtFilledEntry, ReportedHandlesAreLive, ClientTypeInv, ProgressInv,
         CallOnHandle, GoesOn, output' = output,
         NEW listed \in Nat, NEW answered \in 0..4,
         Progress(output, program, index, DeviceOf(index), listed, answered),
         index' = index => listed = ListedSoFar' /\ answered = AnsweredSoFar' /\ PlaceInv',
         NextHandle => /\ listed = Len(ShownOf(program, DeviceOf(index))) /\ answered = 4
                       /\ program = "zig" => NoneTooLong(ShownOf(program, DeviceOf(index)))
  PROVE  ProgressInv'
<1>1. PICK lines : lines = <<>>
  OBVIOUS
<1>2. lines \in Seq(Line) /\ \A i \in DOMAIN lines : lines[i].handle = index
  BY <1>1
<1>3. output' = output \o lines
  BY <1>1 DEF ClientTypeInv
<1>4. Progress(output', program, index, DeviceOf(index), listed, answered)
  OBVIOUS
<1> QED
  BY <1>2, <1>3, <1>4, CallProgress

LEMMA CheckHandleProgress ==
  ASSUME IInv, AtFilledEntry, HandlesInUseAreLive, ReportedHandlesAreLive, ClientTypeInv,
         ProgressInv, CheckHandle
  PROVE  ProgressInv'
<1>1. /\ pc = "is_valid" /\ pc \in OnHandle /\ IsValid(Current) /\ asked' = 0
      /\ UNCHANGED <<program, usb_devices, output>>
  BY DEF CheckHandle, OnHandle
<1>2. Current \in Registered /\ program \in Program /\ AtHandle
  BY <1>1, AtTheHandle
<1>3. answer' = ValidSaid(Current) /\ UNCHANGED <<devices, count, heap>>
  BY <1>1, <1>2 DEF IsValid
<1>4. index' = index /\ pc' = IF program = "c" THEN "set" ELSE "begin"
  BY <1>3 DEF CheckHandle, GoTo
<1>5. CallOnHandle /\ GoesOn
  BY <1>1, <1>3, <1>4 DEF CallOnHandle, GoesOn, OnHandle
<1>6. Progress(output, program, index, DeviceOf(index), 0, 0)
  BY <1>1, <1>2 DEF ProgressInv, ListedSoFar, AnsweredSoFar, Asking
<1>7. ListedSoFar' = 0 /\ AnsweredSoFar' = 0
  BY <1>1, <1>2, <1>4 DEF ListedSoFar, AnsweredSoFar, Asking, Program
<1>8. PlaceInv'
  BY <1>1, <1>2, <1>4 DEF PlaceInv, Asking, Program
<1>9. ~NextHandle
  <2>1. index \in Nat
    BY DEF AtFilledEntry
  <2> QED
    BY <1>4, <2>1 DEF NextHandle
<1> QED
  BY <1>1, <1>5, <1>6, <1>7, <1>8, <1>9, SilentProgress

\* The answer for the next set is printed: the program asks for the one after it, begins
\* to list, or is through with the handle.
LEMMA AnswerProgress ==
  ASSUME IInv, AtFilledEntry, HandlesInUseAreLive, ReportedHandlesAreLive, ClientTypeInv,
         ProgressInv, Asking, Asked, CallOnHandle, UNCHANGED usb_devices,
         NEW line \in Line, Answers(line, index), line.asked = Sets[asked + 1],
         RightAnswer(line, program, DeviceOf(index)), Say(<<line>>)
  PROVE  ProgressInv'
<1> DEFINE listed == IF program = "c" THEN 0 ELSE Len(ShownOf(program, DeviceOf(index)))
           lines == <<line>>
<1>1. pc \in OnHandle /\ program' = program
  BY DEF CallOnHandle
<1>2. /\ index \in 1..ArraySize /\ index \in Nat \ {0} /\ program \in Program /\ AtHandle
      /\ DeviceOf(index) \in Device /\ Shown(index) = ShownOf(program, DeviceOf(index))
      /\ index \in 1..count /\ ~Ended
  BY <1>1, AtTheHandle
<1>3. asked \in 0..3
  BY DEF ClientTypeInv
<1>4. PICK d \in Device : d = DeviceOf(index)
  BY <1>2
<1>5. listed \in Nat /\ listed <= MaxUsb /\ MaxUsb \in Nat
  <2>1. /\ Len(ShownOf(program, d)) \in Nat /\ Len(ShownOf(program, d)) <= ListSize(d)
        /\ ListSize(d) \in 1..MaxUsb /\ MaxUsb \in Nat
    BY <1>2, ShownIsPrefix
  <2> QED
    BY <1>4, <2>1
<1>6. listed = ListedSoFar /\ asked = AnsweredSoFar
  BY <1>2 DEF ListedSoFar, AnsweredSoFar, Asking
<1>7. Progress(output, program, index, DeviceOf(index), listed, asked)
  BY <1>2, <1>6 DEF ProgressInv
<1>8. lines \in Seq(Line) /\ Len(lines) = 1 /\ lines[1] = line /\ DOMAIN lines = {1}
  OBVIOUS
<1> HIDE DEF listed, lines
<1>9. output \in Seq(Line)
  BY DEF ClientTypeInv
<1>10. output' = output \o lines
  <2>1. UpTo(output, index, listed + asked)
    BY <1>7 DEF Progress
  <2>2. listed + asked \in Nat /\ (listed + asked) + Len(lines) <= MostLines
    BY <1>3, <1>5, <1>8 DEF MostLines
  <2>3. Say(lines)
    BY DEF lines
  <2> QED
    BY <1>2, <1>8, <1>9, <2>1, <2>2, <2>3, LinesArePrinted
<1>11. Progress(output', program, index, DeviceOf(index), listed, asked + 1)
  <2>1. Extends(output, output', lines)
    BY <1>8, <1>9, <1>10, ConcatExtends
  <2>2. PICK out2 : out2 = output'
    OBVIOUS
  <2>3. Progress(out2, program, index, DeviceOf(index), listed, asked + 1)
    BY <1>2, <1>3, <1>5, <1>7, <1>8, <2>1, <2>2, ProgressAnswers
  <2> QED
    BY <2>2, <2>3
<1>12. asked + 1 \in 0..4 /\ asked' = asked + 1
  BY <1>3 DEF Asked
<1>13. GoesOn
  BY AskedGoesOn
<1>14. \A i \in DOMAIN lines : lines[i].handle = index
  BY <1>8 DEF Answers
<1>15. program = "zig" => NoneTooLong(ShownOf(program, DeviceOf(index)))
  BY <1>2 DEF ProgressInv, PlaceInv
<1>16. ASSUME index' = index
       PROVE  listed = ListedSoFar' /\ asked + 1 = AnsweredSoFar' /\ PlaceInv'
  <2>1. ~NextHandle
    BY <1>2, <1>16 DEF NextHandle
  <2>2. \/ asked + 1 < 4 /\ pc' = "set"
        \/ asked + 1 = 4 /\ program = "c" /\ pc' = "begin"
    <3>1. asked + 1 < 4 \/ asked + 1 = 4
      BY <1>3
    <3> QED
      BY <2>1, <3>1, SetsAre DEF Asked, GoTo
  <2>3. DeviceOf(index)' = DeviceOf(index) /\ DeviceOf(index') = DeviceOf(index)
    <3>1. devices[index] \in Registered
      BY <1>2, EntriesAreDevices
    <3> QED
      BY <1>16, <3>1 DEF CallOnHandle, DeviceOf
  <2>4. Shown(index)' = Shown(index)
    BY <1>1, <1>16, <2>3 DEF Shown, DeviceOf
  <2>5. program = "c" => ListedSoFar' = 0
    BY <1>1, <2>2 DEF ListedSoFar
  <2>6. program = "zig" => ListedSoFar' = Len(Shown(index))
    BY <1>1, <2>2, <2>4 DEF ListedSoFar, Asking
  <2>7. listed = ListedSoFar'
    BY <1>2, <2>5, <2>6 DEF listed, Program
  <2>8. asked + 1 = AnsweredSoFar'
    BY <1>1, <1>12, <2>2 DEF AnsweredSoFar, Asking
  <2>9. PlaceInv'
    BY <1>1, <1>2, <1>15, <2>2, <2>4 DEF PlaceInv, Asking
  <2> QED
    BY <2>7, <2>8, <2>9
<1>17. ASSUME NextHandle
       PROVE  /\ listed = Len(ShownOf(program, DeviceOf(index))) /\ asked + 1 = 4
              /\ program = "zig" => NoneTooLong(ShownOf(program, DeviceOf(index)))
  <2>1. index' # index
    BY <1>2, <1>17 DEF NextHandle
  <2>2. asked + 1 = 4 /\ program # "c"
    <3>1. ~(asked + 1 < Len(Sets)) /\ program # "c"
      BY <2>1 DEF Asked, GoTo
    <3> QED
      BY <1>3, <3>1, SetsAre
  <2> QED
    BY <1>15, <2>2 DEF listed
<1> QED
  BY <1>5, <1>8, <1>10, <1>11, <1>12, <1>13, <1>14, <1>16, <1>17, CallProgress
LEMMA AskForProgress ==
  ASSUME IInv, AtFilledEntry, HandlesInUseAreLive, ReportedHandlesAreLive, ClientTypeInv,
         ProgressInv, NEW iter_set \in Range(Sets), AskFor(iter_set), ClientTypeInv'
  PROVE  ProgressInv'
<1>1. /\ pc = "set" /\ Asking /\ pc \in OnHandle /\ iter_set = Sets[asked + 1]
      /\ UNCHANGED <<program, usb_devices>>
  BY DEF AskFor, Asking, OnHandle
<1>2. /\ Current \in Registered /\ program \in Program /\ AtHandle /\ index \in Nat \ {0}
      /\ DeviceOf(index) = heap[Current].device /\ DeviceOf(index) \in Device
      /\ Shown(index) = ShownOf(program, DeviceOf(index)) /\ index \in 1..count /\ ~Ended
  BY <1>1, AtTheHandle
<1>3. CASE SetDevice(Current, iter_set) /\ GoTo("get set") /\ UNCHANGED <<asked, errorVars, output>>
  <2>1. PICK target : target = Target(DeviceOf(index), iter_set)
    OBVIOUS
  <2>2. target \in Nat
    <3>1. iter_set \in IterSet
      BY DEF Range, Sets, IterSet
    <3>2. PICK d \in Device : d = DeviceOf(index)
      BY <1>2
    <3>3. ListSize(d) \in Nat /\ Target(d, iter_set) \in 0..ListSize(d)
      BY <3>1, ListSizeIsNat, TargetInList
    <3> QED
      BY <2>1, <3>2, <3>3
  <2>3. PICK iter : iter = [valid |-> TRUE, pos |-> target - 1]
    OBVIOUS
  <2>4. Position(Current, iter)
    BY <1>2, <1>3, <2>1, <2>3 DEF SetDevice, SetIterator, OnFreedMemory
  <2>5. /\ UNCHANGED <<devices, count>>
        /\ \A a \in Registered : heap'[a].device = heap[a].device
        /\ heap'[Current].iter = iter
    BY <1>2, <2>4, PositionOnHandle
  <2>6. pc' = "get set" /\ index' = index /\ asked' = asked /\ output' = output
    BY <1>3 DEF GoTo
  <2>7. CallOnHandle /\ GoesOn
    BY <1>1, <2>5, <2>6 DEF CallOnHandle, GoesOn, OnHandle
  <2>8. Current' = Current
    BY <2>5, <2>6 DEF Current
  <2>9. DeviceOf(index)' = DeviceOf(index)
    <3>1. devices[index] \in Registered
      BY <1>2, EntriesAreDevices
    <3> QED
      BY <2>5, <2>6, <3>1 DEF DeviceOf
  <2>10. Shown(index)' = Shown(index)
    BY <1>1, <2>6, <2>9 DEF Shown, DeviceOf
  <2>11. heap'[Current'].iter.pos + 1 = Target(DeviceOf(index)', Sets[asked' + 1])
    <3>1. heap'[Current'].iter.pos = target - 1
      BY <2>3, <2>5, <2>8
    <3>2. Target(DeviceOf(index)', Sets[asked' + 1]) = target
      BY <1>1, <2>1, <2>6, <2>9
    <3> QED
      BY <2>2, <3>1, <3>2
  <2>12. program = "zig" => NoneTooLong(Shown(index)')
    BY <1>1, <1>2, <2>10 DEF ProgressInv, PlaceInv
  <2>13. PlaceInv'
    BY <1>1, <2>6, <2>11, <2>12 DEF PlaceInv, Asking
  <2>14. PICK listed : listed = ListedSoFar
    OBVIOUS
  <2>15. ListedSoFar' = listed
    BY <1>1, <1>2, <2>6, <2>10, <2>14 DEF ListedSoFar, Asking, Program
  <2>16. AnsweredSoFar' = asked /\ AnsweredSoFar = asked
    BY <1>1, <2>6 DEF AnsweredSoFar, Asking
  <2>17. Progress(output, program, index, DeviceOf(index), listed, asked)
    BY <1>2, <2>14, <2>16 DEF ProgressInv
  <2>18. listed \in Nat /\ asked \in 0..4
    <3>1. PICK d \in Device : d = DeviceOf(index)
      BY <1>2
    <3>2. Len(ShownOf(program, d)) \in Nat
      BY <1>2, ShownIsPrefix
    <3> QED
      BY <1>1, <1>2, <2>14, <3>1, <3>2 DEF ListedSoFar, ClientTypeInv
  <2>19. ~NextHandle
    BY <1>2, <2>6 DEF NextHandle
  <2> QED
    BY <2>6, <2>7, <2>13, <2>15, <2>16, <2>17, <2>18, <2>19, SilentProgress
<1>4. CASE /\ Target(heap[Current].device, iter_set) = 0
           /\ Refused
           /\ Say(<<Missing(iter_set, error_message')>>)
           /\ Asked
  <2>1. PICK line : line = Missing(iter_set, error_message')
    OBVIOUS
  <2>2. line \in Line /\ Answers(line, index) /\ line.asked = iter_set
    <3>1. error_message' \in Text
      BY DEF ClientTypeInv
    <3> QED
      BY <1>2, <2>1, <3>1 DEF Missing, Line, Answers
  <2>3. RightAnswer(line, program, DeviceOf(index))
    BY <1>2, <1>4, <2>1 DEF Missing, RightAnswer
  <2>4. CallOnHandle
    BY <1>1, <1>4 DEF Refused, CallOnHandle
  <2>5. Say(<<line>>)
    BY <1>4, <2>1
  <2> QED
    BY <1>1, <1>4, <2>2, <2>3, <2>4, <2>5, AnswerProgress
<1> QED
  BY <1>3, <1>4 DEF AskFor

\* Of an iterator on a device the getters read that device.
LEMMA OnDeviceIsRead ==
  ASSUME NEW p, OnDevice(heap[p]), heap[p] \in Handle, ReadIterator(p)
  PROVE  answer' = OnDeviceOf(p) /\ UNCHANGED <<devices, count, heap>>
<1>1. heap[p].iter.valid /\ heap[p].iter.pos < ListSize(heap[p].device) /\ heap[p].iter.pos \in Nat
  BY DEF OnDevice, Handle, Iterator
<1>2. ListSize(heap[p].device) \in Nat
  BY ListSizeIsNat DEF Handle
<1>3. (heap[p].iter.pos = ListSize(heap[p].device)) = FALSE
  BY <1>1, <1>2
<1>4. AtEnd(heap[p]) = {FALSE}
  BY <1>1, <1>3 DEF AtEnd
<1>5. PICK end \in AtEnd(heap[p]) : answer' = IF end THEN Nothing ELSE OnDeviceOf(p)
  BY DEF ReadIterator
<1>6. end = FALSE
  BY <1>4, <1>5
<1> QED
  BY <1>5, <1>6 DEF ReadIterator

LEMMA PrintAskedProgress ==
  ASSUME IInv, IteratorInv, AtFilledEntry, HandlesInUseAreLive, ReportedHandlesAreLive,
         ReadsInv, ClientTypeInv, ProgressInv,
         NEW iter_set \in Range(Sets), PrintAsked(iter_set)
  PROVE  ProgressInv'
<1>1. /\ pc = "get set" /\ Asking /\ pc \in OnHandle /\ iter_set = Sets[asked + 1]
      /\ UNCHANGED <<program, usb_devices>> /\ GetFromDevice(Current) /\ Asked
      /\ Say(IF ReadWhole THEN <<Found(iter_set, Usb)>>
             ELSE IF program = "c" THEN <<>> ELSE <<Unread(iter_set, error_message)>>)
  BY DEF PrintAsked, Asking, OnHandle
<1>2. /\ Current \in Registered /\ program \in Program /\ AtHandle /\ index \in Nat \ {0}
      /\ DeviceOf(index) = heap[Current].device /\ DeviceOf(index) \in Device
      /\ heap[Current] \in Handle /\ heap[Current].iter.pos \in Nat
  BY <1>1, AtTheHandle
<1>3. PICK d \in Device : d = DeviceOf(index)
  BY <1>2
<1>4. PICK usb : usb = Usb
  OBVIOUS
<1>5. Target(d, iter_set) = usb /\ usb = heap[Current].iter.pos + 1
  BY <1>1, <1>2, <1>3, <1>4 DEF ProgressInv, PlaceInv, Usb
<1>6. usb \in 1..ListSize(d) /\ ListSize(d) \in Nat
  <2>1. iter_set \in IterSet
    BY DEF Range, Sets, IterSet
  <2>2. Target(d, iter_set) \in 0..ListSize(d) /\ ListSize(d) \in Nat
    BY <2>1, TargetInList, ListSizeIsNat
  <2> QED
    BY <1>2, <1>5, <2>2
<1>7. OnDevice(heap[Current])
  <2>1. Current \notin resized
    BY <1>1 DEF ReadsInv
  <2>2. heap[Current].iter.valid
    BY <1>2, <2>1 DEF IteratorInv, InRange
  <2>3. heap[Current].iter.pos < ListSize(heap[Current].device)
    BY <1>2, <1>3, <1>5, <1>6
  <2> QED
    BY <2>2, <2>3 DEF OnDevice
<1>8. answer' = OnDeviceOf(Current) /\ UNCHANGED <<devices, count, heap>>
  BY <1>1, <1>2, <1>7, OnDeviceIsRead, LiveCalls
<1>9. CallOnHandle
  BY <1>1, <1>8 DEF CallOnHandle
<1>10. CASE ReadWhole
  <2>1. PICK line : line = Found(iter_set, usb)
    OBVIOUS
  <2>2. line \in Line /\ Answers(line, index) /\ line.asked = iter_set
    BY <1>2, <1>6, <2>1 DEF Found, Line, Answers
  <2>3. RightAnswer(line, program, d)
    BY <1>5, <1>6, <2>1 DEF Found, RightAnswer
  <2>4. Say(<<line>>)
    BY <1>1, <1>4, <1>10, <2>1
  <2> QED
    BY <1>1, <1>3, <1>9, <2>2, <2>3, <2>4, AnswerProgress
<1>11. CASE ~ReadWhole
  <2>1. /\ program = "zig"
        /\ ~ChainFits(Len(heap[Current].device.usbDevices[Usb].portChain), PortChainBuffer)
    BY <1>8, <1>11 DEF ReadWhole
  <2>2. TooLong(d.usbDevices[usb])
    <3>1. PICK length : length = Len(d.usbDevices[usb].portChain)
      OBVIOUS
    <3>2. length \in Nat /\ PortChainBuffer \in Nat
      <4>1. usb \in DOMAIN d.usbDevices
        BY <1>6, DeviceAssumption DEF DeviceAssumption, ListSize
      <4> QED
        BY <3>1, <4>1, UsbAssumption, BufferAssumption DEF UsbAssumption, BufferAssumption
    <3>3. ~(length < PortChainBuffer)
      BY <1>2, <1>3, <1>4, <2>1, <3>1 DEF ChainFits
    <3> QED
      BY <3>1, <3>2, <3>3 DEF TooLong
  <2>3. PICK line : line = Unread(iter_set, error_message)
    OBVIOUS
  <2>4. line \in Line /\ Answers(line, index) /\ line.asked = iter_set
    BY <1>2, <2>3 DEF Unread, Line, Answers, ClientTypeInv
  <2>5. RightAnswer(line, program, d)
    BY <1>5, <1>6, <2>1, <2>2, <2>3 DEF Unread, RightAnswer
  <2>6. Say(<<line>>)
    BY <1>1, <1>11, <2>1, <2>3
  <2> QED
    BY <1>1, <1>3, <1>9, <2>4, <2>5, <2>6, AnswerProgress
<1> QED
  BY <1>10, <1>11

LEMMA BeginProgress ==
  ASSUME IInv, AtFilledEntry, HandlesInUseAreLive, ReportedHandlesAreLive, ClientTypeInv,
         ProgressInv, BeginListing
  PROVE  ProgressInv'
<1>1. /\ pc = "begin" /\ pc \in OnHandle /\ Begin(Current) /\ usb_devices' = <<>>
      /\ pc' = "get" /\ index' = index /\ UNCHANGED <<program, asked, output>>
  BY DEF BeginListing, GoTo, OnHandle
<1>2. /\ Current \in Registered /\ program \in Program /\ AtHandle /\ index \in Nat \ {0}
      /\ DeviceOf(index) = heap[Current].device /\ heap[Current] \in Handle
      /\ ListSize(DeviceOf(index)) \in 1..MaxUsb /\ MaxUsb \in Nat
  BY <1>1, AtTheHandle
<1>3. PICK iter : iter = [valid |-> TRUE, pos |-> 0]
  OBVIOUS
<1>4. Position(Current, iter)
  BY <1>1, <1>2, <1>3, LiveCalls DEF RewindIterator
<1>5. /\ UNCHANGED <<devices, count>>
      /\ \A a \in Registered : heap'[a].device = heap[a].device
      /\ heap'[Current].iter = iter
  BY <1>2, <1>4, PositionOnHandle
<1>6. CallOnHandle /\ GoesOn
  BY <1>1, <1>5 DEF CallOnHandle, GoesOn, OnHandle
<1>7. Current' = Current
  BY <1>1, <1>5 DEF Current
<1>8. heap'[Current'].iter.pos = 0 /\ OnDevice(heap'[Current'])
  BY <1>2, <1>3, <1>5, <1>7 DEF OnDevice
<1>9. PlaceInv'
  <2>1. DOMAIN usb_devices' = {} /\ Len(usb_devices') = 0 /\ 0 <= UsbBuffer
    BY <1>1, BufferAssumption DEF BufferAssumption
  <2>2. program = "zig" => asked = 0
    BY <1>1, <1>2 DEF ProgressInv, PlaceInv
  <2> QED
    BY <1>1, <1>8, <2>1, <2>2 DEF PlaceInv, Asking
<1>10. PICK answered \in {0, 4} : answered = AnsweredSoFar
  BY <1>1 DEF AnsweredSoFar, Asking
<1>11. AnsweredSoFar' = answered /\ ListedSoFar' = 0 /\ ListedSoFar = 0
  BY <1>1, <1>8, <1>10 DEF AnsweredSoFar, ListedSoFar, Asking
<1>12. Progress(output, program, index, DeviceOf(index), 0, answered)
  BY <1>2, <1>10, <1>11 DEF ProgressInv
<1>13. ~NextHandle
  BY <1>1, <1>2 DEF NextHandle
<1> QED
  BY <1>1, <1>6, <1>9, <1>10, <1>11, <1>12, <1>13, SilentProgress
\* The iterator is on a device: its place, its line, and whether the chain fits.
LEMMA AtDevice ==
  ASSUME IInv, AtFilledEntry, HandlesInUseAreLive, ProgressInv, pc \in {"get", "next"}
  PROVE  \E pos \in Nat :
           /\ pos = heap[Current].iter.pos /\ OnDevice(heap[Current])
           /\ pos < ListSize(DeviceOf(index)) /\ Usb = pos + 1
           /\ pos + 1 \in DOMAIN DeviceOf(index).usbDevices
<1>1. pc \in OnHandle
  BY DEF OnHandle
<1>2. /\ AtHandle /\ heap[Current].iter.pos \in Nat /\ DeviceOf(index) = heap[Current].device
      /\ DeviceOf(index) \in Device
  BY <1>1, AtTheHandle
<1>3. OnDevice(heap[Current])
  BY <1>2 DEF ProgressInv, PlaceInv
<1>4. PICK pos \in Nat : pos = heap[Current].iter.pos
  BY <1>2
<1>5. pos < ListSize(DeviceOf(index))
  BY <1>2, <1>3, <1>4 DEF OnDevice
<1>6. PICK d \in Device : d = DeviceOf(index)
  BY <1>2
<1>7. DOMAIN d.usbDevices = 1..ListSize(d) /\ ListSize(d) \in Nat
  BY DeviceAssumption DEF DeviceAssumption, ListSize
<1>8. pos + 1 \in 1..ListSize(d)
  BY <1>5, <1>6, <1>7
<1> QED
  BY <1>3, <1>4, <1>5, <1>6, <1>7, <1>8 DEF Usb

LEMMA PrintListedProgress ==
  ASSUME IInv, AtFilledEntry, HandlesInUseAreLive, ReportedHandlesAreLive, ClientTypeInv,
         ProgressInv, PrintListed
  PROVE  ProgressInv'
<1>1. /\ pc = "get" /\ pc \in OnHandle /\ program = "c" /\ GetFromDevice(Current)
      /\ UNCHANGED <<program, asked, usb_devices>>
  BY DEF PrintListed, OnHandle
<1>2. /\ Current \in Registered /\ AtHandle /\ index \in Nat \ {0} /\ index \in 1..ArraySize
      /\ heap[Current] \in Handle /\ ListSize(DeviceOf(index)) \in 1..MaxUsb /\ MaxUsb \in Nat
  BY <1>1, AtTheHandle
<1>3. PICK pos \in Nat : /\ pos = heap[Current].iter.pos /\ OnDevice(heap[Current])
                         /\ pos < ListSize(DeviceOf(index)) /\ Usb = pos + 1
  BY <1>1, AtDevice
<1>4. answer' = OnDeviceOf(Current) /\ UNCHANGED <<devices, count, heap>>
  BY <1>1, <1>2, <1>3, OnDeviceIsRead, LiveCalls
<1>5. ReadWhole
  BY <1>1, <1>4 DEF ReadWhole
<1>6. Say(<<Listed(Usb)>>) /\ pc' = "next" /\ index' = index
  BY <1>5 DEF PrintListed, GoTo
<1>7. PICK line : line = Listed(pos + 1)
  OBVIOUS
<1>8. line \in Line /\ Lists(line, index) /\ line.usb = pos + 1 /\ line.handle = index
  BY <1>2, <1>7 DEF Listed, Line, Lists
<1>9. PICK lines : lines = <<line>>
  OBVIOUS
<1>10. lines \in Seq(Line) /\ Len(lines) = 1 /\ DOMAIN lines = {1} /\ lines[1] = line
  BY <1>8, <1>9
<1>11. ListedSoFar = pos /\ AnsweredSoFar = 4
  BY <1>1, <1>3 DEF ListedSoFar, AnsweredSoFar, Asking
<1>12. Progress(output, program, index, DeviceOf(index), pos, 4)
  BY <1>2, <1>11 DEF ProgressInv
<1>13. output \in Seq(Line)
  BY DEF ClientTypeInv
<1>14. output' = output \o lines
  <2>1. UpTo(output, index, pos + 4)
    BY <1>12 DEF Progress
  <2>2. pos + 4 \in Nat /\ (pos + 4) + Len(lines) <= MostLines
    <3>1. PICK size \in 1..MaxUsb : pos < size
      BY <1>2, <1>3
    <3>2. (pos + 4) + 1 <= MaxUsb + 4
      BY <1>2, <3>1
    <3> QED
      BY <1>10, <3>2 DEF MostLines
  <2>3. Say(lines)
    BY <1>3, <1>6, <1>7, <1>9
  <2> QED
    BY <1>2, <1>10, <1>13, <2>1, <2>2, <2>3, LinesArePrinted
<1>15. Progress(output', program, index, DeviceOf(index), pos + 1, 4)
  <2>1. Extends(output, output', lines)
    BY <1>10, <1>13, <1>14, ConcatExtends
  <2>2. PICK out2 : out2 = output'
    OBVIOUS
  <2>3. \A i \in DOMAIN lines : Lists(lines[i], index) /\ lines[i].usb = pos + i
    BY <1>8, <1>10
  <2>4. Progress(out2, program, index, DeviceOf(index), pos + Len(lines), 4)
    BY <1>2, <1>12, <2>1, <2>2, <2>3, ProgressLists
  <2> QED
    BY <1>10, <2>2, <2>4
<1>16. CallOnHandle /\ GoesOn
  BY <1>1, <1>4, <1>6 DEF CallOnHandle, GoesOn, OnHandle
<1>17. heap'[Current'] = heap[Current]
  BY <1>4, <1>6 DEF Current
<1>18. ListedSoFar' = pos + 1 /\ AnsweredSoFar' = 4
  BY <1>1, <1>3, <1>6, <1>17 DEF ListedSoFar, AnsweredSoFar, Asking
<1>19. PlaceInv'
  BY <1>1, <1>3, <1>6, <1>17 DEF PlaceInv, Asking, OnDevice, ListSize
<1>20. ~NextHandle
  BY <1>2, <1>6 DEF NextHandle
<1>21. \A i \in DOMAIN lines : lines[i].handle = index
  BY <1>8, <1>10
<1>22. pos + 1 \in Nat /\ 4 \in 0..4
  OBVIOUS
<1> QED
  BY <1>10, <1>14, <1>15, <1>16, <1>18, <1>19, <1>20, <1>21, <1>22, CallProgress

LEMMA ReadListedProgress ==
  ASSUME IInv, AtFilledEntry, HandlesInUseAreLive, ReportedHandlesAreLive, ClientTypeInv,
         ProgressInv, ReadListed
  PROVE  ProgressInv'
<1>1. /\ pc = "get" /\ pc \in OnHandle /\ program = "zig" /\ GetFromDevice(Current)
      /\ Len(usb_devices) < UsbBuffer /\ UNCHANGED <<program, asked, output>>
      /\ usb_devices \in Seq(Nat)
  BY DEF ReadListed, OnHandle, ClientTypeInv
<1>2. /\ Current \in Registered /\ AtHandle /\ index \in Nat \ {0} /\ program \in Program
      /\ heap[Current] \in Handle /\ DeviceOf(index) \in Device
      /\ DeviceOf(index) = heap[Current].device /\ Shown(index) = ShownOf(program, DeviceOf(index))
  BY <1>1, AtTheHandle
<1>3. PICK pos \in Nat : /\ pos = heap[Current].iter.pos /\ OnDevice(heap[Current])
                         /\ pos < ListSize(DeviceOf(index)) /\ Usb = pos + 1
                         /\ pos + 1 \in DOMAIN DeviceOf(index).usbDevices
  BY <1>1, AtDevice
<1>4. answer' = OnDeviceOf(Current) /\ UNCHANGED <<devices, count, heap>>
  BY <1>1, <1>2, <1>3, OnDeviceIsRead, LiveCalls
<1>5. PICK d \in Device : d = DeviceOf(index)
  BY <1>2
<1>6. PICK length \in Nat : length = Len(d.usbDevices[pos + 1].portChain)
  BY <1>3, <1>5, UsbAssumption DEF UsbAssumption
<1>7. ReadWhole <=> length < PortChainBuffer
  BY <1>1, <1>2, <1>3, <1>4, <1>5, <1>6 DEF ReadWhole, ChainFits
<1>8. ReadWhole <=> ~TooLong(d.usbDevices[pos + 1])
  BY <1>6, <1>7, BufferAssumption DEF TooLong, BufferAssumption
<1>9. /\ Len(usb_devices) = pos
      /\ \A k \in DOMAIN usb_devices : usb_devices[k] = k /\ ~TooLong(d.usbDevices[k])
  BY <1>1, <1>2, <1>3, <1>5 DEF ProgressInv, PlaceInv
<1>10. index' = index /\ pc' = IF ReadWhole THEN "next" ELSE "gave up"
  BY DEF ReadListed, GoTo
<1>11. CallOnHandle /\ GoesOn
  BY <1>1, <1>4, <1>10 DEF CallOnHandle, GoesOn, OnHandle
<1>12. heap'[Current'] = heap[Current] /\ DeviceOf(index)' = DeviceOf(index)
  BY <1>4, <1>10 DEF Current, DeviceOf
<1>13. Shown(index)' = Shown(index)
  BY <1>1, <1>10, <1>12 DEF Shown, DeviceOf
<1>14. ~Asking' /\ ~Asking /\ program # "c"
  BY <1>1, <1>10 DEF Asking
<1>15. ListedSoFar' = 0 /\ AnsweredSoFar' = 0 /\ ListedSoFar = 0 /\ AnsweredSoFar = 0
  BY <1>1, <1>14 DEF ListedSoFar, AnsweredSoFar
<1>16. Progress(output, program, index, DeviceOf(index), 0, 0)
  BY <1>2, <1>15 DEF ProgressInv
<1>17. ~NextHandle
  BY <1>2, <1>10 DEF NextHandle
<1>18. UsbBuffer \in Nat
  BY BufferAssumption DEF BufferAssumption
<1>19. PlaceInv'
  <2>1. CASE ReadWhole
    <3>1. usb_devices' = Append(usb_devices, pos + 1) /\ pc' = "next"
      BY <1>3, <1>10, <2>1 DEF ReadListed
    <3>2. PICK used : used = usb_devices'
      OBVIOUS
    <3>3. Len(used) = pos + 1 /\ DOMAIN used = 1..(pos + 1)
      BY <1>1, <1>9, <3>1, <3>2
    <3>4. Len(used) <= UsbBuffer
      BY <1>1, <1>9, <1>18, <3>3
    <3>5. \A k \in DOMAIN used : used[k] = k /\ ~TooLong(d.usbDevices[k])
      <4> SUFFICES ASSUME NEW k \in 1..(pos + 1) PROVE used[k] = k /\ ~TooLong(d.usbDevices[k])
        BY <3>3
      <4>1. CASE k = pos + 1
        BY <1>1, <1>8, <1>9, <2>1, <3>1, <3>2, <4>1
      <4>2. CASE k \in 1..pos
        <5>1. k \in DOMAIN usb_devices /\ used[k] = usb_devices[k]
          BY <1>1, <1>9, <3>1, <3>2, <4>2
        <5> QED
          BY <1>9, <5>1
      <4>3. k = pos + 1 \/ k \in 1..pos
        OBVIOUS
      <4> QED
        BY <4>1, <4>2, <4>3
    <3>6. \A k \in DOMAIN usb_devices' :
            usb_devices'[k] = k /\ ~TooLong(heap'[devices'[index']].device.usbDevices[k])
      BY <1>5, <1>10, <1>12, <3>2, <3>5 DEF DeviceOf
    <3>7. asked' = 0
      BY <1>1, <1>2 DEF ProgressInv, PlaceInv
    <3> QED
      BY <1>1, <1>3, <1>12, <1>14, <3>1, <3>2, <3>3, <3>4, <3>6, <3>7
      DEF PlaceInv, OnDevice, ListSize, DeviceOf
  <2>2. CASE ~ReadWhole
    <3>1. pc' = "gave up" /\ TooLong(d.usbDevices[pos + 1])
      BY <1>8, <1>10, <2>2
    <3>2. ~NoneTooLong(Shown(index))
      <4>1. PICK n \in Nat : n = Len(ShownOf(program, d))
        BY <1>2, ShownIsPrefix
      <4>2. /\ n = IF UsbBuffer <= ListSize(d) THEN UsbBuffer ELSE ListSize(d)
            /\ DOMAIN ShownOf(program, d) = 1..n /\ ListSize(d) \in Nat
            /\ \A k \in 1..n : ShownOf(program, d)[k] = d.usbDevices[k]
        BY <1>1, <1>2, <4>1, ShownIsPrefix
      <4>3. pos + 1 \in 1..n
        BY <1>1, <1>3, <1>5, <1>9, <1>18, <4>2
      <4>4. pos + 1 \in DOMAIN ShownOf(program, d) /\ TooLong(ShownOf(program, d)[pos + 1])
        BY <3>1, <4>2, <4>3
      <4> QED
        BY <1>2, <1>5, <4>4 DEF NoneTooLong
    <3>3. program' = "zig" /\ ~NoneTooLong(Shown(index)')
      BY <1>1, <1>13, <3>2
    <3> QED
      BY <1>10, <1>14, <3>1, <3>3 DEF PlaceInv
  <2> QED
    BY <2>1, <2>2
<1> QED
  BY <1>1, <1>11, <1>15, <1>16, <1>17, <1>19, SilentProgress
\* The Zig binding's listing came back with all it shows of the device.
LEMMA ListingProgress ==
  ASSUME IInv, AtFilledEntry, HandlesInUseAreLive, ReportedHandlesAreLive, ClientTypeInv,
         ProgressInv, pc \in {"get", "next"}, program = "zig", CallOnHandle, ListingReturned,
         UNCHANGED <<asked, usb_devices>>,
         Len(usb_devices) = Len(ShownOf(program, DeviceOf(index)))
  PROVE  ProgressInv'
<1>1. pc \in OnHandle /\ program' = program /\ usb_devices \in Seq(Nat)
  BY DEF OnHandle, CallOnHandle, ClientTypeInv
<1>2. /\ AtHandle /\ index \in Nat \ {0} /\ index \in 1..ArraySize /\ program \in Program
      /\ DeviceOf(index) \in Device /\ Shown(index) = ShownOf(program, DeviceOf(index))
      /\ index \in 1..count /\ ~Ended
  BY <1>1, AtTheHandle
<1>3. pc' = "set" /\ index' = index /\ GoesOn
  BY DEF ListingReturned, GoTo, GoesOn, OnHandle
<1>4. PICK d \in Device : d = DeviceOf(index)
  BY <1>2
<1>5. PICK n \in Nat : n = Len(ShownOf(program, d))
  BY <1>2, ShownIsPrefix
<1>6. /\ DOMAIN ShownOf(program, d) = 1..n /\ ListSize(d) \in 1..MaxUsb /\ MaxUsb \in Nat
      /\ \A k \in 1..n : ShownOf(program, d)[k] = d.usbDevices[k]
      /\ n <= ListSize(d)
  BY <1>2, <1>5, ShownIsPrefix
<1>7. /\ DOMAIN usb_devices = 1..n
      /\ \A k \in 1..n : usb_devices[k] = k /\ ~TooLong(d.usbDevices[k])
  <2>1. DOMAIN usb_devices = 1..n
    BY <1>1, <1>4, <1>5
  <2> QED
    BY <1>2, <1>4, <2>1 DEF ProgressInv, PlaceInv
<1>8. PICK lines : lines = [k \in DOMAIN usb_devices |-> Listed(usb_devices[k])]
  OBVIOUS
<1>9. /\ lines \in Seq(Line) /\ Len(lines) = n /\ DOMAIN lines = 1..n
      /\ \A i \in 1..n : Lists(lines[i], index) /\ lines[i].usb = i /\ lines[i].handle = index
  <2>1. \A i \in 1..n : lines[i] = Listed(i)
    BY <1>7, <1>8
  <2>2. \A i \in 1..n : Listed(i) \in Line /\ Lists(Listed(i), index) /\ Listed(i).usb = i
    BY <1>2, <1>5 DEF Listed, Line, Lists
  <2>3. DOMAIN lines = 1..n
    BY <1>7, <1>8
  <2>4. lines = [i \in 1..n |-> Listed(i)]
    BY <1>7, <1>8
  <2>5. lines \in Seq(Line) /\ Len(lines) = n
    BY <1>5, <2>2, <2>4
  <2> QED
    BY <2>1, <2>2, <2>3, <2>5 DEF Lists
<1>10. ListedSoFar = 0 /\ AnsweredSoFar = 0
  BY DEF ListedSoFar, AnsweredSoFar, Asking
<1>11. Progress(output, program, index, DeviceOf(index), 0, 0)
  BY <1>2, <1>10 DEF ProgressInv
<1>12. output \in Seq(Line)
  BY DEF ClientTypeInv
<1>13. output' = output \o lines
  <2>1. UpTo(output, index, 0)
    <3>1. 0 + 0 = 0
      OBVIOUS
    <3> QED
      BY <1>11, <3>1 DEF Progress
  <2>2. 0 + Len(lines) <= MostLines
    <3>1. PICK size \in 1..MaxUsb : n <= size
      BY <1>6
    <3>2. 0 + n <= MaxUsb + 4
      BY <1>6, <3>1
    <3> QED
      BY <1>9, <3>2 DEF MostLines
  <2>3. Say(lines)
    BY <1>8 DEF ListingReturned
  <2> QED
    BY <1>2, <1>9, <1>12, <2>1, <2>2, <2>3, LinesArePrinted
<1>14. Progress(output', program, index, DeviceOf(index), n, 0)
  <2>1. Extends(output, output', lines)
    BY <1>9, <1>12, <1>13, ConcatExtends
  <2>2. PICK out2 : out2 = output'
    OBVIOUS
  <2>3. \A i \in DOMAIN lines : Lists(lines[i], index) /\ lines[i].usb = 0 + i
    BY <1>9
  <2>4. Progress(out2, program, index, DeviceOf(index), 0 + Len(lines), 0)
    BY <1>2, <1>11, <2>1, <2>2, <2>3, ProgressLists
  <2>5. 0 + Len(lines) = n
    BY <1>9
  <2> QED
    BY <2>2, <2>4, <2>5
<1>15. DeviceOf(index)' = DeviceOf(index)
  <2>1. devices[index] \in Registered
    BY <1>2, EntriesAreDevices
  <2> QED
    BY <1>3, <2>1 DEF CallOnHandle, DeviceOf
<1>16. Shown(index)' = Shown(index)
  BY <1>1, <1>3, <1>15 DEF Shown, DeviceOf
<1>17. NoneTooLong(Shown(index)')
  <2>1. NoneTooLong(ShownOf(program, d))
    BY <1>6, <1>7 DEF NoneTooLong
  <2> QED
    BY <1>2, <1>4, <1>16, <2>1
<1>18. asked' = 0
  BY <1>2 DEF ProgressInv, PlaceInv
<1>19. ListedSoFar' = n /\ AnsweredSoFar' = 0
  BY <1>1, <1>2, <1>3, <1>4, <1>5, <1>16, <1>18 DEF ListedSoFar, AnsweredSoFar, Asking
<1>20. PlaceInv'
  BY <1>1, <1>3, <1>17 DEF PlaceInv, Asking
<1>21. ~NextHandle
  BY <1>2, <1>3 DEF NextHandle
<1>22. \A i \in DOMAIN lines : lines[i].handle = index
  BY <1>9
<1>23. 0 \in 0..4
  OBVIOUS
<1> QED
  BY <1>3, <1>5, <1>9, <1>13, <1>14, <1>19, <1>20, <1>21, <1>22, <1>23, CallProgress

LEMMA SliceFullProgress ==
  ASSUME IInv, AtFilledEntry, HandlesInUseAreLive, ReportedHandlesAreLive, ClientTypeInv,
         ProgressInv, SliceFull
  PROVE  ProgressInv'
<1>1. /\ pc = "get" /\ pc \in OnHandle /\ program = "zig" /\ Len(usb_devices) = UsbBuffer
      /\ ListingReturned /\ UNCHANGED <<program, asked, usb_devices, devices, count, heap>>
  BY DEF SliceFull, OnHandle, vars
<1>2. AtHandle /\ program \in Program /\ DeviceOf(index) \in Device
  BY <1>1, AtTheHandle
<1>3. PICK pos \in Nat : pos = heap[Current].iter.pos /\ pos < ListSize(DeviceOf(index))
  BY <1>1, AtDevice
<1>4. Len(usb_devices) = pos
  BY <1>1, <1>2, <1>3 DEF ProgressInv, PlaceInv
<1>5. CallOnHandle
  BY <1>1 DEF CallOnHandle
<1>6. PICK d \in Device : d = DeviceOf(index)
  BY <1>2
<1>7. /\ Len(ShownOf(program, d)) = IF UsbBuffer <= ListSize(d) THEN UsbBuffer ELSE ListSize(d)
      /\ ListSize(d) \in Nat
  BY <1>1, <1>2, ShownIsPrefix
<1>8. UsbBuffer <= ListSize(d)
  BY <1>1, <1>3, <1>4, <1>6, <1>7
<1>9. Len(usb_devices) = Len(ShownOf(program, DeviceOf(index)))
  BY <1>1, <1>6, <1>7, <1>8
<1> QED
  BY <1>1, <1>5, <1>9, ListingProgress

LEMMA StepListingProgress ==
  ASSUME IInv, AtFilledEntry, HandlesInUseAreLive, ReportedHandlesAreLive, ClientTypeInv,
         ProgressInv, StepListing
  PROVE  ProgressInv'
<1>1. /\ pc = "next" /\ pc \in OnHandle /\ NextDevice(Current)
      /\ UNCHANGED <<program, asked, usb_devices>>
  BY DEF StepListing, OnHandle
<1>2. /\ Current \in Registered /\ AtHandle /\ index \in Nat \ {0} /\ program \in Program
      /\ heap[Current] \in Handle /\ DeviceOf(index) \in Device /\ index \in 1..count /\ ~Ended
      /\ DeviceOf(index) = heap[Current].device
  BY <1>1, AtTheHandle
<1>3. PICK pos \in Nat : /\ pos = heap[Current].iter.pos /\ OnDevice(heap[Current])
                         /\ pos < ListSize(DeviceOf(index))
  BY <1>1, AtDevice
<1>4. PICK d \in Device : d = DeviceOf(index)
  BY <1>2
<1>5. PICK size \in Nat : size = ListSize(d)
  BY ListSizeIsNat
<1>6. PICK h : h = heap[Current]
  OBVIOUS
<1>7. h \in Handle /\ h.iter.valid /\ h.iter.pos = pos /\ ListSize(h.device) = size /\ pos < size
  BY <1>2, <1>3, <1>4, <1>5, <1>6 DEF OnDevice
<1>8. PICK iter : iter = [h.iter EXCEPT !.pos = @ + 1]
  OBVIOUS
<1>9. /\ Position(Current, iter)
      /\ answer' = IF pos + 1 = size THEN Nothing ELSE OnDeviceOf(Current)
  <2>1. TRUE \notin AtEnd(h)
    <3>1. (h.iter.pos = ListSize(h.device)) = FALSE
      BY <1>7
    <3>2. AtEnd(h) = {FALSE}
      BY <1>7, <3>1 DEF AtEnd
    <3> QED
      BY <3>2
  <2> QED
    <3>1. StepIterator(Current)
      BY <1>1, <1>2, LiveCalls
    <3> QED
      BY <1>3, <1>6, <1>7, <1>8, <2>1, <3>1 DEF StepIterator
<1>10. iter.pos = pos + 1 /\ iter.valid
  BY <1>7, <1>8 DEF Handle, Iterator
<1>11. /\ UNCHANGED <<devices, count>>
       /\ \A a \in Registered : heap'[a].device = heap[a].device
       /\ heap'[Current].iter = iter
  BY <1>2, <1>9, PositionOnHandle
<1>12. CallOnHandle
  BY <1>1, <1>11 DEF CallOnHandle
<1>13. answer' = OnDeviceOf(Current) <=> pos + 1 # size
  BY <1>9 DEF OnDeviceOf, Nothing
<1>14. /\ Len(ShownOf(program, d)) \in Nat
       /\ program = "c" => Len(ShownOf(program, d)) = size
       /\ program = "zig" =>
            Len(ShownOf(program, d)) = IF UsbBuffer <= size THEN UsbBuffer ELSE size
  BY <1>2, <1>5, ShownIsPrefix
<1>15. program = "zig" => /\ Len(usb_devices) = pos + 1 /\ Len(usb_devices) <= UsbBuffer
                          /\ asked = 0
  BY <1>1, <1>2, <1>3 DEF ProgressInv, PlaceInv
<1>16. UsbBuffer \in Nat
  BY BufferAssumption DEF BufferAssumption
<1>17. PICK listed : listed = IF program = "c" THEN pos + 1 ELSE 0
  OBVIOUS
<1>18. PICK answered : answered = IF program = "c" THEN 4 ELSE 0
  OBVIOUS
<1>19. listed = ListedSoFar /\ answered = AnsweredSoFar /\ listed \in Nat /\ answered \in 0..4
  BY <1>1, <1>3, <1>17, <1>18 DEF ListedSoFar, AnsweredSoFar, Asking
<1>20. Progress(output, program, index, DeviceOf(index), listed, answered)
  BY <1>2, <1>19 DEF ProgressInv
<1>21. CASE pos + 1 # size
  <2>1. pc' = "get" /\ index' = index /\ output' = output
    BY <1>13, <1>21 DEF StepListing, GoTo
  <2>2. Current' = Current /\ DeviceOf(index)' = DeviceOf(index)
    BY <1>2, <1>11, <2>1 DEF Current, DeviceOf
  <2>3. heap'[Current'].iter.pos = pos + 1 /\ heap'[Current'].iter.valid
    BY <1>10, <1>11, <2>2
  <2>4. ListSize(heap'[Current'].device) = size
    BY <1>2, <1>4, <1>5, <1>11, <2>2
  <2>5. OnDevice(heap'[Current'])
    BY <1>7, <1>21, <2>3, <2>4 DEF OnDevice
  <2>6. ListedSoFar' = listed /\ AnsweredSoFar' = answered
    BY <1>1, <1>17, <1>18, <2>1, <2>3 DEF ListedSoFar, AnsweredSoFar, Asking
  <2>7. program = "zig" => \A k \in DOMAIN usb_devices :
          usb_devices[k] = k /\ ~TooLong(DeviceOf(index).usbDevices[k])
    BY <1>1, <1>2 DEF ProgressInv, PlaceInv
  <2>8. program = "zig" => \A k \in DOMAIN usb_devices' :
          usb_devices'[k] = k /\ ~TooLong(heap'[devices'[index']].device.usbDevices[k])
    BY <1>1, <2>1, <2>2, <2>7 DEF DeviceOf
  <2>9. PlaceInv'
    BY <1>1, <1>15, <2>1, <2>3, <2>5, <2>8 DEF PlaceInv, Asking, DeviceOf
  <2>10. GoesOn /\ ~NextHandle
    BY <1>2, <2>1 DEF GoesOn, NextHandle, OnHandle
  <2> QED
    BY <1>12, <1>19, <1>20, <2>1, <2>6, <2>9, <2>10, SilentProgress
<1>22. CASE pos + 1 = size /\ program = "c"
  <2>1. NextHandle /\ output' = output
    BY <1>13, <1>22 DEF StepListing
  <2>2. GoesOn /\ index' # index
    BY <1>2, <2>1 DEF GoesOn, NextHandle
  <2>3. listed = Len(ShownOf(program, DeviceOf(index))) /\ answered = 4
    BY <1>4, <1>14, <1>17, <1>18, <1>22
  <2>4. program # "zig"
    BY <1>22
  <2> QED
    BY <1>12, <1>19, <1>20, <2>1, <2>2, <2>3, <2>4, SilentProgress
<1>23. CASE pos + 1 = size /\ program = "zig"
  <2>1. ListingReturned
    BY <1>13, <1>23 DEF StepListing
  <2>2. size <= UsbBuffer
    BY <1>15, <1>23
  <2>3. Len(usb_devices) = Len(ShownOf(program, DeviceOf(index)))
    BY <1>4, <1>14, <1>15, <1>16, <1>23, <2>2
  <2> QED
    BY <1>1, <1>12, <1>23, <2>1, <2>3, ListingProgress
<1> QED
  BY <1>2, <1>21, <1>22, <1>23 DEF Program
LEMMA ProgressStep ==
  ASSUME IInv, IteratorInv, AtFilledEntry, HandlesInUseAreLive, ReportedHandlesAreLive,
         ReadsInv, ClientTypeInv, ProgressInv, [ClientNext]_clientVars, ClientTypeInv'
  PROVE  ProgressInv'
<1>1. CASE FindDevices
  <2>1. /\ pc = "find_all" /\ index' = 1 /\ output' = <<>> /\ UNCHANGED program
        /\ pc' \in {"is_valid", "free", "done"} /\ (pc' = "free" => program = "c")
    BY <1>1 DEF FindDevices, AtFilledEntry, ProgressInv
  <2>2. Through' = {}
    BY <2>1 DEF Through
  <2>3. PICK out : out = output'
    OBVIOUS
  <2>4. out \in Seq(Line) /\ Len(out) = 0 /\ DOMAIN out = {}
    BY <2>1, <2>3
  <2>5. ASSUME NEW prog, NEW device PROVE Progress(out, prog, 1, device, 0, 0)
    <3>1. Told(out, prog, 1, device, 0, 0)
      BY <2>4 DEF Told, ListedTo, AskedTo, RightAnswers
    <3>2. UpTo(out, 1, 0 + 0)
      <4>1. (1 - 1) * MostLines + (0 + 0) = 0
        BY MaxOutputIsNat
      <4> QED
        BY <2>4, <4>1 DEF UpTo
    <3> QED
      BY <3>1, <3>2 DEF Progress
  <2>6. pc' = "is_valid" => ListedSoFar' = 0 /\ AnsweredSoFar' = 0 /\ PlaceInv'
    BY DEF ListedSoFar, AnsweredSoFar, PlaceInv, Asking
  <2>7. pc' = "is_valid" =>
          Progress(output, program, index, DeviceOf(index), ListedSoFar, AnsweredSoFar)'
    BY <2>1, <2>3, <2>5, <2>6
  <2> QED
    BY <2>1, <2>2, <2>6, <2>7 DEF ProgressInv, AtHandle, OnHandle
<1>2. CASE FreeDevices
  <2>1. program = "c" /\ program' = "c" /\ pc' = "done"
    BY <1>2 DEF FreeDevices, GoTo, ProgressInv
  <2> QED
    BY <2>1 DEF ProgressInv, AtHandle, OnHandle, Through, Ended
<1>3. CASE UNCHANGED clientVars
  <2>1. /\ program' = program /\ pc' = pc /\ index' = index /\ asked' = asked
        /\ usb_devices' = usb_devices /\ output' = output /\ heap' = heap /\ devices' = devices
    BY <1>3 DEF clientVars, vars
  <2>2. DeviceOf(index)' = DeviceOf(index) /\ Current' = Current /\ Shown(index)' = Shown(index)
    BY <2>1 DEF DeviceOf, Current, Shown
  <2>3. Through' = Through /\ \A j : DeviceOf(j)' = DeviceOf(j)
    BY <2>1 DEF Through, Ended, DeviceOf
  <2>4. ListedSoFar' = ListedSoFar /\ AnsweredSoFar' = AnsweredSoFar /\ AtHandle' = AtHandle
    BY <2>1, <2>2 DEF ListedSoFar, AnsweredSoFar, Asking, AtHandle
  <2>5. PlaceInv' = PlaceInv
    BY <2>1, <2>2 DEF PlaceInv, Asking, OnDevice, ListSize
  <2> QED
    BY <2>1, <2>2, <2>3, <2>4, <2>5 DEF ProgressInv
<1> QED
  BY <1>1, <1>2, <1>3, CheckHandleProgress, AskForProgress, PrintAskedProgress, BeginProgress,
     PrintListedProgress, ReadListedProgress, SliceFullProgress, StepListingProgress
  DEF ClientNext

LEMMA ProgressInvariant == ClientSpec => [](ProgressInv /\ ClientTypeInv)
<1>1. ClientInit => ProgressInv
  <2> SUFFICES ASSUME ClientInit PROVE ProgressInv
    OBVIOUS
  <2>1. pc = "find_all" /\ output = <<>> /\ index = 1
    BY DEF ClientInit
  <2>2. Through = {}
    BY <2>1 DEF Through
  <2> QED
    BY <2>1, <2>2 DEF ProgressInv, AtHandle, OnHandle
<1>2. IInv /\ IteratorInv /\ AtFilledEntry /\ HandlesInUseAreLive /\ ReportedHandlesAreLive
        /\ ReadsInv /\ ClientTypeInv /\ ProgressInv /\ [ClientNext]_clientVars /\ ClientTypeInv'
        => ProgressInv'
  BY ProgressStep
<1>3. ClientSpec => Spec
  BY ProgramsUseTheApi DEF UsesTheApi
<1> QED
  BY <1>1, <1>2, <1>3, InductiveInvariant, IteratorInvariant, ClientInvariant, HandlesInUse,
     ReportedLive, ReadsInvariant, ClientTypeInvariant, PTL DEF ClientSpec

(* Whatever is plugged in and however the two programs mix asking, listing   *)
(* and failing calls, every handle they are through with was listed whole,   *)
(* each of its USB devices once and in the order of its vector; of the Zig   *)
(* test as many as fit the caller's slice (c_api_basic_usage.c:155-166,      *)
(* root.zig:240-259, cfwfinder.cpp:271-293).                                 *)
THEOREM ListedOnceInOrder == ClientSpec => []EachListedOnceInOrder
<1>1. ASSUME ProgressInv, AtFilledEntry PROVE EachListedOnceInOrder
  <2> SUFFICES ASSUME NEW j \in Through
               PROVE  LET lines == LinesOf(j, {"listed"})
                      IN  /\ {output[m].usb : m \in lines} = DOMAIN Shown(j)
                          /\ \A m, n \in lines : m < n => output[m].usb < output[n].usb
    BY DEF EachListedOnceInOrder
  <2>1. Complete(output, program, j, DeviceOf(j)) /\ program \in Program
    BY <1>1 DEF ProgressInv, AtFilledEntry
  <2>2. Shown(j) = ShownOf(program, DeviceOf(j))
    BY DEF Shown, ShownOf, DeviceOf
  <2>3. PICK d \in Device : d = DeviceOf(j)
    BY <2>1 DEF Complete
  <2>4. PICK n \in Nat : n = Len(ShownOf(program, d)) /\ DOMAIN ShownOf(program, d) = 1..n
    BY <2>1, ShownIsPrefix
  <2>5. ListedTo(output, j, n)
    BY <2>1, <2>3, <2>4 DEF Complete, Told
  <2>6. LinesOf(j, {"listed"}) = {m \in DOMAIN output : Lists(output[m], j)}
    BY DEF LinesOf, Lists
  <2>7. {output[m].usb : m \in LinesOf(j, {"listed"})} = 1..n
    BY <2>5, <2>6 DEF ListedTo
  <2>8. \A m, l \in LinesOf(j, {"listed"}) : m < l => output[m].usb < output[l].usb
    BY <2>5, <2>6 DEF ListedTo
  <2> QED
    BY <2>2, <2>3, <2>4, <2>7, <2>8
<1> QED
  BY <1>1, ProgressInvariant, ClientInvariant, PTL

(* Of every handle a program is through with it asked each set once, in      *)
(* order, and printed what the getter of that set finds, wherever an earlier *)
(* set or listing had left the iterator; only the Zig test may fail to read  *)
(* what was found, and only for its chain (cfwfinder.cpp:312-350).           *)
THEOREM AnswersAreTheGetters == ClientSpec => []EachAnswerIsTheGetters
<1>1. ASSUME ProgressInv, ClientTypeInv PROVE EachAnswerIsTheGetters
  <2> DEFINE answers(j) == LinesOf(j, {"found", "missing", "unread"})
  <2>1. ASSUME NEW j \in Through
        PROVE  /\ {output[m].asked : m \in answers(j)} = Range(Sets)
               /\ \A m, n \in answers(j) : \A k, l \in DOMAIN Sets :
                    m < n /\ output[m].asked = Sets[k] /\ output[n].asked = Sets[l] => k < l
               /\ \A m \in answers(j) : RightAnswer(output[m], program, DeviceOf(j))
    <3>1. AskedTo(output, j, 4) /\ RightAnswers(output, program, j, DeviceOf(j))
      BY <1>1 DEF ProgressInv, Complete, Told
    <3>2. answers(j) = {m \in DOMAIN output : Answers(output[m], j)}
      <4>1. \A m \in DOMAIN output : output[m] \in Line
        BY <1>1 DEF ClientTypeInv
      <4>2. \A line \in Line : line.is \in {"found", "missing", "unread"} <=> line.is # "listed"
        BY DEF Line
      <4> QED
        BY <4>1, <4>2 DEF LinesOf, Answers
    <3> HIDE DEF answers
    <3>3. {output[m].asked : m \in answers(j)} = Range(Sets)
      <4>1. ASSUME NEW m \in answers(j) PROVE output[m].asked \in Range(Sets)
        <5>1. PICK k \in 1..4 : output[m].asked = Sets[k]
          BY <3>1, <3>2 DEF AskedTo
        <5> QED
          BY <5>1, SetsDiffer
      <4>2. ASSUME NEW set \in Range(Sets) PROVE \E m \in answers(j) : output[m].asked = set
        <5>1. PICK k \in 1..4 : set = Sets[k]
          BY SetsDiffer
        <5> QED
          BY <3>1, <3>2, <5>1 DEF AskedTo
      <4> QED
        BY <4>1, <4>2
    <3>4. \A m, n \in answers(j) : \A k, l \in DOMAIN Sets :
            m < n /\ output[m].asked = Sets[k] /\ output[n].asked = Sets[l] => k < l
      BY <3>1, <3>2, SetsDiffer DEF AskedTo
    <3>5. \A m \in answers(j) : RightAnswer(output[m], program, DeviceOf(j))
      BY <3>1, <3>2 DEF RightAnswers
    <3> QED
      BY <3>3, <3>4, <3>5
  <2> QED
    BY <2>1, Zenon DEF EachAnswerIsTheGetters, RightAnswer, DeviceOf
<1> QED
  BY <1>1, ProgressInvariant, PTL

(* Of the devices a handle has for the caller's slice, its first UsbBuffer,  *)
(* the Zig binding lists all or none.  It lists exactly them, whatever the   *)
(* chains of those beyond the slice, when the code refuses none of their     *)
(* chains; otherwise it gives up with nothing of the handle printed, and it  *)
(* gives up for no other reason (root.zig:67-147, 240-259,                   *)
(* cfwfinder.cpp:540).                                                       *)
THEOREM ListedUpToTheSlice == ClientSpec => []OneLongChainHidesAll
<1>1. ASSUME ProgressInv, AtFilledEntry PROVE OneLongChainHidesAll
  <2> DEFINE list(j) == heap[devices[j]].device.usbDevices
             listed(j) == {output[m].usb : m \in LinesOf(j, {"listed"})}
             size(j) == ListSize(heap[devices[j]].device)
  <2>1. \A j : Shown(j) = ShownOf(program, DeviceOf(j))
    BY DEF Shown, ShownOf, DeviceOf
  <2>2. ASSUME NEW j \in Through, program = "zig"
        PROVE  /\ listed(j) = 1..(IF size(j) < UsbBuffer THEN size(j) ELSE UsbBuffer)
               /\ \A k \in listed(j) : ~TooLong(list(j)[k])
    <3>1. Complete(output, program, j, DeviceOf(j)) /\ program \in Program
      BY <1>1, <2>2 DEF ProgressInv, AtFilledEntry
    <3>2. PICK d \in Device : d = DeviceOf(j) /\ d.usbDevices = list(j) /\ ListSize(d) = size(j)
      BY <3>1 DEF Complete, DeviceOf
    <3>3. PICK n \in Nat :
            /\ n = Len(ShownOf(program, d)) /\ DOMAIN ShownOf(program, d) = 1..n
            /\ n = IF UsbBuffer <= ListSize(d) THEN UsbBuffer ELSE ListSize(d)
            /\ \A k \in 1..n : ShownOf(program, d)[k] = d.usbDevices[k]
      BY <2>2, <3>1, ShownIsPrefix
    <3>4. n = IF size(j) < UsbBuffer THEN size(j) ELSE UsbBuffer
      <4>1. ListSize(d) \in Nat /\ UsbBuffer \in Nat
        BY ListSizeIsNat, BufferAssumption DEF BufferAssumption
      <4> HIDE DEF size
      <4> QED
        BY <3>2, <3>3, <4>1
    <3>5. ListedTo(output, j, n)
      BY <3>1, <3>2, <3>3 DEF Complete, Told
    <3>6. LinesOf(j, {"listed"}) = {m \in DOMAIN output : Lists(output[m], j)}
      BY DEF LinesOf, Lists
    <3>7. listed(j) = 1..n
      BY <3>5, <3>6 DEF ListedTo
    <3>8. NoneTooLong(ShownOf(program, d))
      BY <2>2, <3>1, <3>2 DEF Complete
    <3>9. \A k \in 1..n : ~TooLong(d.usbDevices[k])
      BY <3>3, <3>8 DEF NoneTooLong
    <3> HIDE DEF list, listed, size
    <3> QED
      BY <3>2, <3>4, <3>7, <3>9
  <2>3. ASSUME pc = "gave up"
        PROVE  /\ program = "zig"
               /\ \E k \in DOMAIN Shown(index) : TooLong(Shown(index)[k])
               /\ LinesOf(index, {"listed"}) = {}
    <3>1. AtHandle
      BY <2>3 DEF AtHandle
    <3>2. program = "zig" /\ ~NoneTooLong(Shown(index))
      BY <1>1, <2>3, <3>1 DEF ProgressInv, PlaceInv
    <3>3. ListedSoFar = 0
      BY <2>3, <3>2 DEF ListedSoFar, Asking
    <3>4. ListedTo(output, index, 0)
      BY <1>1, <3>1, <3>3 DEF ProgressInv, Progress, Told
    <3>5. LinesOf(index, {"listed"}) = {}
      BY <3>4 DEF ListedTo, LinesOf, Lists
    <3> QED
      BY <3>2, <3>5 DEF NoneTooLong
  <2> QED
    BY <2>2, <2>3, Zenon DEF OneLongChainHidesAll
<1> QED
  BY <1>1, ProgressInvariant, ClientInvariant, PTL
=============================================================================
