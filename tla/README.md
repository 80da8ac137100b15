# freewili-finder in TLA+

This directory holds a formal model of freewili-finder: the C++ library that
scans the USB tree for FREE-WILi devices and badges, and the C API that keeps
handles to them. TLC checks the modules on small instances; TLAPS proves, for
every value of the constants, the properties of the C API and its refinement of
an abstract registry, of the programs that call it, of the unique ID, of how a
FreeWili is made of its USB devices, of what a scan reports on Linux, macOS and
Windows, and of what can fail it on Windows. Paths below are relative to the
repository.

## 1. The system

| Component | Code | State it keeps | Operations |
|---|---|---|---|
| USB tables | `include/usbdef.hpp`, `src/usbdef.cpp`, top of `src/fwfinder.cpp` | none (constant tables) | whitelist, hub and standalone predicates, `getUSBDeviceTypeFrom` |
| Unique ID | `fwfinder.cpp:12-30` | none | port chain -> 64-bit ID |
| FreeWiliDevice | `fwfinder.cpp`, `fwbuilder.cpp` | an immutable value | `fromUSBDevices`, `build`, the getters |
| Linux scanner | `src/fwfinder_linux.cpp` | local vectors of one `find_all` | four walks over udev, then sorts |
| macOS scanner | `src/fwfinder_mac.cpp` | local vectors and a map of one `find_all` | two passes over the IO registry, then a sort |
| Windows scanner | `src/fwfinder_windows.cpp` | local vectors and maps of one `find_all` | SetupAPI enumeration, hub ports over `DeviceIoControl`, volumes, serial ports |
| C API | `c_api/src/cfwfinder.cpp` | the process-wide registry `fw_devices`, a heap of handles, an iterator in each | `find_all`, `free`, `is_valid`, `begin`, `next`, `set`, the getters |
| C API copies | `cfwfinder_internal.hpp`, getters of `cfwfinder.cpp` | caller's buffer and in/out size | `fixedStringCopy`, `get_port_chain` |
| Zig binding | `bindings/zig/src/root.zig` | a handle; the caller's slices | `find_all`, `get_usb_devices`, `from_device`, `get_*_usb_device` over the C API |
| C example | `examples/c_api_basic_usage.c` | its array of handles, one error buffer and its size | a loop over the handles: ask, list, free |
| Python binding | `bindings/python` | none | forwards to the C++ API |

**Interaction.** A caller calls `fw_device_find_all`; it calls `Fw::find_all`
of the platform, which reads the operating system's device tree, gathers the
USB devices of one FreeWili into a list and has `fromUSBDevices` make a device
of each list. The C API merges the result into its registry by unique ID and
hands out pointers. All other calls of the C API go through such a pointer.
There are no threads, callbacks, retries or persistent state in the library.

**What is hard.**
* The device tree changes *while* a scanner walks it. A scan is not atomic: a
  device can leave, arrive or be exchanged between two walks (Linux), between
  two visits (macOS) or between any two questions to the system (Windows), and
  what was read before is combined with what is read after. On Windows such a
  change may also fail the whole scan, or end the process. A processor that
  reboots into its bootloader is such an exchange.
* Several walks account for overlapping sets of devices (a badge on a FreeWili's
  hub is found by both), and some of their failures are swallowed.
* A processor's firmware mode decides whether its product ID tells what it is.
* The C API's pointers and iterators live through scans that update, drop and
  re-create what they point to; the caller may keep pointers too long, free
  twice, or hand in an array that is too small.
* `begin`, `next`, `set` and all getters share one iterator per handle, and a
  copied text's size comes back in the variable that holds the room for the
  next one: what a program gets depends on the order of its calls.
* Identity is a number computed from ports: everything relies on two places not
  sharing one.

**What makes each component correct.** Unique ID: different places, different
IDs. FreeWiliDevice: every processor is found whatever mode it is in, as long as
no device of the group is a FreeWili by itself (a processor in the RP2350's
bootloader, a badge on the hub), and the serial is the unit's. Scanners: a device that stays put is reported exactly
once, whole, with its own ports, whatever else happens meanwhile. C API: one
handle per device, equal to what the last scan said, at a stable address; reported
pointers are live until freed; iterators stay in their list. A program on the
C API: it lists each USB device once, asks about the one it means, frees what
it got, and ends.

## 2. Modules

| Module | Models | Uses |
|---|---|---|
| `UsbDef` | the USB tables | |
| `UniqueId` | the packing of a port chain | |
| `UniqueIdPlaces` | two devices moving through the USB tree | `UniqueId` |
| `FreeWiliDevice` | `fromUSBDevices`, the builder, the sort, the getters | `UsbDef`, `UniqueId` |
| `DeviceGroup` | a scanner gathering one FreeWili's list, then building it | `FreeWiliDevice` |
| `DeviceRegistry` | **abstract**: what the C API promises about the devices it knows | |
| `Ordered` | order-preserving `std::vector` idioms, without recursion | |
| `CApi` | the C API with one caller | `Ordered`, `FreeWiliDevice`, implements `DeviceRegistry` |
| `LinuxScan` | `find_all` on Linux and hot-plugging | `FreeWiliDevice` |
| `MacScan` | `find_all` on macOS and hot-plugging | `FreeWiliDevice` |
| `WindowsScan` | `find_all` on Windows and hot-plugging | `FreeWiliDevice` |
| `FixedCopy` | `fixedStringCopy` and the limit of `get_port_chain` | |
| `Clients` | the C example and the Zig binding's test, call by call | `CApi`, `FixedCopy`; implements `CApi`'s `Spec` |
| `OperatorProofs` | lemmas: paths, words, minima, enumerations, `erase`, sorting, the making of a FreeWili | `FreeWiliDevice`, `Ordered` |
| `UniqueIdProofs` | theorem: distinct IDs | `UniqueIdPlaces`, `OperatorProofs` |
| `DeviceGroupProofs` | theorems: types, order, processors, serial | `DeviceGroup`, `OperatorProofs` |
| `CApiProofs` | theorems: the registry, iterators, the refinement | `CApi`, `OperatorProofs` |
| `ClientsProofs` | theorems: the two programs | `Clients`, `CApiProofs` |
| `LinuxScanProofs` | theorems: types, what is reported | `LinuxScan`, `OperatorProofs` |
| `MacScanProofs` | theorems: types, what is reported | `MacScan`, `OperatorProofs` |
| `WindowsScanProofs` | theorems: types, what is reported, what can fail a scan | `WindowsScan`, `OperatorProofs` |
| `MC*` | instances for TLC | |

### How they correspond to the code

**UsbDef, UniqueId.** A vendor/product pair is a name. A 64-bit word is the set
of its 1 bits, so `|` is union and the loop needs no recursion. `(port & 0x3F)
<< shift` is computed in `uint32_t`: bits beyond 31 are lost, and from the
seventh port on the shift count is out of range, for which each port's term may be what
a shift modulo 32 gives, or 0.

**FreeWiliDevice.** A USB device is a record of the fields the code looks at.
`std::sort` is the insertion sort that libstdc++ makes of it for up to 16
elements. Which sort it is matters, since the comparator is no strict weak order:
libc++ sorts up to five elements by its own networks, which are not modelled, so what
`SortedAroundTheHub` says of the order is said of libstdc++.

**CApi.** `fw_devices` is the vector of addresses, `heap` maps an address to a
handle or `NoHandle`; an address may be reused after its handle was destroyed. A
handle has the device, the capacity of its vector and an iterator (`valid` is
false once it dangles). Each function that changes something is one action;
`FindAll` is the whole loop of add, update, prune and report. `Refused` stands
for every early return that changes nothing. `devices`, `count` and the pointers in the array are
the caller's, who may use pointers of earlier scans. Behind such a pointer
`fw_device_is_valid` reads freed memory and may say either: a call may be refused or
go on and answer (`OnFreedMemory`). What it then reads or writes there is undefined and
not followed.
History variables (`told`, `scan`, `begun`, `resized`) only serve properties.

**LinuxScan.** `tree` is the kernel's; a syspath is the sequence of numbers its
components end in, and `TextContains`, `TextBefore` do with it what
`std::string::contains` and udev's sorting do with the text. `ListDisks`,
`ListSerialPorts`, `FindStandalone` and `FindFreeWilis` are the four walks in
the order `find_all` makes them, each of which may fail to open udev; `Plug` and
`Unplug` may fall between any two. A *desk* is a set of devices one may plug in;
a behaviour has one, chosen initially. `OneReportPerPlace` names the two cases
in which a place has more than one claim and so two reports may have one ID or
a FreeWili none: one FREE-WILi2 behind another, and a badge behind a hub of its
own on a FREE-WILi2.

**MacScan.** An iterator is a snapshot of services, visited one at a time in any
order. `VisitHub`, `VisitChild` and `EndHub` are the body of the hub loop,
`VisitStandalone` that of the second pass; `FindHubBased` and `FindStandalone`
take the snapshots (or fail, which `find_all` swallows) and `Return` builds and
sorts. `Plug` and `Unplug` fall between any two visits; the service of a device
that left is still held and may still be read, without anything below it, and each of
its properties may be missing (`Remains`): the container, the serial, or the
locationID, which the code then takes for 0, so that its chain is `NoChain`. A
reported device's `place` and `container` are history fields: the program keeps the
ports without the bus, which would not tell two devices at the same ports of two
buses apart, and forgets the key it grouped a badge by.

**WindowsScan.** Each pass takes a list of all devices (`SetupDiGetClassDevs`)
and works on that list, whose records of devices that left are not `live` any
more; only the list of hubs, a hub's ports, serial ports and volumes are asked
of the system later. A record that is not live may be read in part (`Readings`): the
chain is missing, and perhaps the driver key too, which is read earlier.
`FindStandalone`, `ReadStandalone`, `VisitStandalone` are
the first pass, whose failure is swallowed; `FindFreeWilis`, `ReadDevices`,
`IdentifyHub`, `OpenHub`, `VisitPort` (once per port, from 0), `EndHub` and
`Return` the second, whose failure is `find_all`'s. `Over` is the end of the
scan by any way. What looking through `end()` at line 1035 does is undefined:
the hub is skipped or the process ends. A hub is found again by its instance
ID (`ByInstanceId`), what is on its ports by its driver key (`ByDriverKey`). A hub's
instance ID is made of its place, another device's of its serial if it has one.
The driver key goes with the instance ID, but is there only once the device has its
driver: a device may be plugged in without one, and `Bind` gives it one at any
moment. The list of the standalone pass is by driver key alone; a port whose device
has no driver yet tells no key and is passed over. The system's calls
may fail on a system where nothing happens (`failed`): both enumerations, the listing of the hubs, and
the calls that open a hub and ask for its ports. `late` is what happened while the second
pass ran; a device that arrives on a FreeWili's port, or gets its driver there, is a
new key, and a FreeWili hub that arrives on another FreeWili's hub is two such
events (`Arrival`), since it can fail the scan at either's code. The code takes a
device's first child for its interface, and of a foreign hub that is a device
plugged into it, whose port and letters the hub may then show (`Behind`). `place`
and `node` of a reported device are history: what was read, and where.

**FixedCopy, Clients.** A text is a record of what it says and its length;
`Copied` cuts it and `SizeAfter` is what comes back in `*dest_size`. `Clients`
extends `CApi`: each step of a program is one call of `CApi` (or of several
getters in a row) together with what the program does with the answer. `pc` is
the next call, `index` the entry of the array, `asked` how far it is in asking
for the main, display, FPGA and hub device, `output` the lines it printed, with
what they are about instead of their wording. The two differ as the code does:
the C example asks before it lists, keeps one error buffer for all handles,
skips a handle on an error, and frees; the Zig test lists first, has a fresh
error buffer per handle, gives up on an error, and cannot free.

## 3. Runs

| Run | Shows | States |
|---|---|---|
| `unique_id` | up to five ports deep no two places share an ID | 131 769 |
| `unique_id_deep` *(violation)* | the ten hubs of the comment at `fwfinder.cpp:13` are not reached | |
| `device_group` | both FreeWilis, any children a hub can have, bootloaders and a badge included, any missing, any order: the right processors as long as none of them stands alone, and what is left of them when one does; the right serial; order around the hub | 132 449 |
| `c_api` | any sequence of calls keeps registry, scan, caller's pointers and iterators consistent, and implements `DeviceRegistry` | 36 626 |
| `c_api_iterator` *(violation)* | a scan between `begin` and `next` leaves the iterator off its list | |
| `linux_scan` | devices that stay are reported once and whole under hot-plugging and failing walks; ports never go to another place's device; one report per place, but for nested FreeWilis and badges behind a hub in one | 300 384 |
| `linux_wide` *(violation)* | the FREE-WILi2 on port 1 gets the devices of the one on port 10 | |
| `mac_scan` | the same as `linux_scan` for macOS, visit by visit and property by property; a badge's entry has nothing of another container; equal IDs only across buses; old firmware's processors still found | 932 189 |
| `mac_old_firmware` *(violation)* | the CDC ports of old firmware stay plain `Serial` on macOS | |
| `windows_scan` | FreeWilis that stay are reported whole, question by question; a badge that stays has an entry of its own, and a second one just when its disk is a node besides it; an ID twice only for the named reasons; where no call fails by itself the scan fails only by what left or got its driver once the second pass has begun | 1 378 386 |
| `windows_crash` *(violation)* | a FreeWili plugged in between the lists of devices and of hubs may end the process | |
| `clients` | both programs keep to the API, pass only live handles, and end; listings are whole and in order, answers about the right device; texts, chains and handles are lost only as stated | 16 538 |

The violation runs each check one sentence of the documentation, a comment or a
test, quoted in `PROJECT.json`, that the code does not keep. Of four more the passing
properties say outright that the code does something else, in their comments too:
* `SortedAroundTheHub`: a hub pushed first stays first, where the comment at
  `fwfinder.cpp:284` puts the hub at the bottom;
* `ProcessorsFoundUnlessOneStandsAlone`: a bootloader or badge on a hub makes all its
  USB devices a standalone device's, where `fwfinder.hpp:132` says "Main only";
* `EveryDeviceReported`: with an array too small the count is the array's, where
  `cfwfinder.h:137` says it is the number of devices found;
* `OneLongChainHidesAll`: a port chain is refused by a buffer it just fills, where
  `cfwfinder.h:397` asks that the buffer be large enough to hold it.

**Bounds and why they are enough.**
* `unique_id`: the ports (`MCPorts`) differ in their lowest and in their highest bits, so each
  loss or overlap of bits shows; five ports are all that keep six bits.
* `c_api`: two places, three devices (one place has a short and a longer list, so
  a list can grow, shrink and move its buffer) and up to two devices per scan, the same place twice
  included. The passing run has as many addresses as places, so that every new handle
  reuses an address; the violation run has a spare one. An array of two is
  full, or too small when the caller says so (`room`). Addresses are symmetric:
  nothing but equality is asked of them.
* `linux_scan`: one FREE-WILi2 whose main processor may be in its bootloader, a
  badge in its place, a badge directly or behind a foreign hub beside it;
  at most `MaxDisturbed` = 2 places change during a scan: one replaced by another,
  or a hub with one device. Between scans anything may change. A second desk
  has a FREE-WILi2 behind a FREE-WILi2 and a badge behind a hub in one.
* `mac_scan`: three desks: a FREE-WILi2 whose main processor may be in its bootloader,
  with a badge on its hub; this without the bootloader, and on each of two buses one of two
  twin badges of one serial, in containers of their own, the second at the ports of the
  FREE-WILi2; and, at the same ports of two buses, the FREE-WILi2 and a FREE-WILi whose
  name its FTDI chip gives and whose processors run old firmware. `Slots` is their
  union, and the constraint `OnOneDesk` keeps what is plugged in at one time on one of
  them. `MaxDisturbed` = 2; in the violation run 0, which is enough.
* `windows_scan`: four desks in the same way. A FREE-WILi2 with two ports, whose main
  processor waits for its driver or is in its bootloader (a composite device with a
  disk), and its disk; the FREE-WILi2 with a foreign hub and a serial port behind it for
  the disk; and a badge with a disk, two nodes, that waits for its driver on a second
  controller whose PCI number makes its chain that of the FREE-WILi2's first port, once
  with the bootloader on that port and once with it directly on the first controller.
  `MaxDisturbed` = 2, a driver that comes late being a change too; in the violation run
  the first desk and one change. Windows is in English (`EnglishDescriptions`): in
  another language the RP2350's bootloader, too, has two entries, which
  `BadgeHasItsOwnEntry` says and `BadgesApart` proves, and no run shows.
* `clients`: up to three devices; arrays of two (C) and three, a slice of two
  USB devices and a port chain buffer of two stand for the 16, 64, 10 and 10 of
  the code, so that each is exceeded; error buffers and texts have their real
  lengths. `MaxOutput`, four answers and one line per USB device (`MaxUsb` = 3) for
  each entry of the array, is never exceeded: `ProgressInvariant` has room for what
  is still to be printed, so the bound cuts no behaviour of any instance.
* `device_group`: the children of either hub in each of their modes, a foreign device or a
  badge on a FREE-WILi's spare port, in every order; serials a device may fail to tell.

Deadlock checking is off in the runs of `UniqueIdPlaces`, `DeviceGroup` and
`Clients` only, where a behaviour really ends (the deepest chain, the built
device, the program).

**Fairness and liveness.** The library has no thread and waits for nothing: a
scan is a loop over finite lists that returns, and a caller need not ever call,
so `CApi` and the scanners have no fairness and only safety properties. A whole
program does something: `ClientSpec` has weak fairness of its next call, which
says no more than that a single thread with a next statement executes it and
that a call returns. Under it `ProgramsEnd` holds: no way through `begin`,
`next`, `set` and their errors makes a loop go on for ever.

## 4. Proofs

Each theorem is of the form `Spec => []P`, for every value of the constants that
satisfies the assumptions below. Seven of them have a further hypothesis on the
constants, which the last column names; the runs of the property satisfy it.

| Module | Theorem | Property | Hypothesis |
|---|---|---|---|
| `CApiProofs` | `TypeCorrect` | `TypeOK` | |
| | `OneHandle` | `OneHandlePerDevice` | |
| | `FollowsScan` | `RegistryFollowsScan` | |
| | `ReportedLive` | `ReportedHandlesAreLive` | |
| | `Stable` | `HandlesAreStable` (an action property) | |
| | `IteratorsStayInRange` | `IteratorInRange` | |
| | `AllReported` | `EveryDeviceReported` | |
| | `RegistryImplemented` | `ImplementsRegistry` (`CApi` implements `DeviceRegistry`) | |
| `ClientsProofs` | `ProgramsUseTheApi` | `UsesTheApi` (`Clients` implements `CApi`) | |
| | `HandlesInUse` | `HandlesInUseAreLive` | |
| | `OnlyDevicesRead` | `ReadsOnlyDevices` | |
| | `ClientTypes` | `ClientTypeOK` | |
| | `WhatStays` | `OnlyUnreportedHandlesStay` | |
| | `TextsAreCut` | `TextsAreCutToTheShortest` | |
| | `ListedOnceInOrder` | `EachListedOnceInOrder` | |
| | `AnswersAreTheGetters` | `EachAnswerIsTheGetters` | |
| | `ListedUpToTheSlice` | `OneLongChainHidesAll` | |
| `UniqueIdProofs` | `DistinctIDs` | `PlacesHaveDistinctIDs` | |
| `DeviceGroupProofs` | `GroupTypes` | `TypeOK` | |
| | `HubKeepsItsEnd` | `SortedAroundTheHub` | |
| | `ProcessorsFound` | `ProcessorsFoundUnlessOneStandsAlone` | |
| | `UnitSerial` | `SerialIsTheUnits` | |
| `LinuxScanProofs` | `LinuxTypes` | `TypeOK` | |
| | `PortsInPlace` | `PortsStayInPlace` | `OneDigitPorts` |
| | `OneReport` | `OneReportPerPlace` | `OneDigitPorts`, `ShallowPlaces` |
| | `ReportedUndisturbed` | `UndisturbedReported` | `OneDigitPorts`, `ShallowPlaces` |
| `MacScanProofs` | `MacTypes` | `TypeOK` | |
| | `FreeWilisWhole` | `FreeWiliReportedWhole` | |
| | `BadgesApart` | `BadgeHasItsOwnEntry` | |
| | `IDsTellPorts` | `SameIDOnlyAcrossBuses` | `ShallowPlaces` |
| | `OldFirmwareFound` | `OldFirmwareStillFound` | `ProcessorsInPlace` |
| `WindowsScanProofs` | `ScansFailForAReason` | `FailsOnlyForAReason` | |
| | `WindowsTypes` | `TypeOK` | |
| | `FreeWilisWhole` | `FreeWiliReportedWhole` | |
| | `BadgesApart` | `BadgeHasItsOwnEntry` | `DiskFirst` |
| | `IDsTellPlaces` | `SameIDOnlyForAReason` | `PlacesFit` |

### Assumptions

All are on constants, named, and evaluated by TLC in the runs of their modules.

* `CApi`: a device's USB devices are a sequence (`DeviceAssumption`), the null
  pointer is no address, `NoHandle` is no handle, the bounds are natural numbers.
* `Clients`: the programs' arrays are no longer than `ArraySize`
  (`RoomAssumption`), texts and buffers have lengths, `standalone` is true or
  false (`StandaloneAssumption`), and a device has at least one USB device and at
  most `MaxUsb`, any number (`UsbAssumption`): `fromUSBDevices` makes none of an
  empty list.
* `UniqueIdPlaces`: ports are 1 to 63, six bits.
* `DeviceGroup`: what a hub and a child of one is. `RolesAssumption` says where
  the processors are wired and which products they run as, which is what
  `usbdef.hpp` and `USBHubPortLocation` say; nothing is assumed about their
  number, order, serials or what else is on the hub, badges and bootloaders included.
* `LinuxScan`: a slot is a place of at least one port below the root hub, with
  ports of at most two digits, and a hub has no serial port or disk of its own.
* `MacScan`: a slot is a place a locationID can spell, below one of the buses,
  with one to six ports of one hex digit; a hub has no serial port or disk.
* `WindowsScan`: a slot is a place below a controller, with port numbers from 1,
  and a hub has its driver at once, for without it is no hub (`SlotsAssumption`); a controller's PCI path puts numbers below 32 into the
  chain (`PciChainAssumption`); a FreeWili's hub has at most 254 ports, since with
  255 the `uint8_t` of the port loop would never pass the last
  (`NumberOfPortsAssumption`).

### The C API

The inductive invariant is `IInv == TypeOK /\ OneHandlePerDevice`.
Neither part is inductive alone: that pruning and reporting act on real handles
needs every registered address to hold one, and that `find_all` updates *the*
handle of an ID needs it to be unique. The step that takes work is `FindAll`. It
appends the handles of unknown IDs, refreshes, and prunes; `HandlesBeforePruning`
shows the middle state has distinct IDs, `RefreshedHandle` that a refresh keeps a
handle's ID and takes the scan's last word, and `FindAllEffect` sums the step up.
`EraseKeeps` says `erase(remove_if(...))` keeps exactly what it should, once; it
rests on `InOrderEnumerates`: a finite set of integers has an increasing
enumeration. The other actions are summed up by `DestroyEffect`,
`PositionEffect` and `Quiet`; every later theorem argues from these effects.

`IteratorInRange` alone is not inductive: a refresh may move the vector's buffer
whenever the list has outgrown its capacity. `IteratorInv` adds that no list
ever has; then a refresh with a list of the same length moves nothing
(`RefreshKeepsIterator`), `set` stays in the list because every getter does
(`TargetInList`), and `next` stops at the end (`NextDeviceIteratorInv`).

`AllReported` counts: after a scan the registered handles and the IDs found are
in bijection, so an array that is not full has an entry for each.
`RegistryImplemented` maps the vector and the heap to the function from IDs to
devices that `DeviceRegistry` speaks of. By `OneHandlePerDevice` it is a
function; a scan's refresh and pruning give it the scan's last word for exactly
the IDs found, freeing restricts it, and all other calls leave it alone.

### The programs

That a program's step is one of `CApi`'s needs to know where the program is:
`AtFilledEntry` says that as long as it works on a handle the entry is one
`find_all` filled and none of these is void. It is inductive only together
with `IInv`, which bounds `count` and types what `find_all` writes. The steps
that do not touch the array share `StaysInArray`. `HandlesInUse` then follows
from `ReportedLive`, which carries over through `ProgramsUseTheApi`.

`ReadsInv` says when the iterator was set: a program between `begin` and the
end of its list, or after a `set` that succeeded, has one that no scan has come
between, so that `IteratorInv` applies. `StaysInv` says which IDs are
registered and how many entries were filled until the handles are freed, and how
many are left after that. `TextsInv` says of each line
printed which limit the size variable had then, and that this limit is the
shortest text before it from the same buffer; a limit never grows because
`SizeAfter` never exceeds what was offered.

What the programs print rests on `ProgressInv`. It says of the handle the
program is at how much of its list was listed and how many of its sets were
asked for, with the lines that are there so far (`Progress`); where the shared iterator
stands for each `pc` (`PlaceInv`: on the set asked for, or on the device to be
listed next); and of each handle the program is through with that all of it was
said (`Complete`). Neither half stands alone: a line is right only if the
iterator was where the last call left it, and a handle is complete only if no
line was lost. It also shows that what is still to be said has room in
`MaxOutput`, so the bound cuts nothing. The three properties read off `Complete`.

### The unique ID

A word is the set of its bits, so two chains with one ID have the same bits in
each six-bit group (`UniqueIDWith` puts bit `b` of port `i` at `6(i-1)+b` and,
up to five ports, nothing is cut off or wrapped). `PortBits` is injective on 1
to 63, and no port is 0, so the groups also tell how long the chain is.

### A FreeWili and its USB devices

`GroupInv` says what a scanner may have gathered: the hub at most once and at
one end, children of this hub on different ports. `SortIsRounds` turns the
insertion sort's recursive function into one round after the other
(`RecursionExists` proves that the function exists, as the library's theorem
takes an operator). The invariant of a round, `RoundInv`, is that the output
is a permutation of what was read, in port order apart from the hub, and with
the hub where it was; the hub is "equivalent" to everything, so no element
moves past one at the front, and one that comes last stays behind everything
(`RoundPlace`). `KindTellsRole` and
`OnePerRole` connect kinds, ports and roles, from which `ProcessorsFound` shows
that a getter's fallback by port finds the right processor and no other, as long as
no device of the group stands alone. Once one does, it says what is left: the main
getter returns a device that stands alone at the head of the list, and every other getter fails.
`UnitSerial` walks the serial's fallbacks (`FallbackSerialIs`).

### What a scan reports on Linux

`IInv` of `LinuxScanProofs` says what each walk's list knows of the tree as it is
now. A place is *disturbed* once it or something above it changed during the
scan; what hangs on a disturbed place is disturbed (`DisturbedInv`), which is
why a change cannot reach a place that is not. The lists of disks and serial ports
tell the truth about every undisturbed place they name and name every one there is
(`DisksInv`, `PortsInv`), unless the walk failed, in which case they are empty. The badges
gathered are each the device of one place, in a list of its own (`DevicesInv`);
and what `find_all` returned is a sorted selection of the badges and of the groups the last
walk made (`ResultInv`, with a witness that says which entry came from where).
The properties need all of it: that no *other* entry has a place's devices
or its ID speaks of everything in the result, not of one device. Each walk is one
action over a list of any length, so the proof of a walk is that its `SelectSeq`s and
folds give what the invariant says (`FoldExists`, `Listing`).

Two hypotheses are about what the code cannot do. `OneDigitPorts`: the code
looks for a device's path in the text of another's (`std::string::contains`),
which is a question about places only as long as no port has two digits
(`TextIsPath`); the run `linux_wide` shows what happens otherwise. `ShallowPlaces`:
an ID keeps five ports. The configuration of `linux_scan` satisfies both.

### What a scan reports on macOS

The macOS scanner visits one service at a time, so `IInv` of `MacScanProofs`
speaks of what was visited and of what is still to be. A service held is that of an
attached device or of a disturbed place (`ServicesInv`). What was read from a place says
what is there, unless the place is disturbed: then any of it may be missing (`IsRead`,
`IsTrue`), and its ID may be that of `NoChain` (`IDTells`). Of the hub being
visited each undisturbed child is in its group or still to be visited
(`VisitInv`); each hub with such a child is in a group or to be visited
(`HubsCovered`), and groups are of different hubs (`GroupsInv`); the same for
badges and their keys (`StandaloneInv`, `StandaloneCovered`). The result is made of the groups
(`ResultInv`), and the properties follow. That a FREE-WILi2 is reported at all
takes the chain of fallbacks for its serial (`FallbackSerialIs`). `OldFirmwareFound` is
about the getters: both processors have the kind `Serial`, so the search by kind finds
neither and the search by port decides; this needs `ProcessorsInPlace`, that
a device which is a main or display processor by its product is on that port
(`USBHubPortLocation`).

The proof needed the place a device was read at: the ports without the bus do
not tell what the device was read from when two buses have the same ports. `place` is that history.

### What a scan reports on Windows

The invariant has two parts. `WInv` is about what the lists of devices know, and
is described below. `GInv` says what the passes gathered:

* no two attached devices have one instance ID, and none of a list's records do
  either, so that a device found again by its ID is the one that is there
  (`PlacedInv`, `ListInv`);
* what was read at a place says what is there, or the place changed (`IsRead`).
  The proof that it stays so is the same for all actions that only disturb
  (`DisturbGInv`, used by `Plug`, `Unplug` and stuttering alike);
* the group being filled begins with its hub, the others in it hang on this hub or
  are of disturbed places, and as long as nothing changed there the group has
  every device on a port below the one to be asked next, in the order of the
  ports and hence none twice (`VisitInv`, `HasBelow`);
* groups are of different hubs, no hub is visited twice, and each undisturbed
  FreeWili hub has a group or is still to be visited (`GroupsInv`, `HubsInv`,
  `HubsCovered`); likewise badges and their nodes (`BadgesInv`, `NodesInv`,
  `BadgesCovered`), of which a badge has one or, with its disk, two;
* the result is a sorted listing of badges and groups of which all this holds
  (`ResultInv`).

`DisturbedInv` adds that what hangs on a disturbed hub is disturbed. Then the
group of a FreeWili that stayed is a bijection with its hub and ports (`WholeSize`),
`fromUSBDevices` never drops such a group (`GroupIsMade`), and no other report
has the hub, for it would have to hang on another FreeWili's hub
(`HubInItsGroup`).

A badge whose disk is a node besides it is reported once for each, but for the
RP2350's bootloader in English: `BadgesApart` counts the nodes that are not skipped,
each of which makes one entry. The entry that stays of a bootloader is its disk's, whose letters are
found there only because the disk is the first of its interfaces (`DiskFirst`), as the
RP2350's boot ROM describes itself. `PlacesFit` is what the ID can hold: five ports, PCI numbers included, of six bits
each. Since a PCI number may be 0, the lemma that an ID tells the chain
(`DistinctChains`) needs only that the last port is not, which holds of any USB port.
For a FreeWili with a badge on its hub, `IDsTellPlaces` says whose ID it has:
the badge's (`GroupsNamesake`). A chain that could not be read of a device that left is empty,
and its ID the same for all such devices.

Planning this proof changed the model: a hub's first child is no interface of
it but a device behind it; port numbers on a FreeWili's hub do not exceed its
ports; and `FreeWiliReportedWhole` is not stated of a FreeWili's hub on another
FreeWili's hub, which is in both groups.

### What can fail a scan on Windows

`WInv` says what the second pass's list of devices knows (`LateInv`): unless
something left, every record is live; unless something on a FreeWili's
port got its driver, all that has one there is listed with its driver key; unless a
FreeWili's hub arrived, all of these are. `RecordsInv` says that a live record is of what is attached, which is why
an unplugged place leaves no live record behind. The ways to fail in which no call fails by itself
then each contradict one part of `LateInv`.

`WindowsTypes` needs more than the types of the variables: `MadeInv` says that
the group being filled begins with its hub, that the port asked for is at most
one past the hub's last, and that the first pass made standalone devices only
(`MadeStandalone`). From these the type of each device handed out follows
(`SortedAreFound`: sorting by unique ID changes the order and nothing else).

Planning this proof showed that the model had been too strong: a FreeWili's hub
that arrives on another FreeWili's hub was recorded only as a hub, although the
other hub's ports then hold a device the list does not know. `Arrival` now
records both.

### What stays with TLC

* *Beyond the prover:* liveness under fairness (`ProgramsEnd`) and `ENABLED`.
* *Cases outside a theorem's hypotheses* (`OneDigitPorts`, `ShallowPlaces`,
  `ProcessorsInPlace`, `DiskFirst`, `PlacesFit`): nothing is proved of them.
* What the violation runs show is false of the code, so there is nothing to prove.

## 5. Not modelled

* Names, texts of errors, logging, and everything that only formats. Assertions, which
  a release build compiles out.
* `getDeviceTypeName`, `getUSBDeviceTypeName`: tables of texts.
* Linux: matching of mount points in `/proc/mounts` by substring (only wrong
  with more than 26 disks), `_createUSBDeviceFromUDevDevice` (never called). A
  walk is one step: udev's list is fixed within it, and a vanished device reads
  as one without a vendor, which every walk skips.
* Windows: two FreeWili hubs one behind the other share the inner hub's record,
  which the code overwrites as it goes; a device that loses its driver and stays; the
  interfaces of a device getting their drivers later than it; `SetupDiEnumDeviceInfo`
  ending the list early where the device before it is gone (line 515), which
  leaves out devices that are there; a question for the key of a port that fails although
  hub and device are there; the leaked device information sets; the walk by `RemovalRelations` in `findVolumePaths`
  beyond its outcome.
* Zig: the slices it makes of copied texts (one longer than the text), the
  getters of a handle's own name, serial and type, `main.zig` (a template).
* macOS: what `diskutil` prints; leaks of iterators and services.
* Python binding, C++ examples, hardware test, build files: no state of their own.

## 6. Plan

All of it is done. The modules, in this order: `UsbDef`, `UniqueId`,
`FreeWiliDevice` with `DeviceGroup`, `DeviceRegistry` and `CApi`, `LinuxScan`,
`MacScan`, `WindowsScan`, `FixedCopy` and `Clients`, nested FreeWilis in
`LinuxScan`.

Theorems, in this order: the C API's invariants, the programs' use of it,
iterators, the refinement of `DeviceRegistry`, what the programs read and leave,
the unique ID, the Windows scan's failures, the making of a FreeWili, what is
reported on Linux, what the programs print, what is reported on macOS and on
Windows. Every property of a passing run but the liveness property is a theorem.

Left for later: lists of more than 16 USB devices or sorted by libc++, for which `std::sort` is another algorithm.
