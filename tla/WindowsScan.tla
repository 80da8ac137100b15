----------------------------- MODULE WindowsScan -----------------------------
(***************************************************************************)
(* Fw::find_all on Windows (fwfinder_windows.cpp): a pass for standalone   *)
(* devices, then one that asks each FreeWili hub, port by port, what it    *)
(* holds, while devices come and go.                                       *)
(*                                                                         *)
(* A place is the sequence <<controller, port, ..., port>>.  Each pass     *)
(* first enumerates every device (SetupDiGetClassDevs) and then works on   *)
(* that list; only hubs, ports, serial ports and volumes are asked of the  *)
(* system as it is by then.  A record of the list whose device has left is *)
(* not `live` any more.                                                    *)
(*                                                                         *)
(* Windows knows a device again by its instance ID, which holds its serial *)
(* if it has one and else its place, or by its driver key, which goes with *)
(* the instance ID but is there only once the device has its driver.  A    *)
(* serial Windows makes up is "synthetic".  A serial port or drive letter  *)
(* is named by the place of its device.                                    *)
(***************************************************************************)
EXTENDS FreeWiliDevice

CONSTANTS Controllers,          \* the USB controllers
          PciChain,             \* controller -> the numbers below 32 in its PCI(...)
          Slots,                \* devices one may plug in
          NumberOfPorts,        \* bNumberOfPorts of a FreeWili hub
          EnglishDescriptions,  \* device descriptions are in English
          MaxDisturbed,         \* bound on the places that change during one scan
          NoPort                \* std::nullopt for a serial port or drive letters

IsHub(prod) == prod \in HubProduct \cup {"ForeignHub"}

\* parts: what the device's interfaces are, in order.  bound: it has its driver at
\* once; what has none is no hub to Windows.
ASSUME SlotsAssumption ==
  \A slot \in Slots :
    /\ slot.path \in Seq(Controllers \cup Nat)
    /\ Len(slot.path) > 1 /\ Head(slot.path) \in Controllers
    /\ \A i \in 2..Len(slot.path) : slot.path[i] \in Nat \ {0}
    /\ slot.parts \in Seq({"tty", "disk", "other"})
    /\ slot.bound \in BOOLEAN
    /\ IsHub(slot.prod) => slot.bound

ASSUME PciChainAssumption == \A c \in Controllers : PciChain[c] \in Seq(0..31)

\* A uint8_t counts past it.
ASSUME NumberOfPortsAssumption == NumberOfPorts \in 0..254

VARIABLES
  tree,        \* place -> device attached there
  pc,          \* the point find_all is at, or "idle"
  devices,     \* the pass's list of devices (devicesByInstanceId, devicesByDriverKey)
  todo,        \* the standalone nodes or FreeWili hubs still to visit
  hub,         \* the hub being visited, none or one
  port,        \* the next port of it
  group,       \* it and the devices on its ports so far
  hubGroups,   \* EnumeratedHubDevices: the groups of the hubs visited
  standalone,  \* the FreeWiliDevices of the standalone pass
  result,      \* how find_all ended
  disturbed,   \* history: the places that changed since the scan began
  late,        \* history: what happened during the pass that may fail
  failed       \* history: the passes that could not enumerate, the calls that failed

scanVars == <<pc, port, group, hubGroups, standalone, result, failed>>
history == <<disturbed, late>>
vars == <<tree, pc, devices, todo, hub, port, group, hubGroups, standalone, result,
          disturbed, late, failed>>

-----------------------------------------------------------------------------
(* How find_all ends: it returned devices or an error, or the process ended. *)

NoResult == [is |-> "none"]
ScanError == [is |-> "error"]
Crashed == [is |-> "crash"]
Devices(list) == [is |-> "devices", list |-> list]

-----------------------------------------------------------------------------
(* The device tree and how Windows names what is in it. *)

RootHub == [prod |-> "ForeignHub", serial |-> "", parts |-> <<>>, bound |-> TRUE]

Subtree(path) == {p \in DOMAIN tree : IsPrefix(path, p)}

\* The instance ID.  A hub's is made of its place even when the hub has a serial.
InstanceId(path, dev) ==
  LET own == dev.serial # "" /\ ~IsHub(dev.prod)
  IN  [prod |-> dev.prod, serial |-> IF own THEN dev.serial ELSE "synthetic",
       place |-> IF own THEN <<>> ELSE path]

\* The PCI function numbers below 32 count as ports.
usbPortChain(path) == PciChain[Head(path)] \o Tail(path)

\* key: whether the device has a driver key.
Record(path, dev) ==
  [path |-> path, dev |-> dev, node |-> "device", live |-> TRUE,
   key |-> dev.bound, chain |-> usbPortChain(path)]

\* What getEnumeratedDevices makes of the devices at these places.
Enumerated(paths) == {Record(p, tree[p]) : p \in paths}

WithDead(records, gone) == {[r EXCEPT !.live = r.live /\ r.path \notin gone] : r \in records}

\* The properties are read one by one, the driver key before the places: of a device
\* that leaves meanwhile the chain is missing (`cut`) or the key as well (`keyless`).
PartlyRead(records, cut, keyless) ==
  {[r EXCEPT !.chain = IF r \in cut THEN <<>> ELSE r.chain,
             !.key = r.key /\ r \notin keyless] : r \in records}

\* The records that reading these may give.
Readings(records) ==
  LET dead == {r \in records : ~r.live}
  IN  UNION {{PartlyRead(records, cut, keyless) : keyless \in SUBSET cut} : cut \in SUBSET dead}

\* The FreeWili pass, whose error is find_all's, has listed the devices.
InFreeWiliPass == pc \in {"reading freewilis", "hubs", "opening", "ports"}

\* A change between two scans finds the last result used and forgotten.
Changed(paths, events) ==
  IF pc = "idle"
  THEN /\ result' = NoResult /\ hubGroups' = {} /\ standalone' = {}
       /\ disturbed' = {} /\ late' = {} /\ failed' = {}
       /\ UNCHANGED <<pc, port, group>>
  ELSE /\ disturbed' = disturbed \cup paths
       /\ Cardinality(disturbed') <= MaxDisturbed
       /\ late' = late \cup (IF InFreeWiliPass THEN events ELSE {})
       /\ UNCHANGED scanVars

\* A port of a FreeWili's hub has a driver key to tell.
NewKey(path) == IF is_freewili_hub(tree[Front(path)].prod) THEN {"new key"} ELSE {}

\* What an arrival may mean to the pass; one FreeWili's hub on another's is both.
Arrival(slot) ==
  (IF is_freewili_hub(slot.prod) THEN {"hub arrived"} ELSE {})
    \cup (IF slot.bound THEN NewKey(slot.path) ELSE {})

\* No two devices attached have one instance ID; a FreeWili's hub has so many ports.
Plug(slot) ==
  LET dev == [f \in DOMAIN RootHub |-> slot[f]]
  IN  /\ slot.path \notin DOMAIN tree
      /\ Front(slot.path) \in DOMAIN tree /\ IsHub(tree[Front(slot.path)].prod)
      /\ is_freewili_hub(tree[Front(slot.path)].prod) => Last(slot.path) \in 1..NumberOfPorts
      /\ \A p \in DOMAIN tree : InstanceId(p, tree[p]) # InstanceId(slot.path, dev)
      /\ tree' = [p \in DOMAIN tree \cup {slot.path} |-> IF p = slot.path THEN dev ELSE tree[p]]
      /\ Changed({slot.path}, Arrival(slot))
      /\ UNCHANGED <<devices, todo, hub>>

\* A device gets its driver.  A list that is being read may show its key yet.
Bind(path) ==
  /\ ~tree[path].bound
  /\ tree' = [tree EXCEPT ![path].bound = TRUE]
  /\ \/ UNCHANGED devices
     \/ /\ pc \in {"reading standalone", "reading freewilis"}
        /\ devices' = {[r EXCEPT !.key = r.key \/ (r.live /\ r.path = path)] : r \in devices}
  /\ Changed({path}, NewKey(path))
  /\ UNCHANGED <<todo, hub>>

Unplug(path) ==
  /\ Len(path) > 1
  /\ tree' = Restrict(tree, DOMAIN tree \ Subtree(path))
  /\ devices' = WithDead(devices, Subtree(path))
  /\ todo' = WithDead(todo, Subtree(path))
  /\ hub' = WithDead(hub, Subtree(path))
  /\ Changed(Subtree(path), {"left"})

-----------------------------------------------------------------------------
(* Reading a record. *)

\* DEVPKEY_Device_Children is read up to the first terminator: the first child.
FirstPart(record) ==
  CASE record.node = "interface" -> "disk"
    [] record.dev.parts = <<>> -> "other"
    [] OTHER -> Head(record.dev.parts)

\* A hub's first child is no interface but a device on it.
Behind(path) == {p \in {slot.path : slot \in Slots} : p # path /\ IsPrefix(path, p)}

\* findSerialPort; the port of a device that left may be known still.
SerialPorts(record) ==
  CASE IsHub(record.dev.prod) -> {NoPort} \cup Behind(record.path)
    [] ~IsHub(record.dev.prod) /\ FirstPart(record) = "tty" ->
         {record.path} \cup (IF record.live THEN {} ELSE {NoPort})
    [] OTHER -> {NoPort}

\* A disk came or went during the scan, perhaps while the volumes were listed,
\* which fails getVolumes.
VolumesDisturbed ==
  \E slot \in Slots : "disk" \in ToSet(slot.parts) /\ slot.path \in disturbed

\* findVolumePaths
DriveLetters(record) ==
  CASE IsHub(record.dev.prod) -> {NoPort} \cup Behind(record.path)
    [] ~IsHub(record.dev.prod) /\ FirstPart(record) = "disk" /\ record.live ->
         {record.path} \cup (IF VolumesDisturbed THEN {NoPort} ELSE {})
    [] OTHER -> {NoPort}

\* The serial in the instance ID.
OwnSerial(record) ==
  IF record.node = "interface" THEN "synthetic" ELSE InstanceId(record.path, record.dev).serial

\* Variant with a bug: the port on the immediate hub instead of the chain.
USBDeviceAtPort(record, asked, serial, tty, letters) ==
  LET last == Last(usbPortChain(record.path))
  IN  [place |-> record.path, node |-> record.node, prod |-> record.dev.prod,
       kind |-> getUSBDeviceTypeFrom(record.dev.prod, last), name |-> "name",
       serial |-> serial, location |-> last, portChain |-> <<last>>, port |-> tty,
       paths |-> letters]

\* A record without a chain is at the port that was asked, or at 0.
LocationOf(chain, asked) == IF chain = <<>> THEN asked ELSE Last(chain)

\* A name is a description in parentheses at least, hence never empty.  place and node:
\* history, what was listed where; the program only has the chain.
USBDevice(record, asked, serial, tty, letters) ==
  LET location == LocationOf(record.chain, asked)
  IN  [place     |-> record.path,
       node      |-> record.node,
       prod      |-> record.dev.prod,
       kind      |-> getUSBDeviceTypeFrom(record.dev.prod, location),
       name      |-> "name",
       serial    |-> serial,
       location  |-> location,
       portChain |-> record.chain,
       port      |-> tty,
       paths     |-> letters]

\* The devices a set of USB device lists can be made into; others are dropped.
Made(lists) == {fromUSBDevices(list) : list \in lists} \ {BuildError}

\* The lists the sort may make of these devices.  Where two have one ID their order
\* is that of the maps they come from, one of which is ordered by heap addresses.
SortedByUniqueID(found) ==
  {list \in SetToSeqs(found) :
     \A i, j \in DOMAIN list : i < j => ~IDLess(list[j].uniqueID, list[i].uniqueID)}

-----------------------------------------------------------------------------
(* _find_all_standalone *)

FindStandalone ==
  /\ pc = "idle"
  /\ \/ pc' = "reading standalone" /\ devices' = Enumerated(DOMAIN tree) /\ failed' = {}
     \/ pc' = "standalone" /\ devices' = {} /\ failed' = {"standalone"}
  /\ hubGroups' = {} /\ standalone' = {} /\ result' = NoResult
  /\ disturbed' = {} /\ late' = {}
  /\ UNCHANGED <<tree, todo, hub, port, group>>

\* A composite device and its disk interface are both of class USB; a serial
\* interface is not.
Nodes(record) ==
  {record} \cup (IF Len(record.dev.parts) > 1 /\ "disk" \in ToSet(record.dev.parts)
                 THEN {[record EXCEPT !.node = "interface"]} ELSE {})

\* find_all is over: with a result, with an error, or with the process.
Over(outcome) ==
  /\ pc' = "idle" /\ result' = outcome
  /\ devices' = {} /\ todo' = {} /\ hub' = {} /\ port' = 0 /\ group' = <<>>
  /\ hubGroups' = {} /\ standalone' = {}
  /\ UNCHANGED <<tree, history>>

\* Variant with a bug: an enumeration that fails is the scan's error.
ReadStandaloneOrFail ==
  /\ pc = "reading standalone"
  /\ UNCHANGED failed
  /\ \/ /\ pc' = "standalone" /\ devices' = {}
        /\ todo' = UNION {Nodes(r) :
                            r \in {d \in devices : isStandAloneDevice(d.dev.prod) /\ d.key}}
        /\ UNCHANGED <<tree, hub, port, group, hubGroups, standalone, result, history>>
     \/ (\E d \in devices : ~d.live) /\ Over(ScanError)

\* A device that left before its instance ID was read fails the enumeration, which is
\* find_all's concern only in the second pass.  The list is the one by driver key.
ReadStandalone ==
  /\ pc = "reading standalone" /\ pc' = "standalone"
  /\ \/ /\ LET nodes == UNION {Nodes(r) : r \in {d \in devices : isStandAloneDevice(d.dev.prod)}}
           IN  \E read \in Readings(nodes) : todo' = {r \in read : r.key}
        /\ UNCHANGED failed
     \/ /\ \E d \in devices : ~d.live
        /\ todo' = {} /\ failed' = failed \cup {"standalone"}
  /\ devices' = {}
  /\ UNCHANGED <<tree, hub, port, group, hubGroups, standalone, result, history>>

\* Variant with a bug: the bootloader's composite parent is reported as well.
NoneIsSkipped(node) == FALSE

\* "This is a hack to not have duplicates for the RP2350".
IsSkipped(node) ==
  /\ node.dev.prod = "Rp2350Uf2"
  /\ node.node = "device" /\ Len(node.dev.parts) > 1   \* "USB Composite Device"
  /\ EnglishDescriptions

VisitStandalone ==
  /\ pc = "standalone"
  /\ \E node \in todo :
       /\ todo' = todo \ {node}
       /\ \E tty \in SerialPorts(node), letters \in DriveLetters(node) :
            LET list == <<USBDevice(node, 0, OwnSerial(node), tty, letters)>>
            IN  standalone' = standalone \cup (IF IsSkipped(node) THEN {} ELSE Made({list}))
  /\ UNCHANGED <<tree, pc, devices, hub, port, group, hubGroups, result, history, failed>>

-----------------------------------------------------------------------------
(* _find_all_freewili *)

FindFreeWilis ==
  /\ pc = "standalone" /\ todo = {}
  /\ \/ /\ pc' = "reading freewilis" /\ devices' = Enumerated(DOMAIN tree)
        /\ UNCHANGED <<tree, todo, hub, port, group, hubGroups, standalone, result, history,
                       failed>>
     \/ Over(ScanError) /\ failed' = failed \cup {"freewilis"}

\* The list is read, then the hubs of this moment are listed; either may fail.
ReadDevices ==
  /\ pc = "reading freewilis"
  /\ \/ /\ pc' = "hubs"
        /\ devices' \in Readings(devices)
        /\ todo' = Enumerated({p \in DOMAIN tree : is_freewili_hub(tree[p].prod)})
        /\ UNCHANGED <<tree, hub, port, group, hubGroups, standalone, result, history, failed>>
     \/ (\E d \in devices : ~d.live) /\ Over(ScanError) /\ UNCHANGED failed
     \/ Over(ScanError) /\ failed' = failed \cup {"hubs"}

\* devicesByInstanceId.find
ByInstanceId(path, dev) == {d \in devices : InstanceId(d.path, d.dev) = InstanceId(path, dev)}

\* devicesByDriverKey.find
ByDriverKey(path, dev) == {d \in ByInstanceId(path, dev) : d.key}

\* _getUSBSerialFromDescriptor may fail.
HubSerials(h) == {"synthetic"} \cup ({h.dev.serial} \ {""})

\* A hub that left is skipped.  One that is not in the list is looked at through
\* end(): what is there may look like a device, which skips the hub, or is null
\* and written to.
IdentifyHub ==
  /\ pc = "hubs"
  /\ \E h \in todo :
       \/ /\ ~h.live \/ ByInstanceId(h.path, h.dev) = {}
          /\ todo' = todo \ {h}
          /\ UNCHANGED <<tree, pc, devices, hub, port, group, hubGroups, standalone, result,
                         history>>
       \/ h.live /\ ByInstanceId(h.path, h.dev) = {} /\ Over(Crashed)
       \/ /\ h.live
          /\ \E known \in ByInstanceId(h.path, h.dev), serial \in HubSerials(h) :
               group' = <<USBDevice(known, 0, serial, NoPort, NoPort)>>
          /\ todo' = todo \ {h} /\ hub' = {h} /\ pc' = "opening"
          /\ UNCHANGED <<tree, devices, port, hubGroups, standalone, result, history>>
  /\ UNCHANGED failed

\* One of the calls that look up and open the hub and ask it for its ports may fail,
\* and does when the hub has left.
OpenHub ==
  /\ pc = "opening"
  /\ \E h \in hub :
       \/ /\ h.live
          /\ pc' = "ports" /\ port' = 0
          /\ UNCHANGED <<tree, devices, todo, hub, group, hubGroups, standalone, result, history,
                         failed>>
       \/ ~h.live /\ Over(ScanError) /\ UNCHANGED failed
       \/ h.live /\ Over(ScanError) /\ failed' = failed \cup {"hub"}

\* Variants with a bug: the last port is left out, one too many is asked.
BeforeLastPort == port < NumberOfPorts
PastLastPort == port <= NumberOfPorts + 1

\* for (uint8_t i = 0; i <= numberOfPorts; ++i)
MorePorts == port <= NumberOfPorts

\* A port tells the driver key of its device, unless it is empty, the hub has left
\* or the device has no driver yet; a key that is not in the list is an error.
VisitPort ==
  /\ pc = "ports" /\ MorePorts
  /\ UNCHANGED failed
  /\ \E h \in hub :
       LET place == Append(h.path, port)
           found == h.live /\ place \in DOMAIN tree /\ tree[place].bound
           known == IF found THEN ByDriverKey(place, tree[place]) ELSE {}
       IN  \/ /\ \/ ~found /\ UNCHANGED group
                 \/ \E r \in known :
                      \E tty \in SerialPorts(r), letters \in DriveLetters(r) :
                        group' = Append(group, USBDevice(r, port, OwnSerial(r), tty, letters))
              /\ port' = port + 1
              /\ UNCHANGED <<tree, pc, devices, todo, hub, hubGroups, standalone, result, history>>
           \/ found /\ known = {} /\ Over(ScanError)

EndHub ==
  /\ pc = "ports" /\ ~MorePorts
  /\ pc' = "hubs" /\ port' = 0
  /\ hubGroups' = hubGroups \cup {group}
  /\ hub' = {} /\ group' = <<>>
  /\ UNCHANGED <<tree, devices, todo, standalone, result, history, failed>>

Return ==
  /\ pc = "hubs" /\ todo = {}
  /\ \E list \in SortedByUniqueID(standalone \cup Made(hubGroups)) : Over(Devices(list))
  /\ UNCHANGED failed

Init == /\ tree = [p \in {<<c>> : c \in Controllers} |-> RootHub]
        /\ pc = "idle"
        /\ devices = {} /\ todo = {} /\ hub = {} /\ port = 0 /\ group = <<>>
        /\ hubGroups = {} /\ standalone = {}
        /\ result = NoResult
        /\ disturbed = {} /\ late = {} /\ failed = {}

Next == \/ \E slot \in Slots : Plug(slot)
        \/ \E path \in DOMAIN tree : Unplug(path) \/ Bind(path)
        \/ FindStandalone \/ ReadStandalone \/ VisitStandalone
        \/ FindFreeWilis \/ ReadDevices
        \/ IdentifyHub \/ OpenHub \/ VisitPort \/ EndHub \/ Return

Spec == Init /\ [][Next]_vars

-----------------------------------------------------------------------------
(* Properties. *)

Places == {<<c>> : c \in Controllers} \cup {slot.path : slot \in Slots}

Attachable ==
  {RootHub} \cup UNION {LET dev == [f \in DOMAIN RootHub |-> slot[f]]
                       IN  {dev, [dev EXCEPT !.bound = TRUE]} : slot \in Slots}

Records ==
  [path : Places, dev : Attachable, node : {"device", "interface"}, live : BOOLEAN,
   key : BOOLEAN, chain : {<<>>} \cup {usbPortChain(p) : p \in Places}]

TypeOK ==
  /\ DOMAIN tree \subseteq Places
  /\ \A p \in DOMAIN tree : Len(p) = 1 \/ Front(p) \in DOMAIN tree
  /\ pc \in {"idle", "reading standalone", "standalone", "reading freewilis", "hubs", "opening",
             "ports"}
  /\ devices \subseteq Records /\ todo \subseteq Records /\ hub \subseteq Records
  /\ Cardinality(hub) = IF pc \in {"opening", "ports"} THEN 1 ELSE 0
  /\ port \in 0..(NumberOfPorts + 1)
  /\ \A list \in hubGroups : list[1].kind = "Hub"
  /\ \A device \in standalone : device.standalone
  /\ result.is \in {"none", "error", "crash", "devices"}
  /\ result.is = "devices" => \A d \in ToSet(result.list) : d.deviceType \in DeviceType
  /\ disturbed \subseteq Places
  /\ late \subseteq {"left", "hub arrived", "new key"}
  /\ failed \subseteq {"standalone", "freewilis", "hubs", "hub"}

\* find_all has just returned devices.
Returned == pc = "idle" /\ result.is = "devices"

\* Nothing changed at the place or below it while find_all ran.
Undisturbed(path) == \A p \in disturbed : ~IsPrefix(path, p)

\* What is on the ports of a hub, so far as it has its driver.
OnPorts(path) == {p \in Subtree(path) : Len(p) = Len(path) + 1 /\ tree[p].bound}

\* A FreeWili hub may have held the place.
OfFreeWiliHub(path) ==
  \E slot \in Slots : slot.path = path /\ is_freewili_hub(slot.prod)

\* A FreeWili without a badge or bootloader on its ports, and not on another's.
PlainFreeWili(path) ==
  /\ path \in DOMAIN tree /\ is_freewili_hub(tree[path].prod)
  /\ ~is_freewili_hub(tree[Front(path)].prod)
  /\ \A p \in OnPorts(path) : ~isStandAloneDevice(tree[p].prod)

\* A badge or bootloader with its driver, in a pass that could enumerate.
ListedStandalone(path) ==
  /\ path \in DOMAIN tree /\ isStandAloneDevice(tree[path].prod) /\ tree[path].bound
  /\ "standalone" \notin failed

\* What a report says of one USB device is what it should say: its own serial port
\* or drive letters, if these are of its first interface; the letters may be
\* missing when a disk came or went.  A hub may have those of a device behind it.
Fits(dev, path) ==
  LET first == Head(tree[path].parts \o <<"none">>)
  IN  /\ dev.place = path /\ dev.prod = tree[path].prod
      /\ dev.portChain = usbPortChain(path) /\ dev.location = Last(path)
      /\ ~IsHub(dev.prod) =>
           /\ dev.port = IF first = "tty" THEN path ELSE NoPort
           /\ \/ dev.paths = IF first = "disk" THEN path ELSE NoPort
              \/ VolumesDisturbed /\ dev.paths = NoPort

\* The devices of a report are just those at these places.
Reports(report, paths) ==
  /\ Len(report.usbDevices) = Cardinality(paths)
  /\ \A p \in paths : \E dev \in ToSet(report.usbDevices) : Fits(dev, p)

\* The reports of the badge or bootloader at this place for itself.
Entries(path) ==
  {i \in DOMAIN result.list :
     LET device == result.list[i]
     IN  device.standalone /\ Len(device.usbDevices) = 1 /\ device.usbDevices[1].place = path}

\* A composite device with a disk, which is two USB nodes to Windows.
HasDiskNode(path) == Len(tree[path].parts) > 1 /\ "disk" \in ToSet(tree[path].parts)

(* Whatever else is plugged and unplugged while its ports are asked one by   *)
(* one, a FreeWili that stays put is in exactly one report, with exactly its *)
(* hub and what has a driver on its ports, foreign devices included, each    *)
(* with its own serial port and drive letters (fwfinder_windows.cpp:1141-    *)
(* 1209); a foreign hub on its ports may show those of a device behind it.   *)
FreeWiliReportedWhole ==
  Returned =>
    \A path \in {p \in DOMAIN tree : Undisturbed(p) /\ PlainFreeWili(p)} :
      LET reports == {i \in DOMAIN result.list :
                        \E dev \in ToSet(result.list[i].usbDevices) : Fits(dev, path)}
      IN  /\ Cardinality(reports) = 1
          /\ \A i \in reports : /\ ~result.list[i].standalone
                                /\ Reports(result.list[i], {path} \cup OnPorts(path))

(* A badge or bootloader that stays put has an entry of its own, wherever it *)
(* is plugged in and whatever else comes and goes.  It has just one unless   *)
(* its disk is a USB node besides it: then it is reported twice, of which    *)
(* only the RP2350's second report is dropped, "a hack to not have           *)
(* duplicates", and that only where devices are described in English         *)
(* (fwfinder_windows.cpp:1305-1335).                                         *)
BadgeHasItsOwnEntry ==
  Returned =>
    \A path \in {p \in DOMAIN tree : Undisturbed(p) /\ ListedStandalone(p)} :
      /\ \E i \in Entries(path) : Reports(result.list[i], {path})
      /\ Cardinality(Entries(path)) =
           IF HasDiskNode(path) /\ ~(tree[path].prod = "Rp2350Uf2" /\ EnglishDescriptions)
           THEN 2 ELSE 1

(* Two entries share a unique ID only when a badge or bootloader is reported *)
(* twice, by both passes because it is on a FreeWili's hub or with its disk; *)
(* when a PCI number stands in for a port so that two chains are the same;   *)
(* or when the place changed during the scan, or something did and the ID is *)
(* that of a chain that could not be read (fwfinder_windows.cpp:316, 604,    *)
(* 1199-1207, 1305).                                                         *)
SameIDOnlyForAReason ==
  Returned =>
    \A i, j \in DOMAIN result.list :
      (i # j /\ result.list[i].uniqueID = result.list[j].uniqueID) =>
        LET isIt(path) == UniqueID(usbPortChain(path)) = result.list[i].uniqueID
        IN  \/ \E p \in disturbed : isIt(p) \/ result.list[i].uniqueID = UniqueID(<<>>)
            \/ \E p, q \in DOMAIN tree :
                 p # q /\ isIt(p) /\ usbPortChain(p) = usbPortChain(q)
            \/ \E p \in DOMAIN tree :
                 /\ isIt(p) /\ isStandAloneDevice(tree[p].prod)
                 /\ OfFreeWiliHub(Front(p)) \/ HasDiskNode(p)

(* One device that comes or goes can fail the scan of the whole machine, but *)
(* only once the FreeWili pass has begun.  Without a call of the system that *)
(* fails by itself, the scan fails only when a device left meanwhile or when *)
(* one on a FreeWili's port got its driver, whether it arrived or had been   *)
(* there all along; the process ends only when a FreeWili's hub arrived      *)
(* (fwfinder_windows.cpp:533, 561-568, 1003, 1034, 1066-1143, 1172).         *)
FailsOnlyForAReason ==
  /\ result = ScanError =>
       failed \cap {"freewilis", "hubs", "hub"} # {} \/ late \cap {"left", "new key"} # {}
  /\ result = Crashed => "hub arrived" \in late

-----------------------------------------------------------------------------
(* What the comments say and the code does not do. *)

(* fwfinder_windows.cpp:1037: "Nothing we can do if we don't have anything": *)
(* a hub that is not in the list of devices is passed over.                  *)
UnknownHubIsPassedOver == result # Crashed
=============================================================================
