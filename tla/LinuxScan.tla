------------------------------ MODULE LinuxScan ------------------------------
(***************************************************************************)
(* Fw::find_all on Linux (fwfinder_linux.cpp): four walks over udev's      *)
(* device list, one after the other, while devices come and go.            *)
(*                                                                         *)
(* A device's syspath /sys/.../usb1/1-2/1-2.1 is the sequence <<1, 2, 1>>  *)
(* of the numbers its components end in, which is its port chain as well.  *)
(* What the strings do is kept: contains() compares them as text, so the   *)
(* path of port 1 is contained in that of port 10, and udev lists devices  *)
(* in the order of the text.                                               *)
(*                                                                         *)
(* Hot-plug events fall between the walks.  A walk is one step: within it  *)
(* udev's list is fixed and a device that vanishes reads as one without    *)
(* vendor and product, which every walk skips.  Interfaces, which have no  *)
(* vendor, are left out, and so is a second tty or disk.                   *)
(***************************************************************************)
EXTENDS FreeWiliDevice, Ordered

CONSTANTS Desks,         \* sets of devices one may plug in: path, prod, name, serial, tty, disk
          MaxDisturbed,  \* bound on the places that change during one scan
          NoResult,      \* find_all has not returned
          ScanError      \* std::unexpected("Failed to initialize udev")

IsHub(prod) == prod \in HubProduct \cup {"ForeignHub"}

\* A bus or port number has one or two digits; a hub has no interface but its own.
ASSUME SlotsAssumption ==
  \A slot \in UNION Desks :
    /\ slot.path \in Seq(1..99) /\ Len(slot.path) > 1
    /\ slot.tty \in BOOLEAN /\ slot.disk \in BOOLEAN
    /\ IsHub(slot.prod) => ~slot.tty /\ ~slot.disk

VARIABLES
  desk,         \* the devices there are to plug in
  tree,         \* path -> device attached there
  pc,           \* the function find_all calls next, or "idle"
  disks,        \* const auto disks
  serialPorts,  \* const auto serialPorts
  devices,      \* the standalone devices
  result,       \* what find_all returned
  disturbed,    \* history: the places that changed since the scan began
  failed        \* history: the walks of this scan that could not open udev

scanVars == <<pc, disks, serialPorts, devices, result, failed>>
vars == <<desk, tree, pc, disks, serialPorts, devices, result, disturbed, failed>>

-----------------------------------------------------------------------------
(* The kernel: the device tree and the names it gives ttys and disks. *)

RootHub ==
  [prod |-> "ForeignHub", name |-> "root hub", serial |-> "", tty |-> 0, disk |-> 0]

\* The lowest number no device carries: /dev/ttyACM0, ttyACM1, ...
LowestFree(used) == Min((1..(Cardinality(used) + 1)) \ used)

\* The device of a slot once attached; its tty and disk are numbers, 0 for none.
Attached(slot) ==
  LET number(has, used) == IF has THEN LowestFree(used \ {0}) ELSE 0
  IN  [prod |-> slot.prod, name |-> slot.name, serial |-> slot.serial,
       tty  |-> number(slot.tty, {tree[p].tty : p \in DOMAIN tree}),
       disk |-> number(slot.disk, {tree[p].disk : p \in DOMAIN tree})]

\* The device at a path and all below it.
Subtree(path) == {p \in DOMAIN tree : IsPrefix(path, p)}

\* A change between two scans finds the last result used and forgotten.
Changed(paths) ==
  IF pc = "idle"
  THEN /\ disks' = <<>> /\ serialPorts' = <<>> /\ devices' = <<>>
       /\ result' = NoResult
       /\ disturbed' = {} /\ failed' = {}
       /\ UNCHANGED pc
  ELSE /\ disturbed' = disturbed \cup paths
       /\ Cardinality(disturbed') <= MaxDisturbed
       /\ UNCHANGED scanVars

Plug(slot) ==
  /\ slot.path \notin DOMAIN tree
  /\ Front(slot.path) \in DOMAIN tree /\ IsHub(tree[Front(slot.path)].prod)
  /\ tree' = [p \in DOMAIN tree \cup {slot.path} |->
                IF p = slot.path THEN Attached(slot) ELSE tree[p]]
  /\ UNCHANGED desk
  /\ Changed({slot.path})

Unplug(path) ==
  /\ path # <<1>>
  /\ tree' = Restrict(tree, DOMAIN tree \ Subtree(path))
  /\ UNCHANGED desk
  /\ Changed(Subtree(path))

-----------------------------------------------------------------------------
(* Paths as text. *)

\* The decimal text of port is that of other, or that of other and more digits.
TextExtends(port, other) == port = other \/ port \div 10 = other \/ port \div 100 = other

\* path.contains(part): equal up to part's last component, which path's text goes
\* on from in whatever way.
TextContains(path, part) ==
  /\ Len(part) <= Len(path)
  /\ Front(part) = SubSeq(path, 1, Len(part) - 1)
  /\ TextExtends(path[Len(part)], Last(part))

\* Ports in the order of their text: 1, 10, 11, ..., 19, 2, 20, ... (below 100).
TextRank(port) == IF port < 10 THEN 11 * port ELSE 11 * (port \div 10) + (port % 10) + 1

TextBefore(path, other) ==
  \/ IsStrictPrefix(path, other)
  \/ \E i \in DOMAIN path \cap DOMAIN other :
       /\ SubSeq(path, 1, i - 1) = SubSeq(other, 1, i - 1)
       /\ TextRank(path[i]) < TextRank(other[i])

\* udev_enumerate: the paths of a set in the order of their text.
Enumerated(paths) ==
  FoldSet(LAMBDA path, list : Inserted(TextBefore, list, path), <<>>, paths)
-----------------------------------------------------------------------------
(* The walks. *)

\* Variant with a bug: a device without a device node is pushed too.
ListingOfAll(number) ==
  LET list == Enumerated(DOMAIN tree)
  IN  [i \in DOMAIN list |-> [devPath |-> list[i], name |-> number[list[i]]]]

\* What _listDisks and _listSerialPorts push: each device that has one.
Listing(number) ==
  LET list == Enumerated({p \in DOMAIN tree : number[p] # 0})
  IN  [i \in DOMAIN list |-> [devPath |-> list[i], name |-> number[list[i]]]]

\* The name in the first entry that matches, 0 (std::nullopt) for none.
FirstMatching(list, matches(_)) ==
  LET i == SelectInSeq(list, LAMBDA info : matches(info.devPath))
  IN  IF i = 0 THEN 0 ELSE list[i].name

USBDeviceAt(path, name, port, mount) ==
  [prod |-> tree[path].prod, kind |-> getUSBDeviceTypeFrom(tree[path].prod, Last(path)),
   name |-> name, serial |-> tree[path].serial, location |-> Last(path),
   portChain |-> path, port |-> port, paths |-> mount]

\* Variants with a bug: the parent is not looked at, or is any hub.
OnNoHub(path) == FALSE
OnAnyHub(path) == Len(path) > 1 /\ IsHub(tree[Front(path)].prod)

\* The device's parent is a FreeWili hub, whose group accounts for it.
OnFreeWiliHub(path) == Len(path) > 1 /\ is_freewili_hub(tree[Front(path)].prod)

StandaloneAt(path) ==
  LET isThis(devPath) == devPath = path
  IN  fromUSBDevices(<<USBDeviceAt(path, tree[path].name,
                                   FirstMatching(serialPorts, isThis),
                                   FirstMatching(disks, isThis))>>)

\* Variant with a bug: the tty of any device on the same hub.
ChildOfSameHub(path) ==
  USBDeviceAt(path, "name",
              FirstMatching(serialPorts, LAMBDA devPath : TextContains(path, Front(devPath))),
              FirstMatching(disks, LAMBDA devPath : TextContains(path, devPath)))

\* manufacturer + " " + productName is never empty, whatever could be read.
ChildAt(path) ==
  LET containsIt(devPath) == TextContains(path, devPath)
  IN  USBDeviceAt(path, "name",
                  FirstMatching(serialPorts, containsIt), FirstMatching(disks, containsIt))

\* findUsbHubChildren: every device whose parent's path contains the hub's.
Children(hubPath) ==
  {p \in DOMAIN tree : Len(p) > 1 /\ TextContains(Front(p), hubPath)}

FreeWiliAt(hubPath) ==
  LET list     == Enumerated(Children(hubPath))
      children == [i \in DOMAIN list |-> ChildAt(list[i])]
  IN  fromUSBDevices(Append(children, USBDeviceAt(hubPath, tree[hubPath].name, 0, 0)))

\* The devices made of these paths; one that cannot be built is logged and dropped.
Made(paths, make(_)) ==
  LET list == Enumerated(paths)
      made == [i \in DOMAIN list |-> make(list[i])]
  IN  Erase(made, {BuildError})

-----------------------------------------------------------------------------
(* Fw::find_all. *)

\* A walk begins with udev_new, which may fail.
Walk(from, to) == pc = from /\ pc' = to /\ UNCHANGED <<desk, tree>>

FailedWalk(name) == failed' = failed \cup {name}

ListDisks ==
  /\ Walk("idle", "_listSerialPorts")
  /\ \/ disks' = Listing([p \in DOMAIN tree |-> tree[p].disk]) /\ failed' = {}
     \/ disks' = <<>> /\ failed' = {"disks"}
  /\ serialPorts' = <<>> /\ devices' = <<>> /\ result' = NoResult
  /\ disturbed' = {}

ListSerialPorts ==
  /\ Walk("_listSerialPorts", "_find_all_standalone")
  /\ \/ serialPorts' = Listing([p \in DOMAIN tree |-> tree[p].tty]) /\ UNCHANGED failed
     \/ serialPorts' = <<>> /\ FailedWalk("serial ports")
  /\ UNCHANGED <<disks, devices, result, disturbed>>

\* The error of this walk is dropped.
FindStandalone ==
  LET found == {p \in DOMAIN tree : isStandAloneDevice(tree[p].prod) /\ ~OnFreeWiliHub(p)}
  IN  /\ Walk("_find_all_standalone", "_find_all_freewili")
      /\ \/ devices' = SortByUniqueID(Made(found, StandaloneAt)) /\ UNCHANGED failed
         \/ devices' = <<>> /\ FailedWalk("standalone")
      /\ UNCHANGED <<disks, serialPorts, result, disturbed>>

\* The error of this one is find_all's.
FindFreeWilis ==
  LET hubs == {p \in DOMAIN tree : is_freewili_hub(tree[p].prod)}
  IN  /\ Walk("_find_all_freewili", "idle")
      /\ \/ result' = SortByUniqueID(devices \o Made(hubs, FreeWiliAt)) /\ UNCHANGED failed
         \/ result' = ScanError /\ FailedWalk("hubs")
      /\ UNCHANGED <<disks, serialPorts, devices, disturbed>>

Init == /\ desk \in Desks
        /\ tree = [p \in {<<1>>} |-> RootHub]
        /\ pc = "idle"
        /\ disks = <<>> /\ serialPorts = <<>> /\ devices = <<>>
        /\ result = NoResult
        /\ disturbed = {} /\ failed = {}

Next == \/ \E slot \in desk : Plug(slot)
        \/ \E path \in DOMAIN tree : Unplug(path)
        \/ ListDisks
        \/ ListSerialPorts
        \/ FindStandalone
        \/ FindFreeWilis

Spec == Init /\ [][Next]_vars

-----------------------------------------------------------------------------
(* Properties. *)

Paths == {<<1>>} \cup {slot.path : slot \in UNION Desks}

Phases == {"idle", "_listSerialPorts", "_find_all_standalone", "_find_all_freewili"}

Info == [devPath : Paths, name : Nat \ {0}]

TypeOK ==
  /\ desk \in Desks
  /\ DOMAIN tree \subseteq Paths
  /\ \A p \in DOMAIN tree : p = <<1>> \/ (Front(p) \in DOMAIN tree /\ IsHub(tree[Front(p)].prod))
  /\ pc \in Phases
  /\ disks \in Seq(Info) /\ serialPorts \in Seq(Info)
  /\ \A i \in DOMAIN devices : devices[i].standalone /\ devices[i].usbDevices # <<>>
  /\ result \in {NoResult, ScanError} \/ \A i \in DOMAIN result : result[i].deviceType \in DeviceType
  /\ disturbed \subseteq Paths
  /\ failed \subseteq {"disks", "serial ports", "standalone", "hubs"}

\* find_all has just returned devices.
Returned == pc = "idle" /\ result \notin {NoResult, ScanError}

\* Nothing changed at the path or below it while find_all ran.
Undisturbed(path) == \A p \in disturbed : ~IsPrefix(path, p)

StandalonesIn(paths) == {p \in paths : isStandAloneDevice(tree[p].prod)}

HubsIn(paths) == {p \in paths : is_freewili_hub(tree[p].prod)}

\* A badge that is not part of a FreeWili and says who it is.
LoneBadge(path) ==
  /\ path \in StandalonesIn(DOMAIN tree)
  /\ tree[path].name # "" /\ tree[path].serial # ""
  /\ \A hub \in HubsIn(DOMAIN tree) : ~IsPrefix(hub, path)
  /\ "standalone" \notin failed

\* A FREE-WILi2 with its serial, no badge or bootloader in it, and no other FreeWili
\* in it or around it.
PlainFreeWili(path) ==
  /\ path \in DOMAIN tree /\ tree[path].prod = "FW2Hub" /\ tree[path].serial # ""
  /\ {hub \in HubsIn(DOMAIN tree) : IsPrefix(path, hub) \/ IsPrefix(hub, path)} = {path}
  /\ StandalonesIn(Subtree(path)) = {}

\* What a report says of one USB device, and what it should say.
Said(dev) == [at |-> dev.portChain, prod |-> dev.prod, port |-> dev.port, paths |-> dev.paths]
Due(path) == [at |-> path, prod |-> tree[path].prod,
              port  |-> IF "serial ports" \in failed THEN 0 ELSE tree[path].tty,
              paths |-> IF "disks" \in failed THEN 0 ELSE tree[path].disk]

(* Whatever else is plugged and unplugged while find_all runs, and whichever *)
(* of its walks cannot open udev, a lone badge and a FREE-WILi2 that stay    *)
(* put are reported exactly once, with exactly the USB devices they have and *)
(* each of those with its own serial port and mount points (find_all,        *)
(* fwfinder_linux.cpp:545-567).                                              *)
UndisturbedReported ==
  Returned =>
    \A path \in {p \in DOMAIN tree : Undisturbed(p) /\ (LoneBadge(p) \/ PlainFreeWili(p))} :
      LET reports == {i \in DOMAIN result : result[i].uniqueID = UniqueID(path)}
      IN  /\ Cardinality(reports) = 1
          /\ \A i \in reports :
               /\ {Said(dev) : dev \in ToSet(result[i].usbDevices)} = {Due(p) : p \in Subtree(path)}
               /\ Len(result[i].usbDevices) = Cardinality(Subtree(path))

\* The name was listed for the device's place, or for a hub's place it hangs on
\* that held something else when it was listed.
ListedFor(dev, name, list) ==
  \E info \in ToSet(list) :
    /\ info.name = name
    /\ \/ info.devPath = dev.portChain
       \/ info.devPath \in disturbed /\ IsPrefix(info.devPath, dev.portChain)

(* A serial port or a mount point never goes to another place's device, even *)
(* when devices moved between the walk that listed it and the walk that      *)
(* reports it.  What can happen is that a FreeWili's devices inherit those   *)
(* of a device it replaced meanwhile, whose path theirs contain              *)
(* (fwfinder_linux.cpp:335-343, 448-455).                                    *)
PortsStayInPlace ==
  Returned =>
    \A i \in DOMAIN result : \A dev \in ToSet(result[i].usbDevices) :
      /\ dev.port # 0 => ListedFor(dev, dev.port, serialPorts)
      /\ dev.paths # 0 => ListedFor(dev, dev.paths, disks)

\* The walks that would make an entry of the place: one for each FreeWili hub it is
\* at or below, and the standalone walk for a badge that is not right on one.
Claims(path) ==
  LET hubs == HubsIn(DOMAIN tree)
  IN  {hub \in hubs : IsPrefix(hub, path)}
        \cup {p \in StandalonesIn({path}) : Front(p) \notin hubs}

(* One place, one report: two entries share a unique ID only when the device *)
(* there was exchanged between the two walks, or when FreeWilis are nested   *)
(* or a badge hangs on a foreign hub in one, so that two walks take the same *)
(* device for the one that names the group (fwfinder_linux.cpp:313-327,      *)
(* 419, fwfinder.cpp:175, 269).                                              *)
OneReportPerPlace ==
  Returned =>
    \A i, j \in DOMAIN result :
      (i # j /\ result[i].uniqueID = result[j].uniqueID)
        => \/ \E p \in disturbed : UniqueID(p) = result[i].uniqueID
           \/ \E p \in DOMAIN tree : /\ UniqueID(p) = result[i].uniqueID
                                     /\ Cardinality(Claims(p)) > 1

-----------------------------------------------------------------------------
(* What the documentation says and the code does not keep. *)

(* fwfinder.hpp:131: getUSBDevices gives "all USB devices attached to the    *)
(* USB Hub": each device in the list of a FreeWili is at its hub or below.   *)
OnlyAttachedDevices ==
  Returned =>
    \A i \in DOMAIN result : ~result[i].standalone =>
      LET list == result[i].usbDevices
          hub  == list[getHubUSBDevice(result[i])].portChain
      IN  \A k \in DOMAIN list : IsPrefix(hub, list[k].portChain)

=============================================================================
