------------------------------ MODULE MacScan ------------------------------
(***************************************************************************)
(* Fw::find_all on macOS (fwfinder_mac.cpp): a pass over the USB services  *)
(* for FreeWili hubs and their children, then one for standalone devices,  *)
(* while devices come and go.                                              *)
(*                                                                         *)
(* The place of a device is the sequence <<bus, port, ..., port>> that its *)
(* locationID spells in hex digits.  An iterator is a snapshot of services *)
(* (IOServiceGetMatchingServices, findUSBChildren) visited one at a time,  *)
(* in any order, and hot-plug events fall between the visits.  Of a device *)
(* that left, the service that is held may have each property still or no  *)
(* more, but has lost everything below it, serial port and disk included.  *)
(* Services the loops skip are left out of the snapshots.                  *)
(*                                                                         *)
(* A serial port or disk is named by the place of the device it belongs    *)
(* to; names of devices are never empty (manufacturer + " " + product).    *)
(***************************************************************************)
EXTENDS FreeWiliDevice, Ordered

CONSTANTS Buses,         \* the USB controllers
          Slots,         \* devices one may plug in
          MaxDisturbed,  \* bound on the places that change during one scan
          NoPort,        \* std::nullopt for a serial port or storage path
          NoResult       \* find_all has not returned

\* What a locationID spells: two hex digits for the bus, one for each of up to six
\* ports (0 is none).
Bus  == 1..255
Port == 1..15

IsHub(prod) == prod \in HubProduct \cup {"ForeignHub"}

\* published: macOS resolved the serial's string descriptor while enumerating.
\* A hub has no interface but its own.
ASSUME SlotsAssumption ==
  /\ Buses \subseteq Bus
  /\ \A slot \in Slots :
       /\ slot.path \in Seq(Bus) /\ Len(slot.path) \in 2..7
       /\ Head(slot.path) \in Buses /\ \A i \in 2..Len(slot.path) : slot.path[i] \in Port
       /\ {slot.published, slot.tty, slot.disk} \subseteq BOOLEAN
       /\ IsHub(slot.prod) => ~slot.tty /\ ~slot.disk

VARIABLES
  tree,               \* place -> device attached there
  pc,                 \* the pass find_all is in, or "idle"
  services,           \* what is left of the pass's iterator
  children,           \* what is left of findUSBChildren of the hub visited
  hubGroup,           \* the group of that hub, <<>> between hubs
  hubGroups,          \* the groups of the hubs visited
  standaloneDevices,  \* deviceKey -> devices
  result,             \* what find_all returned
  disturbed,          \* history: the places that changed since the scan began
  failed              \* history: the passes that got no iterator

scanVars == <<pc, hubGroup, hubGroups, standaloneDevices, result, failed>>
vars == <<tree, pc, services, children, hubGroup, hubGroups, standaloneDevices, result,
          disturbed, failed>>

-----------------------------------------------------------------------------
(* The device tree. *)

Controller ==
  [prod |-> "ForeignHub", serial |-> "", published |-> FALSE, container |-> "",
   tty |-> FALSE, disk |-> FALSE]

\* The device of a slot once attached.
Attached(slot) == [f \in DOMAIN Controller |-> slot[f]]

Subtree(path) == {p \in DOMAIN tree : IsPrefix(path, p)}

Below(path) == {p \in Subtree(path) : Len(p) = Len(path) + 1}

\* The services of these places: IOServiceGetMatchingServices, findUSBChildren.  at:
\* what the locationID spells.
Snapshot(paths) == {[path |-> p, at |-> p, dev |-> tree[p], live |-> TRUE] : p \in paths}

\* What an unplugged subtree leaves of the services that are held.
WithDead(held, gone) == {[s EXCEPT !.live = s.live /\ s.path \notin gone] : s \in held}

\* A change between two scans finds the last result used and forgotten.
Changed(paths) ==
  IF pc = "idle"
  THEN /\ result' = NoResult
       /\ hubGroups' = <<>> /\ standaloneDevices' = <<>>
       /\ disturbed' = {} /\ failed' = {}
       /\ UNCHANGED <<pc, hubGroup>>
  ELSE /\ disturbed' = disturbed \cup paths
       /\ Cardinality(disturbed') <= MaxDisturbed
       /\ UNCHANGED scanVars

Plug(slot) ==
  /\ slot.path \notin DOMAIN tree
  /\ Front(slot.path) \in DOMAIN tree /\ IsHub(tree[Front(slot.path)].prod)
  /\ tree' = [p \in DOMAIN tree \cup {slot.path} |->
                IF p = slot.path THEN Attached(slot) ELSE tree[p]]
  /\ Changed({slot.path})
  /\ UNCHANGED <<services, children>>

Unplug(path) ==
  /\ Len(path) > 1
  /\ tree' = Restrict(tree, DOMAIN tree \ Subtree(path))
  /\ services' = WithDead(services, Subtree(path))
  /\ children' = WithDead(children, Subtree(path))
  /\ Changed(Subtree(path))

-----------------------------------------------------------------------------
(* Reading a service. *)

\* A locationID that could not be read is 0: no bus and no position.
NoLocation == <<>>

\* The properties of a device that left, each of which may be missing.  Without its IDs
\* the device is skipped.
Remains(service) ==
  {[path |-> service.path, at |-> at, live |-> FALSE,
    dev |-> [service.dev EXCEPT !.serial = serial, !.container = container]] :
     at \in {service.at, NoLocation}, serial \in {service.dev.serial, ""},
     container \in {service.dev.container, ""}}

AsRead(service) == IF service.live THEN {service} ELSE Remains(service)

\* Variant with a bug: the first position instead of the last.
FirstPosition(at) == IF Len(at) < 2 THEN 1 ELSE at[2]

\* The position on the immediate hub.
getUSBPortFromLocationID(at) == IF Len(at) < 2 THEN 1 ELSE Last(at)

\* What stands for the chain of a device that has neither a position nor a bus.
NoChain == <<1>>

\* The positions without the bus, which only stands in for a missing position.
getUSBPortChainFromLocationID(at) ==
  CASE at = NoLocation -> NoChain [] Len(at) = 1 -> at [] OTHER -> Tail(at)

\* The locationID as a number: what matters is that a bus makes it exceed any port.
LocationID(at) ==
  IF at = NoLocation THEN 0 ELSE 16 * Head(at) + getUSBPortFromLocationID(at)

Published(service) == IF service.dev.published THEN service.dev.serial ELSE ""

\* resolveMissingStrings: a serial macOS did not resolve is asked of the device,
\* which may not answer.
ResolvedSerials(service) ==
  {Published(service)} \cup
    (IF ~service.dev.published /\ service.live THEN {service.dev.serial} ELSE {})

\* Depth first below the service, other USB devices included, in any order.
FoundBelow(service, has(_)) ==
  LET places == {p \in Subtree(service.path) : has(tree[p])}
  IN  IF service.live /\ places # {} THEN places ELSE {NoPort}

SerialPorts(service) == FoundBelow(service, LAMBDA dev : dev.tty)
StoragePaths(service) == FoundBelow(service, LAMBDA dev : dev.disk)

\* place, container: history, where it was read and its kUSBContainerID.  The program
\* keeps the ports without the bus.
USBDevice(service, location, serial, port, storage) ==
  [place     |-> service.path,
   container |-> service.dev.container,
   prod      |-> service.dev.prod,
   kind      |-> getUSBDeviceTypeFrom(service.dev.prod, location),
   name      |-> "name",
   serial    |-> serial,
   location  |-> getUSBPortFromLocationID(service.at),
   portChain |-> getUSBPortChainFromLocationID(service.at),
   port      |-> port,
   paths     |-> storage]

\* The groups a USB device list can be made of; one that cannot is dropped.
Made(groups) ==
  LET made == [i \in DOMAIN groups |-> fromUSBDevices(groups[i])]
  IN  Erase(made, {BuildError})

-----------------------------------------------------------------------------
(* _find_all_fw_hub_based *)

\* An iterator over these places, or the failure that find_all swallows.
Iterator(pass, paths, before) ==
  \/ services' = Snapshot(paths) /\ failed' = before
  \/ services' = {} /\ failed' = before \cup {pass}

FindHubBased ==
  /\ pc = "idle" /\ pc' = "hubs"
  /\ Iterator("hubs", {p \in DOMAIN tree : is_freewili_hub(tree[p].prod)}, {})
  /\ hubGroups' = <<>> /\ standaloneDevices' = <<>>
  /\ result' = NoResult /\ disturbed' = {}
  /\ UNCHANGED <<tree, children, hubGroup>>

\* What is read of a hub that left does not matter: without children it is no group.
VisitHub ==
  /\ pc = "hubs" /\ hubGroup = <<>>
  /\ \E hub \in services : \E serial \in ResolvedSerials(hub) :
       /\ services' = services \ {hub}
       /\ hubGroup' = <<USBDevice(hub, LocationID(hub.at), serial, NoPort, NoPort)>>
       /\ children' = IF hub.live THEN Snapshot(Below(hub.path)) ELSE {}
  /\ UNCHANGED <<tree, pc, hubGroups, standaloneDevices, result, disturbed, failed>>

\* Variant with a bug: standalone devices are included too.
AnyMember(prod) == is_vid_pid_whitelisted(prod)

IsMember(prod) == is_vid_pid_whitelisted(prod) /\ ~isStandAloneDevice(prod)

\* The device type is looked up with the locationID, not with the port.
VisitChild ==
  /\ pc = "hubs"
  /\ \E child \in children :
       /\ children' = children \ {child}
       /\ \/ /\ IsMember(child.dev.prod)
             /\ \E read \in AsRead(child) :
                  \E serial \in ResolvedSerials(read),
                     port \in SerialPorts(read), storage \in StoragePaths(read) :
                    hubGroup' = Append(hubGroup,
                      USBDevice(read, LocationID(read.at), serial, port, storage))
          \/ /\ ~IsMember(child.dev.prod) \/ ~child.live
             /\ UNCHANGED hubGroup
  /\ UNCHANGED <<tree, pc, services, hubGroups, standaloneDevices, result, disturbed, failed>>

\* Variant with a bug: a hub without children is a group too.
PushedAlways(groups, group) == Append(groups, group)

\* Hub + at least one child.
Pushed(groups, group) == IF Len(group) > 1 THEN Append(groups, group) ELSE groups

EndHub ==
  /\ pc = "hubs" /\ hubGroup # <<>> /\ children = {}
  /\ hubGroups' = Pushed(hubGroups, hubGroup)
  /\ hubGroup' = <<>>
  /\ UNCHANGED <<tree, pc, services, children, standaloneDevices, result, disturbed, failed>>

-----------------------------------------------------------------------------
(* _find_all_standalone *)

FindStandalone ==
  /\ pc = "hubs" /\ hubGroup = <<>> /\ services = {}
  /\ pc' = "standalone"
  /\ Iterator("standalone", {p \in DOMAIN tree : isStandAloneDevice(tree[p].prod)}, failed)
  /\ UNCHANGED <<tree, children, hubGroup, hubGroups, standaloneDevices, result, disturbed>>

\* Variant with a bug: one entry for each container and product.
KeyWithoutSerial(service) == <<service.dev.container, service.dev.prod>>

deviceKey(service) == <<service.dev.container, Published(service), service.dev.prod>>

VisitStandalone ==
  /\ pc = "standalone"
  /\ \E service \in services :
       /\ services' = services \ {service}
       /\ \/ \E read \in AsRead(service) :
               \E port \in SerialPorts(read), storage \in StoragePaths(read) :
                 LET key  == deviceKey(read)
                     dev  == USBDevice(read, getUSBPortFromLocationID(read.at),
                                       Published(read), port, storage)
                     list == IF key \in DOMAIN standaloneDevices
                             THEN standaloneDevices[key] ELSE <<>>
                 IN  standaloneDevices' = [k \in DOMAIN standaloneDevices \cup {key} |->
                       IF k = key THEN Append(list, dev) ELSE standaloneDevices[k]]
          \/ ~service.live /\ UNCHANGED standaloneDevices
  /\ UNCHANGED <<tree, pc, children, hubGroup, hubGroups, result, disturbed, failed>>

\* The map's order of the keys is lost in the sort.
Return ==
  /\ pc = "standalone" /\ services = {}
  /\ pc' = "idle"
  /\ LET keys   == SetToSeq(DOMAIN standaloneDevices)
         groups == [i \in DOMAIN keys |-> standaloneDevices[keys[i]]]
     IN  result' = SortByUniqueID(Made(hubGroups) \o Made(groups))
  /\ UNCHANGED <<tree, services, children, hubGroup, hubGroups, standaloneDevices,
                 disturbed, failed>>

Init == /\ tree = [p \in {<<bus>> : bus \in Buses} |-> Controller]
        /\ pc = "idle"
        /\ services = {} /\ children = {}
        /\ hubGroup = <<>> /\ hubGroups = <<>> /\ standaloneDevices = <<>>
        /\ result = NoResult
        /\ disturbed = {} /\ failed = {}

Next == \/ \E slot \in Slots : Plug(slot)
        \/ \E path \in DOMAIN tree : Unplug(path)
        \/ FindHubBased \/ VisitHub \/ VisitChild \/ EndHub
        \/ FindStandalone \/ VisitStandalone \/ Return

Spec == Init /\ [][Next]_vars

-----------------------------------------------------------------------------
(* Properties. *)

Places == {<<bus>> : bus \in Buses} \cup {slot.path : slot \in Slots}

Service ==
  [path : Places, at : Places, dev : {Attached(slot) : slot \in Slots}, live : BOOLEAN]

TypeOK ==
  /\ DOMAIN tree \subseteq Places
  /\ \A p \in DOMAIN tree : Len(p) = 1 \/ Front(p) \in DOMAIN tree
  /\ pc \in {"idle", "hubs", "standalone"}
  /\ services \subseteq Service /\ children \subseteq Service
  /\ hubGroup # <<>> => is_freewili_hub(hubGroup[1].prod)
  /\ \A i \in DOMAIN hubGroups :
       /\ Len(hubGroups[i]) > 1
       /\ hubGroups[i][1].kind = "Hub"
  /\ \A key \in DOMAIN standaloneDevices : standaloneDevices[key] # <<>>
  /\ result = NoResult \/ \A i \in DOMAIN result : result[i].deviceType \in DeviceType
  /\ disturbed \subseteq Places
  /\ failed \subseteq {"hubs", "standalone"}

\* find_all has just returned.
Returned == pc = "idle" /\ result # NoResult

\* Nothing changed at the place or below it while find_all ran.
Undisturbed(path) == \A p \in disturbed : ~IsPrefix(path, p)

Members(hub) == {p \in Below(hub) : IsMember(tree[p].prod)}

\* What a report says of one USB device, and what it should say.
Said(dev) ==
  [place |-> dev.place, prod |-> dev.prod, at |-> dev.portChain, location |-> dev.location,
   port |-> dev.port, paths |-> dev.paths]

Due(path) ==
  [place |-> path, prod |-> tree[path].prod, at |-> Tail(path), location |-> Last(path),
   port  |-> IF tree[path].tty THEN path ELSE NoPort,
   paths |-> IF tree[path].disk THEN path ELSE NoPort]

SaidBy(report) == {Said(dev) : dev \in ToSet(report.usbDevices)}

\* A FREE-WILi2 with a device on it that carries the unit's serial, or a
\* FREE-WILi whose FTDI chip, if it has one, does; neither with another inside.
WholeFreeWili(path) ==
  LET readable(p) == tree[p].published /\ tree[p].serial # ""
      kindOf(p)   == getUSBDeviceTypeFrom(tree[p].prod, LocationID(p))
  IN  /\ path \in DOMAIN tree /\ is_freewili_hub(tree[path].prod)
      /\ {p \in DOMAIN tree : is_freewili_hub(tree[p].prod)
            /\ (IsPrefix(path, p) \/ IsPrefix(p, path))} = {path}
      /\ Members(path) # {}
      /\ IF tree[path].prod = "FW2Hub"
         THEN \E p \in Members(path) : readable(p) /\ kindOf(p) \in ToSet(FallbackKinds)
         ELSE \A p \in Members(path) : kindOf(p) = "FTDI" => readable(p)
      /\ "hubs" \notin failed

\* A badge or bootloader that says who it is.
KnownStandalone(path) ==
  /\ path \in DOMAIN tree /\ isStandAloneDevice(tree[path].prod)
  /\ tree[path].published /\ tree[path].serial # ""
  /\ "standalone" \notin failed

(* Whatever else is plugged and unplugged between the visits, a FreeWili     *)
(* that stays put is in exactly one report, with exactly its hub and the     *)
(* USB devices on it, each with its own serial port and disk, although the   *)
(* unit's serial may only be found on a child (fwfinder_mac.cpp:491-493).    *)
FreeWiliReportedWhole ==
  Returned =>
    \A path \in {p \in DOMAIN tree : Undisturbed(p) /\ WholeFreeWili(p)} :
      LET due     == {Due(p) : p \in {path} \cup Members(path)}
          reports == {i \in DOMAIN result :
                        SaidBy(result[i]) \cap {Due(p) : p \in Members(path)} # {}}
      IN  /\ Cardinality(reports) = 1
          /\ \A i \in reports : /\ ~result[i].standalone
                                /\ SaidBy(result[i]) = due
                                /\ Len(result[i].usbDevices) = Cardinality(due)

(* "ensure each device gets its own entry instead of being grouped together" *)
(* (fwfinder_mac.cpp:686-687): a badge that stays put is in exactly one      *)
(* report, wherever it is plugged in, even on a FreeWili's hub, and a report *)
(* holds more than it only when another has its serial and container too.    *)
BadgeHasItsOwnEntry ==
  Returned =>
    \A path \in {p \in DOMAIN tree : Undisturbed(p) /\ KnownStandalone(p)} :
      LET reports == {i \in DOMAIN result : Due(path) \in SaidBy(result[i])}
      IN  /\ Cardinality(reports) = 1
          /\ \A i \in reports :
               /\ result[i].standalone
               /\ \A dev \in ToSet(result[i].usbDevices) :
                    /\ dev.prod = tree[path].prod /\ dev.serial = tree[path].serial
                    /\ dev.container = tree[path].container

(* The bus is not part of a unique ID on macOS (fwfinder_mac.cpp:96): two    *)
(* entries share one only when they are at the same ports of two buses, when *)
(* a place changed its device during the scan, or when one did and the ID is *)
(* that of a device that could not tell its own (fwfinder_mac.cpp:116).      *)
SameIDOnlyAcrossBuses ==
  Returned =>
    \A i, j \in DOMAIN result :
      (i # j /\ result[i].uniqueID = result[j].uniqueID)
        => \/ \E p \in disturbed : result[i].uniqueID \in {UniqueID(Tail(p)), UniqueID(NoChain)}
           \/ \E p, q \in DOMAIN tree :
                p # q /\ Tail(p) = Tail(q) /\ UniqueID(Tail(p)) = result[i].uniqueID

(* The getters find both processors of a FREE-WILi that stays put, although  *)
(* old firmware leaves them with the same product and the scanner, which     *)
(* looks their type up with the whole locationID (fwfinder_mac.cpp:570),     *)
(* with the same kind: the port on the hub tells them apart.                 *)
OldFirmwareStillFound ==
  Returned =>
    \A path \in {p \in DOMAIN tree : Undisturbed(p) /\ WholeFreeWili(p)} :
      \A i \in {j \in DOMAIN result : Due(path) \in SaidBy(result[j])} :
        LET found(index) == IF index = 0 THEN {} ELSE {Said(result[i].usbDevices[index])}
            at(port)     == {Due(p) : p \in {q \in Members(path) :
                                            tree[q].prod = "RpiCdc" /\ Last(q) = port}}
        IN  /\ at(MainLocation) \subseteq found(getMainUSBDevice(result[i]))
            /\ at(DisplayLocation) \subseteq found(getDisplayUSBDevice(result[i]))

-----------------------------------------------------------------------------
(* What a comment says and the code does not do. *)

(* fwfinder.cpp:64: "Further refine Serial type based on location for older  *)
(* firmware": a CDC port of a processor on a FREE-WILi's hub is reported as  *)
(* SerialMain or SerialDisplay by its hub port.                              *)
OldFirmwareRefined ==
  Returned =>
    \A i \in DOMAIN result : \A dev \in ToSet(result[i].usbDevices) :
      dev.prod = "RpiCdc" =>
        /\ dev.location = MainLocation => dev.kind = "SerialMain"
        /\ dev.location = DisplayLocation => dev.kind = "SerialDisplay"
=============================================================================
