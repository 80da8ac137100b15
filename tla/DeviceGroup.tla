----------------------------- MODULE DeviceGroup -----------------------------
(***************************************************************************)
(* A scanner gathering the USB devices of one FreeWili and handing the     *)
(* list to FreeWiliDevice::fromUSBDevices.  macOS and Windows push the hub *)
(* first (fwfinder_mac.cpp, fwfinder_windows.cpp), Linux pushes it last    *)
(* (fwfinder_linux.cpp:521); the children come in whatever order the       *)
(* system's device tree is walked, and any of them may be missing: a       *)
(* processor is held in reset, reboots into its bootloader, or is not      *)
(* populated.  All three push whatever the whitelist knows, a device that  *)
(* is a FreeWili by itself included (fwfinder_linux.cpp:403-475,           *)
(* fwfinder_windows.cpp:1208): a badge on a spare port, or a processor in  *)
(* the RP2350's bootloader.                                                *)
(***************************************************************************)
EXTENDS FreeWiliDevice

CONSTANTS Hubs,      \* the hubs a FreeWili may be built around
          Children   \* what may sit on a hub's ports

ASSUME HubsAssumption ==
  \A hub \in Hubs : is_freewili_hub(hub.prod) /\ hub.kind = "Hub" /\ hub.role = "hub"

ASSUME ChildrenAssumption ==
  \A child \in Children :
    /\ child.kind = getUSBDeviceTypeFrom(child.prod, child.location)
    /\ child.location \in Nat
    /\ ~is_freewili_hub(child.prod)

\* What a child is, in whatever firmware mode it runs, and where it is wired
\* (usbdef.hpp:9 and enum class USBHubPortLocation): a product ID of its own says
\* it, the Pico SDK's and the two bootloaders' only together with the port.  A
\* FREE-WILi2's processors have no RP2040 in them.  The processors' ports are
\* wired, so a badge is on another one.
ASSUME RolesAssumption ==
  \A child \in Children :
    LET shared == child.prod \in {"RpiCdc", "Rp2040Uf2", "Rp2350Uf2"}
        known  == child.kind # "Other"
    IN  /\ child.role = "main" <=>
             child.prod \in {"MainCdc", "FW2Main"} \/ (shared /\ child.location = MainLocation)
        /\ child.role = "display" <=>
             child.prod \in {"DisplayCdc", "FW2Display"} \/ (shared /\ child.location = DisplayLocation)
        /\ child.role = "fpga" <=> child.prod = "FTDI"
        /\ child.role = "probe" <=> child.prod = "DebugProbe"
        /\ child.role = "esp32" <=> child.prod = "Esp32"
        /\ child.role # "hub"
        /\ known /\ child.location = MainLocation => child.role = "main"
        /\ known /\ child.location = DisplayLocation => child.role = "display"
        /\ known /\ child.location = FPGALocation => child.role = "fpga"
        /\ child.hub = "FW2Hub" => child.prod # "Rp2040Uf2"
        /\ child.role \in {"main", "display", "fpga", "probe", "esp32"} =>
             \A other \in Children :
               other.hub = child.hub /\ other.role = child.role => other.location = child.location

NotBuilt == [is |-> "not built"]   \* fromUSBDevices has not been called

VARIABLES hub,         \* the hub being walked
          usbDevices,  \* the list gathered so far
          device       \* what fromUSBDevices returned, or NotBuilt

vars == <<hub, usbDevices, device>>

Gathered == ToSet(usbDevices)

TypeOK == /\ hub \in Hubs
          /\ usbDevices \in Seq(Hubs \cup Children)
          /\ \/ device \in {NotBuilt, BuildError}
             \/ /\ device.deviceType \in DeviceType
                /\ device.standalone \in BOOLEAN
                /\ ToSet(device.usbDevices) = Gathered

Init == /\ hub \in Hubs
        /\ usbDevices \in {<<>>, <<hub>>}
        /\ device = NotBuilt

HubPushedLast == Len(usbDevices) > 1 /\ Last(usbDevices) = hub

\* One device of the walk: a hub port holds one device at a time.
PushChild(child) ==
  /\ device = NotBuilt
  /\ child.hub = hub.prod
  /\ \A dev \in Gathered \ {hub} : dev.location # child.location
  /\ ~HubPushedLast
  /\ usbDevices' = Append(usbDevices, child)
  /\ UNCHANGED <<hub, device>>

\* Linux: the hub after its children.
PushHub ==
  /\ device = NotBuilt
  /\ hub \notin Gathered
  /\ usbDevices' = Append(usbDevices, hub)
  /\ UNCHANGED <<hub, device>>

MakeDevice ==
  /\ device = NotBuilt
  /\ hub \in Gathered
  /\ device' = fromUSBDevices(usbDevices)
  /\ UNCHANGED <<hub, usbDevices>>

Next == \/ \E child \in Children : PushChild(child)
        \/ PushHub
        \/ MakeDevice

Spec == Init /\ [][Next]_vars

-----------------------------------------------------------------------------
Built == device \notin {NotBuilt, BuildError}

\* The devices of the group that are a FreeWili by themselves.
Standalones == {dev \in Gathered : isStandAloneDevice(dev.prod)}

(* The comparator's "order smallest to largest" (fwfinder.cpp:288) comes    *)
(* about although the comparator is no strict weak order: whichever end of  *)
(* the list the scanner pushed the hub to, the rest comes out by port and   *)
(* the hub keeps its end.  Its "Always put the hub at the bottom"           *)
(* (fwfinder.cpp:284) is not what it does: a hub pushed first, as macOS and *)
(* Windows push it, stays at the top.  A group with a standalone device in  *)
(* it is not sorted.                                                        *)
SortedAroundTheHub ==
  Built =>
    LET out == device.usbDevices
    IN  IF Standalones # {}
        THEN out = usbDevices
        ELSE /\ \A i, j \in DOMAIN out :
                  i < j /\ out[i] # hub /\ out[j] # hub => out[i].location < out[j].location
             /\ Head(usbDevices) = hub => Head(out) = hub
             /\ Last(usbDevices) = hub => Last(out) = hub

\* The device a getter returned, as a set.
Got(index) == IF index = 0 THEN {} ELSE {device.usbDevices[index]}

\* The processors of the group, in whatever mode they run: by their role.
InRole(role) == {dev \in Gathered \ {hub} : dev.role = role}

(* While no device of the group is one that isStandAloneDevice accepts,     *)
(* each getter returns exactly the processor it is named for, in whatever   *)
(* order the devices were found, and an error only when it is missing: new  *)
(* firmware is known by its product ID, old firmware and a processor in the *)
(* RP2040's bootloader by the hub port alone (fwfinder.cpp:315, 327, 365,   *)
(* 400).  One device that is accepted, a processor in the RP2350's          *)
(* bootloader or a badge on a spare port, and every processor of the unit   *)
(* is lost: the hub, the display and the rest are not found any more, and   *)
(* the main processor is whatever stands alone at the head of the list      *)
(* (fwfinder.cpp:175, 310, 347).  fwfinder.hpp:132 promises "Main only" of  *)
(* the USB devices of such a unit, which are all of the group's instead,    *)
(* and often without a main one.                                            *)
ProcessorsFoundUnlessOneStandsAlone ==
  Built =>
    IF Standalones = {}
    THEN /\ Got(getMainUSBDevice(device)) = InRole("main")
         /\ Got(getDisplayUSBDevice(device)) = InRole("display")
         /\ Got(getFPGAUSBDevice(device)) = InRole("fpga")
         /\ Got(getDebugProbeUSBDevice(device)) = InRole("probe")
         /\ Got(getESP32USBDevice(device)) = InRole("esp32")
         /\ Got(getHubUSBDevice(device)) = {hub}
    ELSE /\ device.standalone /\ device.usbDevices = usbDevices
         /\ Got(getMainUSBDevice(device)) = Standalones \cap {Head(usbDevices)}
         /\ {getDisplayUSBDevice(device), getFPGAUSBDevice(device), getHubUSBDevice(device),
             getDebugProbeUSBDevice(device), getESP32USBDevice(device)} = {0}

(* "Mass storage, the debug probe and the ESP32 all report their own module *)
(* serials, so they are deliberately not used" (fwfinder.cpp:230): while no *)
(* device stands alone, the serial of a FREE-WILi2 never comes from one of  *)
(* them, and the unit is dropped only when neither its hub nor any device   *)
(* that carries the unit's serial could be read.  A FREE-WILi has no such   *)
(* fallback: it is dropped exactly when its FTDI chip is there and its      *)
(* serial is not.  A device that stands alone gives the unit its own        *)
(* serial, and takes the unit with it when it has none (fwfinder.cpp:193).  *)
SerialIsTheUnits ==
  LET readable == {dev \in Gathered :
                     dev.role \in {"hub", "fpga", "main", "display"} /\ dev.serial # ""}
      muteFTDI == \E dev \in Gathered : dev.prod = "FTDI" /\ dev.serial = ""
  IN  device # NotBuilt =>
        IF Standalones # {}
        THEN \E dev \in Standalones :
               IF device = BuildError
               THEN dev.name = "" \/ dev.serial = ""
               ELSE dev.serial = device.serial
        ELSE IF hub.prod = "FW2Hub"
             THEN IF readable = {}
                  THEN device = BuildError
                  ELSE device # BuildError /\ \E dev \in readable : device.serial = dev.serial
             ELSE (device = BuildError) = muteFTDI
=============================================================================
