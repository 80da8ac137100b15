--------------------------- MODULE FreeWiliDevice ---------------------------
(***************************************************************************)
(* A FreeWiliDevice (fwfinder.hpp): how FreeWiliDevice::fromUSBDevices and *)
(* the builder turn the USB devices a scanner grouped into one FreeWili,   *)
(* and the getters that find its processors again.                         *)
(*                                                                         *)
(* A USBDevice is a record with fields                                     *)
(*   prod      vendor/product pair        kind      USBDeviceType          *)
(*   name      "" or a name               serial    "" or a serial         *)
(*   location  port on its hub            portChain ports from the root    *)
(* and, where a scanner fills them, port (tty) and paths (mount points),   *)
(* which nothing here looks at.                                            *)
(***************************************************************************)
EXTENDS UsbDef, UniqueId, SequencesExt

BuildError == [is |-> "error"]   \* std::unexpected(...): the text is not modelled

\* One round of the insertion sort that libstdc++'s std::sort is up to 16 elements: to
\* the front when the first element comes later, else behind the last element
\* that does not.
Inserted(before(_, _), sorted, x) ==
  LET stops == {i \in DOMAIN sorted : ~before(x, sorted[i])}
      front == sorted = <<>> \/ 1 \notin stops
  IN  InsertAt(sorted, IF front THEN 1 ELSE Max(stops) + 1, x)

\* sorted[n] is the first n elements, sorted.
InsertionSort(before(_, _), vector) ==
  LET sorted[n \in 0..Len(vector)] ==
        IF n = 0 THEN <<>> ELSE Inserted(before, sorted[n - 1], vector[n])
  IN  sorted[Len(vector)]

\* Variant with a bug: the hub is sorted by its port like the rest.
SortsBeforeByLocation(lhs, rhs) == lhs.location < rhs.location

\* The sort's comparator: false whenever a hub is involved, so a hub is
\* "equivalent" to everything and the relation is no strict weak order.
SortsBefore(lhs, rhs) ==
  /\ lhs.kind # "Hub" /\ rhs.kind # "Hub"
  /\ lhs.location < rhs.location

\* How find_all sorts what it returns.
IDBefore(lhs, rhs) == IDLess(lhs.uniqueID, rhs.uniqueID)

SortByUniqueID(list) == InsertionSort(IDBefore, list)

\* Variant with a bug: the sort starts one device late and drops the first.
SortUSBDevicesFromSecond(usbDevices) == InsertionSort(SortsBefore, Tail(usbDevices))

SortUSBDevices(usbDevices) == InsertionSort(SortsBefore, usbDevices)

\* Variant with a bug: the SD card reader's own serial is taken for the unit's.
FallbackKindsWithStorage == <<"MassStorage", "FTDI", "SerialMain", "SerialDisplay">>

\* The serial of the first device that carries one, by kind in this order; the
\* modules with serials of their own are not asked.
FallbackKinds == <<"FTDI", "SerialMain", "SerialDisplay">>

FallbackSerial(usbDevices) ==
  LET carriers(kind) ==
        {i \in DOMAIN usbDevices : usbDevices[i].kind = kind /\ usbDevices[i].serial # ""}
      k == SelectInSeq(FallbackKinds, LAMBDA kind : carriers(kind) # {})
  IN  IF k = 0 THEN "" ELSE usbDevices[Min(carriers(FallbackKinds[k]))].serial

FirstOfKind(usbDevices, kind) == SelectInSeq(usbDevices, LAMBDA dev : dev.kind = kind)

\* FreeWiliDeviceBuilder::build with its validate(); fromUSBDevices sets every
\* field, so only the emptiness checks and the type check can fail.
Build(device) ==
  IF device.name = "" \/ device.serial = "" \/ device.deviceType = "Unknown"
  THEN BuildError
  ELSE device

\* The device that makes the whole list a standalone FreeWili.
FromStandalone(usbDevices, first) ==
  Build([deviceType |-> standaloneDeviceType(usbDevices[first].prod),
         name       |-> usbDevices[first].name,
         serial     |-> usbDevices[first].serial,
         uniqueID   |-> UniqueID(usbDevices[first].portChain),
         standalone |-> TRUE,
         usbDevices |-> usbDevices])

FromHub(usbDevices) ==
  LET hub   == FirstOfKind(usbDevices, "Hub")
      isFW2 == \E i \in DOMAIN usbDevices :
                 usbDevices[i].kind = "Hub" /\ usbDevices[i].prod = "FW2Hub"
      ftdi  == FirstOfKind(usbDevices, "FTDI")
      type  == IF isFW2 THEN "FreeWili2" ELSE "FreeWili"
      serial ==
        CASE isFW2 /\ usbDevices[hub].serial # "" -> usbDevices[hub].serial
          [] isFW2 /\ usbDevices[hub].serial = "" -> FallbackSerial(usbDevices)
          [] ~isFW2 /\ ftdi # 0 -> usbDevices[ftdi].serial
          [] OTHER -> "Unknown"
  IN  Build([deviceType |-> type,
             name       |-> type,   \* getDeviceTypeName: never empty
             serial     |-> serial,
             uniqueID   |-> IF hub = 0 THEN {} ELSE UniqueID(usbDevices[hub].portChain),
             standalone |-> FALSE,
             usbDevices |-> SortUSBDevices(usbDevices)])

fromUSBDevices(usbDevices) ==
  LET first == SelectInSeq(usbDevices, LAMBDA dev : isStandAloneDevice(dev.prod))
  IN  IF first # 0 THEN FromStandalone(usbDevices, first) ELSE FromHub(usbDevices)

-----------------------------------------------------------------------------
(* The getters return an index into device.usbDevices, 0 for an error. *)

\* Variant with a bug: a processor in its bootloader is not looked for.
ByKindOnly(device, kind, location) == FirstOfKind(device.usbDevices, kind)

\* The first device of the kind, else the first at the hub port the processor
\* normally sits on.
ByKindElseLocation(device, kind, location) ==
  LET byKind == FirstOfKind(device.usbDevices, kind)
  IN  IF byKind # 0
      THEN byKind
      ELSE SelectInSeq(device.usbDevices,
                       LAMBDA dev : dev.location = location /\ dev.kind \notin {"Hub", "Other"})

getMainUSBDevice(device) ==
  IF ~device.standalone
  THEN ByKindElseLocation(device, "SerialMain", MainLocation)
  ELSE IF device.usbDevices # <<>> /\ isStandAloneDevice(device.usbDevices[1].prod)
       THEN 1
       ELSE 0

getDisplayUSBDevice(device) ==
  IF device.standalone THEN 0 ELSE ByKindElseLocation(device, "SerialDisplay", DisplayLocation)

getFPGAUSBDevice(device) ==
  IF device.standalone THEN 0 ELSE ByKindElseLocation(device, "FTDI", FPGALocation)

getDebugProbeUSBDevice(device) ==
  IF device.standalone THEN 0 ELSE FirstOfKind(device.usbDevices, "DebugProbe")

getESP32USBDevice(device) ==
  IF device.standalone THEN 0 ELSE FirstOfKind(device.usbDevices, "ESP32")

getHubUSBDevice(device) ==
  IF device.standalone THEN 0 ELSE FirstOfKind(device.usbDevices, "Hub")

\* getUSBDevices(types): an empty list of types selects everything.
getUSBDevices(device, types) ==
  SelectSeq(device.usbDevices, LAMBDA dev : types = {} \/ dev.kind \in types)
=============================================================================
