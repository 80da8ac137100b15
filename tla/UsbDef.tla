------------------------------- MODULE UsbDef -------------------------------
(***************************************************************************)
(* The USB products the library knows, and the tables it looks them up in: *)
(* usbdef.hpp, usbdef.cpp and the classification functions at the top of   *)
(* fwfinder.cpp.                                                           *)
(*                                                                         *)
(* A vendor/product pair is a name.  The names are the pairs of usbdef.hpp *)
(* (FW2_FTDI and FW_FTDI are one pair, as are FW2_ESP32 and FW_ESP32) plus *)
(* two the library does not know: a foreign hub and any other device.      *)
(***************************************************************************)
EXTENDS Naturals

\* USB_VID_*/USB_PID_* pairs that are FreeWili hubs; FW1Hub is a stock
\* Microchip hub that other products carry as well.
HubProduct == {"FW1Hub", "FW2Hub"}

\* Pairs isStandAloneDevice accepts.
StandaloneProduct == {"Rp2350Uf2", "Winky", "Defcon2024", "Badge2025", "Probe"}

\* Every pair of WhitelistVIDPID.
WhitelistVIDPID ==
  HubProduct \cup StandaloneProduct \cup
    {"FTDI", "RpiCdc", "Rp2040Uf2", "DebugProbe", "Esp32", "MainCdc", "DisplayCdc",
     "FW2Main", "FW2Display", "FW2MassStorage"}

ForeignProduct == {"ForeignHub", "ForeignSerial", "ForeignOther"}

Product == WhitelistVIDPID \cup ForeignProduct

USBDeviceType ==
  {"Hub", "Serial", "SerialMain", "SerialDisplay", "MassStorage", "ESP32", "FTDI",
   "Other", "DebugProbe"}

DeviceType ==
  {"Unknown", "FreeWili", "DEFCON2024Badge", "DEFCON2025FwBadge", "UF2", "Winky",
   "FreeWili2", "Probe"}

\* enum class USBHubPortLocation
MainLocation    == 1
DisplayLocation == 2
FPGALocation    == 3

is_vid_pid_whitelisted(prod) == prod \in WhitelistVIDPID

is_freewili_hub(prod) == prod \in HubProduct

isStandAloneDevice(prod) == prod \in StandaloneProduct

\* usbDeviceTypeMap, before the location refines "Serial".
usbDeviceTypeMap ==
  [prod \in WhitelistVIDPID |->
     CASE prod \in HubProduct -> "Hub"
       [] prod = "FTDI" -> "FTDI"
       [] prod = "RpiCdc" -> "Serial"
       [] prod \in {"Rp2040Uf2", "Rp2350Uf2", "FW2MassStorage"} -> "MassStorage"
       [] prod \in {"DisplayCdc", "FW2Display"} -> "SerialDisplay"
       [] prod = "DebugProbe" -> "DebugProbe"
       [] prod = "Esp32" -> "ESP32"
       [] OTHER -> "SerialMain"]

\* Old firmware identifies both processors as the Pico SDK's CDC UART: only the
\* hub port tells Main from Display.
getUSBDeviceTypeFrom(prod, location) ==
  CASE prod \notin DOMAIN usbDeviceTypeMap -> "Other"
    [] prod = "RpiCdc" /\ location = MainLocation -> "SerialMain"
    [] prod = "RpiCdc" /\ location = DisplayLocation -> "SerialDisplay"
    [] OTHER -> usbDeviceTypeMap[prod]

\* The device type a standalone product gives the FreeWili built from it.
standaloneDeviceType(prod) ==
  CASE prod = "Defcon2024" -> "DEFCON2024Badge"
    [] prod = "Badge2025" -> "DEFCON2025FwBadge"
    [] prod = "Winky" -> "Winky"
    [] prod = "Probe" -> "Probe"
    [] prod = "Rp2350Uf2" -> "UF2"
    [] OTHER -> "Unknown"
=============================================================================
