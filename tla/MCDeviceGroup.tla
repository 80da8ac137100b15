---------------------------- MODULE MCDeviceGroup ----------------------------
(* Instances of DeviceGroup for TLC: a FREE-WILi and a FREE-WILi2, with the  *)
(* firmware modes each of their processors can be in.                        *)
EXTENDS DeviceGroup

MCHub(prod, serial) ==
  [prod |-> prod, kind |-> "Hub", name |-> "hub", serial |-> serial, location |-> 1,
   portChain |-> <<1, 2>>, role |-> "hub", hub |-> prod]

MCHubs == {MCHub("FW1Hub", ""), MCHub("FW2Hub", ""), MCHub("FW2Hub", "hubs")}

MCChild(hubProd, role, location, prod, serial) ==
  [prod |-> prod, kind |-> getUSBDeviceTypeFrom(prod, location), name |-> role,
   serial |-> serial, location |-> location, portChain |-> <<1, 2, location>>,
   role |-> role, hub |-> hubProd]

\* RP2040 processors: new firmware, old firmware, bootloader.
MCFW1Children ==
  {MCChild("FW1Hub", "main", 1, prod, "main's") : prod \in {"MainCdc", "RpiCdc", "Rp2040Uf2"}}
    \cup {MCChild("FW1Hub", "display", 2, prod, "display's") :
            prod \in {"DisplayCdc", "RpiCdc", "Rp2040Uf2"}}
    \cup {MCChild("FW1Hub", "fpga", 3, "FTDI", serial) : serial \in {"", "ftdi's"}}
    \cup {MCChild("FW1Hub", "other", 4, "ForeignOther", "other's"),
          MCChild("FW1Hub", "badge", 4, "Badge2025", "badge's")}

\* The tree of usbdef.hpp:9; a string descriptor may be unreadable, and Main may
\* be in the RP2350's bootloader.
MCFW2Children ==
  {MCChild("FW2Hub", "main", 1, prod, serial) :
     prod \in {"FW2Main", "Rp2350Uf2"}, serial \in {"", "main's"}}
    \cup {MCChild("FW2Hub", "fpga", 3, "FTDI", serial) : serial \in {"", "ftdi's"}}
    \cup {MCChild("FW2Hub", "display", 2, "FW2Display", "display's"),
          MCChild("FW2Hub", "probe", 4, "DebugProbe", "probe's"),
          MCChild("FW2Hub", "esp32", 5, "Esp32", "esp32's"),
          MCChild("FW2Hub", "sdcard", 6, "FW2MassStorage", "sdcard's")}

MCChildren == MCFW1Children \cup MCFW2Children
=============================================================================
