----------------------------- MODULE MCClients -----------------------------
(* Instances of Clients for TLC: the two programs with a FREE-WILi2, with     *)
(* and without its display, at a port chain of one or of two, a FREE-WILi2    *)
(* whose hub alone answers, and a badge.  The Zig binding's buffer holds one  *)
(* port, and two USB devices.                                                 *)
EXTENDS Clients

CONSTANTS A1, A2, A3

MCUsb(prod, location, portChain) ==
  [prod |-> prod, kind |-> getUSBDeviceTypeFrom(prod, location), location |-> location,
   portChain |-> portChain]

MCFreeWili(id, usbDevices) == [uniqueID |-> id, standalone |-> FALSE, usbDevices |-> usbDevices]

MCDevice ==
  {MCFreeWili("near", <<MCUsb("FW2Main", 1, <<1>>), MCUsb("FW2Display", 2, <<1>>),
                        MCUsb("FW2Hub", 1, <<1>>)>>),
   MCFreeWili("near", <<MCUsb("FW2Main", 1, <<1>>), MCUsb("FTDI", 3, <<1>>),
                        MCUsb("FW2Hub", 1, <<2, 2>>)>>),
   MCFreeWili("far", <<MCUsb("FW2Main", 1, <<1>>), MCUsb("FW2Hub", 1, <<2, 2>>)>>),
   MCFreeWili("bare", <<MCUsb("FW2Hub", 1, <<1>>)>>),
   [uniqueID |-> "badge", standalone |-> TRUE, usbDevices |-> <<MCUsb("Badge2025", 2, <<2>>)>>]}

MCAddr == {A1, A2, A3}

\* 16 and 64 in the code; more locations than the C example has room for.
MCRoom == [c |-> 2, zig |-> 3]

\* 256 and 255 in the code.
MCErrorBuffer == [c |-> 256, zig |-> 255]

\* fwfinder.cpp:342, 385, 429, 474; and what they say of a badge (fwfinder.cpp:111).
MCTextLength ==
  [says \in Says |->
     CASE ~says.standalone /\ says.of = "main"    -> 25
       [] ~says.standalone /\ says.of = "display" -> 28
       [] ~says.standalone /\ says.of = "fpga"    -> 25
       [] ~says.standalone /\ says.of = "hub"     -> 24
       [] says.standalone  /\ says.of = "main"    -> 25
       [] says.standalone  /\ says.of = "display" -> 71
       [] says.standalone  /\ says.of = "fpga"    -> 68
       [] says.standalone  /\ says.of = "hub"     -> 67]
=============================================================================
