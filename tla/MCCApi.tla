------------------------------- MODULE MCCApi -------------------------------
(* Instances of CApi for TLC: two places for a FreeWili.  The first holds a  *)
(* FREE-WILi2 found with its hub alone while it starts, or with its main      *)
(* processor as well; the second holds a badge.                               *)
EXTENDS CApi

CONSTANTS A1, A2, A3

MCUsb(prod, location) ==
  [prod |-> prod, kind |-> getUSBDeviceTypeFrom(prod, location), location |-> location]

MCFreeWili(children) ==
  [uniqueID |-> "hub", standalone |-> FALSE,
   usbDevices |-> children \o <<MCUsb("FW2Hub", 1)>>]

MCBadge ==
  [uniqueID |-> "badge", standalone |-> TRUE, usbDevices |-> <<MCUsb("Badge2025", 2)>>]

MCDevice ==
  {MCFreeWili(<<>>), MCFreeWili(<<MCUsb("FW2Main", 1)>>), MCBadge}

MCAddr == {A1, A2, A3}

MCSymmetry == Permutations(MCAddr)

\* As many addresses as live handles: every handle made after a free reuses one.
MCTwoAddr == {A1, A2}

MCTwoSymmetry == Permutations(MCTwoAddr)
=============================================================================
