----------------------------- MODULE MCMacScan -----------------------------
(* Instances of MacScan for TLC: two buses and what one may plug into them. *)
EXTENDS MacScan

MCBuses == {1, 2}

MCSlot(path, prod, serial, published, tty, disk) ==
  [path |-> path, prod |-> prod, serial |-> serial, published |-> published,
   container |-> IF path[1] = 2 THEN "two" ELSE "one", tty |-> tty, disk |-> disk]

\* On bus 1 a FREE-WILi2 whose hub macOS cannot name, its main processor running
\* or in its bootloader, with a badge on the same hub.
MCFreeWiliDesk ==
  {MCSlot(<<1, 2>>, "FW2Hub", "unit", FALSE, FALSE, FALSE),
   MCSlot(<<1, 2, 1>>, "FW2Main", "unit", TRUE, TRUE, FALSE),
   MCSlot(<<1, 2, 1>>, "Rp2350Uf2", "chip", TRUE, FALSE, TRUE),
   MCSlot(<<1, 2, 4>>, "Badge2025", "badge", TRUE, TRUE, TRUE)}

\* The same without a bootloader, and two badges of one serial: one beside it, one on
\* bus 2 at the ports of the FREE-WILi2.
MCTwinDesk ==
  {slot \in MCFreeWiliDesk : slot.prod # "Rp2350Uf2"}
    \cup {MCSlot(<<1, 3>>, "Badge2025", "twin", TRUE, TRUE, FALSE),
          MCSlot(<<2, 2>>, "Badge2025", "twin", TRUE, TRUE, FALSE)}

\* A FREE-WILi with an FTDI chip, whose processors run old firmware, and at the same
\* ports of the other bus the FREE-WILi2.
MCFirmwareDesk ==
  {MCSlot(<<2, 2>>, "FW1Hub", "", TRUE, FALSE, FALSE),
   MCSlot(<<2, 2, 1>>, "RpiCdc", "main", TRUE, TRUE, FALSE),
   MCSlot(<<2, 2, 2>>, "RpiCdc", "display", TRUE, TRUE, FALSE),
   MCSlot(<<2, 2, 3>>, "FTDI", "unit", TRUE, TRUE, FALSE)}
    \cup {slot \in MCFreeWiliDesk : slot.prod \in {"FW2Hub", "FW2Main"}}

MCDesks == {MCFreeWiliDesk, MCTwinDesk, MCFirmwareDesk}

MCSlots == UNION MCDesks

\* A constraint: what is plugged in at one time is of one desk.
OnOneDesk ==
  \E desk \in MCDesks :
    \A p \in DOMAIN tree : Len(p) > 1 =>
      \E slot \in desk : slot.path = p /\ slot.prod = tree[p].prod
=============================================================================
