--------------------------- MODULE MCWindowsScan ---------------------------
(* Instances of WindowsScan for TLC: two controllers, the second of which is *)
(* PCI function 2 and passes for port 2 of the first.                        *)
EXTENDS WindowsScan

MCControllers == {1, 2}

MCPciChain == <<<<>>, <<2>>>>

MCSlot(path, prod, serial, parts) ==
  [path |-> path, prod |-> prod, serial |-> serial, parts |-> parts,
   bound |-> prod \notin {"FW2Main", "Defcon2024"}]

\* On port 2 of controller 1 a FREE-WILi2, with its disk, and with its main processor,
\* which waits for its driver, or a bootloader.
MCFreeWiliDesk ==
  {MCSlot(<<1, 2>>, "FW2Hub", "unit", <<>>),
   MCSlot(<<1, 2, 1>>, "FW2Main", "unit", <<"tty">>),
   MCSlot(<<1, 2, 1>>, "Rp2350Uf2", "chip", <<"disk", "other">>),
   MCSlot(<<1, 2, 2>>, "FW2MassStorage", "", <<"disk">>)}

\* The FREE-WILi2 with another hub, and something behind it, for its disk.
MCForeignDesk ==
  {slot \in MCFreeWiliDesk : slot.prod \in {"FW2Hub", "FW2Main"}}
    \cup {MCSlot(<<1, 2, 2>>, "ForeignHub", "", <<>>),
          MCSlot(<<1, 2, 2, 1>>, "ForeignSerial", "", <<"tty">>)}

\* A badge with a disk, which waits for its driver, on port 1 of controller 2, which has
\* the chain of the FREE-WILi2's port 1, with the bootloader there or on port 3 of the
\* controller.
MCBadge == MCSlot(<<2, 1>>, "Defcon2024", "twin", <<"tty", "disk">>)
MCBadgeDesk == {MCBadge} \cup {slot \in MCFreeWiliDesk : slot.prod \in {"FW2Hub", "Rp2350Uf2"}}
MCBootDesk  == {MCBadge, MCSlot(<<1, 3>>, "Rp2350Uf2", "chip", <<"disk", "other">>)}

MCDesks == {MCFreeWiliDesk, MCForeignDesk, MCBadgeDesk, MCBootDesk}

MCSlots == UNION MCDesks

\* A constraint: what is plugged in at one time is of one desk.
OnOneDesk ==
  \E desk \in MCDesks :
    \A p \in DOMAIN tree : Len(p) > 1 =>
      \E slot \in desk : slot.path = p /\ slot.prod = tree[p].prod
=============================================================================
