---------------------------- MODULE MCLinuxScan ----------------------------
(* Instances of LinuxScan for TLC: what one may plug into the ports of one   *)
(* root hub.                                                                 *)
EXTENDS LinuxScan

MCSlot(path, prod, tty, disk) ==
  [path |-> path, prod |-> prod, name |-> "a name", serial |-> "a serial",
   tty |-> tty, disk |-> disk]

MCBadge(path) == MCSlot(path, "Badge2025", TRUE, TRUE)
MCHub(path) == MCSlot(path, "FW2Hub", FALSE, FALSE)
MCForeignHub(path) == MCSlot(path, "ForeignHub", FALSE, FALSE)

\* At port 2 a FREE-WILi2, whose main processor may be in its bootloader, or a
\* badge; at port 3 a badge, or one behind a foreign hub.
MCPlainDesk ==
  {MCHub(<<1, 2>>),
   MCSlot(<<1, 2, 1>>, "FW2Main", TRUE, FALSE),
   MCSlot(<<1, 2, 1>>, "Rp2350Uf2", FALSE, TRUE),
   MCSlot(<<1, 2, 6>>, "FW2MassStorage", FALSE, TRUE),
   MCBadge(<<1, 2>>), MCForeignHub(<<1, 3>>), MCBadge(<<1, 3, 1>>), MCBadge(<<1, 3>>)}

\* A FREE-WILi2 with another one or a foreign hub on its port 4, and a badge on that.
MCNestedDesk ==
  {MCHub(<<1, 2>>), MCSlot(<<1, 2, 1>>, "FW2Main", TRUE, FALSE),
   MCHub(<<1, 2, 4>>), MCForeignHub(<<1, 2, 4>>), MCBadge(<<1, 2, 4, 1>>)}

MCDesks == {MCPlainDesk, MCNestedDesk}

\* Two FREE-WILi2s on root ports 1 and 10.
MCWideDesk ==
  {MCHub(<<1, 1>>), MCSlot(<<1, 1, 1>>, "FW2Main", TRUE, FALSE),
   MCHub(<<1, 10>>), MCSlot(<<1, 10, 1>>, "FW2Main", TRUE, FALSE)}

MCWideDesks == {MCWideDesk}
=============================================================================
