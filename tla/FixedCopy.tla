----------------------------- MODULE FixedCopy -----------------------------
(***************************************************************************)
(* fixedStringCopy (cfwfinder_internal.hpp), which every function of the C *)
(* API that hands out a text goes through, and the copy of a port chain.   *)
(*                                                                         *)
(* A text is a record [says, length].  What a copy of it leaves in the     *)
(* caller's buffer is again a text: the same one cut to `length`           *)
(* characters.  *dest_size goes in as the room in the buffer and comes out *)
(* as what the copy took of it, the terminator included.                   *)
(***************************************************************************)
EXTENDS Naturals

\* The copy is refused, and nothing written, when there is no room for the terminator.
CanCopy(dest_size) == dest_size > 0

\* src.copy(dest, *dest_size - 1): as much of the text as leaves the terminator room.
Copied(dest_size, src) ==
  [src EXCEPT !.length = IF @ < dest_size - 1 THEN @ ELSE dest_size - 1]

\* Variant with a bug: the size leaves out the terminator.
SizeAfterWithoutTerminator(dest_size, src) == Copied(dest_size, src).length

\* *dest_size when the copy is done.
SizeAfter(dest_size, src) == Copied(dest_size, src).length + 1

\* Variant with a bug: the size of the buffer is not looked at.
ChainFitsAlways(portChain, port_chain_size) == TRUE

\* fw_usb_device_get_port_chain wants the buffer longer than the chain, here its
\* length: one that would just fill the buffer is fw_error_memory.
ChainFits(portChain, port_chain_size) == portChain < port_chain_size
=============================================================================
