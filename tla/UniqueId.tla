------------------------------ MODULE UniqueId ------------------------------
(***************************************************************************)
(* _generateUniqueIDFromUSBPortChain (fwfinder.cpp): the 64-bit location   *)
(* ID of a FreeWili, six bits per port of the chain from the root to it.   *)
(*                                                                         *)
(* A word is the set of its 1 bits, so `|` is \cup, and no recursion is    *)
(* needed for the loop that accumulates it.  `port & 0x3F` is a uint32_t   *)
(* and its shift is done in 32 bits, whatever the width of uniqueID: the   *)
(* sixth port loses all but two of its bits.  From the seventh on the      *)
(* shift count exceeds the operand's width, which is undefined: the scalar *)
(* shifts of x86 and Arm reduce the count modulo 32 or yield 0, and a      *)
(* compiler may use either for each port.                                  *)
(***************************************************************************)
EXTENDS Integers, Sequences

BitsPerPort == 6
UInt32Width == 32

\* The values 2^b, spelled out: b + 1 indexes them.
Pow2 == <<1, 2, 4, 8, 16, 32>>

\* The bits of port & 0x3F.
PortBits(port) == {b \in 0..(BitsPerPort - 1) : (port \div Pow2[b + 1]) % 2 = 1}

\* bits << count in 32 bits, for a count below the width.
ShiftLeft(bits, count) == {b + count : b \in {c \in bits : c + count < UInt32Width}}

\* The ports whose shift count is out of range.
Overshifted(portChain) == {i \in DOMAIN portChain : BitsPerPort * (i - 1) >= UInt32Width}

\* Variant with a bug: ports five bits apart.
UniqueIDFiveBits(portChain, zeroed) ==
  UNION {ShiftLeft(PortBits(portChain[i]), (5 * (i - 1)) % UInt32Width) :
           i \in DOMAIN portChain \ zeroed}

\* uniqueID after the loop, root port first; `zeroed` are the overshifted ports
\* whose term the build makes 0.
UniqueIDWith(portChain, zeroed) ==
  UNION {ShiftLeft(PortBits(portChain[i]), (BitsPerPort * (i - 1)) % UInt32Width) :
           i \in DOMAIN portChain \ zeroed}

\* Every ID a build may give this chain.
UniqueIDs(portChain) == {UniqueIDWith(portChain, zeroed) : zeroed \in SUBSET Overshifted(portChain)}

\* The ID of a chain too short for an undefined shift.
UniqueID(portChain) == UniqueIDWith(portChain, {})

\* uniqueID < other as 64-bit integers: the highest differing bit decides.
IDLess(id, other) ==
  \E top \in other \ id : \A b \in (id \ other) \cup (other \ id) : b <= top

\* The longest chain whose ports all keep their six bits.
ExactDepth == 5
=============================================================================
