----------------------------- MODULE MCUniqueId -----------------------------
(* Instances of UniqueIdPlaces for TLC. *)
EXTENDS UniqueIdPlaces

\* The lowest port, one whose low two bits are clear and the highest bit of six.
MCPorts == {1, 4, 32}

\* Ports that agree in their two low bits, for the chains past the sixth port.
MCDeepPorts == {1, 5}
=============================================================================
