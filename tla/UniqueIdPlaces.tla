---------------------------- MODULE UniqueIdPlaces ----------------------------
(***************************************************************************)
(* Two devices somewhere in the USB tree.  A step plugs one of them one    *)
(* hub deeper; the library computes both IDs anew at each scan.            *)
(***************************************************************************)
EXTENDS UniqueId

CONSTANTS Ports,      \* the hub ports in use
          MaxDepth    \* bound on the length of a port chain

ASSUME PortsAssumption == Ports \subseteq 1..63
ASSUME MaxDepthAssumption == MaxDepth \in Nat \ {0}

VARIABLES chain, other

vars == <<chain, other>>

TypeOK == /\ chain \in Seq(Ports) /\ Len(chain) \in 1..MaxDepth
          /\ other \in Seq(Ports) /\ Len(other) \in 1..MaxDepth

Init == \E p, q \in Ports : chain = <<p>> /\ other = <<q>>

\* The device moves behind one more hub, at port p of it.
Deeper(p) ==
  \/ /\ Len(chain) < MaxDepth
     /\ chain' = Append(chain, p)
     /\ UNCHANGED other
  \/ /\ Len(other) < MaxDepth
     /\ other' = Append(other, p)
     /\ UNCHANGED chain

Next == \E p \in Ports : Deeper(p)

Spec == Init /\ [][Next]_vars

-----------------------------------------------------------------------------
(* Two different places of the tree never share an ID while both chains are *)
(* within the depth the 32-bit shift can hold: the registry of the C API    *)
(* and operator== tell devices apart by this ID alone (fwfinder.hpp:162).   *)
PlacesHaveDistinctIDs ==
  (Len(chain) <= ExactDepth /\ Len(other) <= ExactDepth /\ chain # other)
    => UniqueIDs(chain) \cap UniqueIDs(other) = {}

(* What the comment at fwfinder.cpp:13 promises: "We can do 10 hubs deep    *)
(* and 64 ports per hub".  Every ID any build computes for a chain of up to *)
(* ten ports differs from that of another place.                            *)
TenHubsDeep ==
  (Len(chain) <= 10 /\ Len(other) <= 10 /\ chain # other)
    => UniqueIDs(chain) \cap UniqueIDs(other) = {}
=============================================================================
