--------------------------- MODULE UniqueIdProofs ---------------------------
(***************************************************************************)
(* The location ID tells places of the USB tree apart: for every set of    *)
(* hub ports and every depth, two different chains of up to five ports     *)
(* have no ID in common.                                                   *)
(***************************************************************************)
EXTENDS UniqueIdPlaces, OperatorProofs

LEMMA TypeInvariant == Spec => []TypeOK
<1>1. Init => TypeOK
  <2> SUFFICES ASSUME NEW p \in Ports, NEW q \in Ports, chain = <<p>>, other = <<q>>
               PROVE  TypeOK
    BY DEF Init
  <2> QED
    BY MaxDepthAssumption DEF TypeOK, MaxDepthAssumption
<1>2. TypeOK /\ [Next]_vars => TypeOK'
  <2> SUFFICES ASSUME TypeOK, [Next]_vars PROVE TypeOK'
    OBVIOUS
  <2>1. ASSUME NEW p \in Ports, Deeper(p) PROVE TypeOK'
    <3>1. MaxDepth \in Nat
      BY MaxDepthAssumption DEF MaxDepthAssumption
    <3>2. CASE Len(chain) < MaxDepth /\ chain' = Append(chain, p) /\ UNCHANGED other
      BY <3>1, <3>2 DEF TypeOK
    <3>3. CASE Len(other) < MaxDepth /\ other' = Append(other, p) /\ UNCHANGED chain
      BY <3>1, <3>3 DEF TypeOK
    <3> QED
      BY <2>1, <3>2, <3>3 DEF Deeper
  <2>2. CASE UNCHANGED vars
    BY <2>2 DEF vars, TypeOK
  <2> QED
    BY <2>1, <2>2 DEF Next
<1> QED
  BY <1>1, <1>2, PTL DEF Spec

(* Whatever the ports and however deep the tree, two devices in different    *)
(* places whose chains the 32-bit shift can hold never get the same ID       *)
(* (fwfinder.cpp:12-24, fwfinder.hpp:162).                                   *)
THEOREM DistinctIDs == Spec => []PlacesHaveDistinctIDs
<1>1. TypeOK => PlacesHaveDistinctIDs
  <2> SUFFICES ASSUME TypeOK, Len(chain) <= ExactDepth, Len(other) <= ExactDepth, chain # other
               PROVE  UniqueIDs(chain) \cap UniqueIDs(other) = {}
    BY DEF PlacesHaveDistinctIDs
  <2>1. chain \in Seq(1..63) /\ other \in Seq(1..63)
    <3>1. Ports \subseteq 1..63
      BY PortsAssumption DEF PortsAssumption
    <3> QED
      BY <3>1, SeqOfMore DEF TypeOK
  <2>2. UniqueID(chain) # UniqueID(other)
    BY <2>1, DistinctWords
  <2> QED
    BY <2>1, <2>2, ShortChainHasOneID
<1> QED
  BY <1>1, TypeInvariant, PTL
=============================================================================
