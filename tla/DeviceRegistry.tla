--------------------------- MODULE DeviceRegistry ---------------------------
(***************************************************************************)
(* What the C API promises its caller about the devices it knows, whatever *)
(* handles and vectors it keeps: a map from unique IDs to devices that a   *)
(* successful scan replaces as a whole, that freeing shrinks, and that     *)
(* nothing else changes.                                                   *)
(***************************************************************************)
EXTENDS Naturals, Sequences

CONSTANT Scans    \* the results of find_all: sequences of devices

VARIABLES known,  \* unique ID -> FreeWiliDevice
          latest, \* what the last successful scan found, in the same form
          fresh   \* the last call was a successful scan

vars == <<known, latest, fresh>>

FoundIDs(found) == {found[i].uniqueID : i \in DOMAIN found}

\* Of several devices with one ID the last one of the scan stands.
LastWithID(found, id) ==
  LET i == CHOOSE i \in DOMAIN found :
             /\ found[i].uniqueID = id
             /\ \A j \in DOMAIN found : found[j].uniqueID = id => j <= i
  IN  found[i]

Init == /\ known = [id \in {} |-> id]
        /\ latest = known
        /\ fresh = FALSE

Refresh == /\ \E found \in Scans :
                latest' = [id \in FoundIDs(found) |-> LastWithID(found, id)]
           /\ known' = latest'
           /\ fresh' = TRUE

Forget == /\ \E ids \in SUBSET DOMAIN known : known' = [id \in ids |-> known[id]]
          /\ fresh' = FALSE
          /\ UNCHANGED latest

Next == Refresh \/ Forget

Spec == Init /\ [][Next]_vars
=============================================================================
