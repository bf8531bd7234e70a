--------------------------- MODULE DeliveryLedger ----------------------------
(***************************************************************************)
(* What the outbox promises of each item saved on a device, without tabs,  *)
(* an index, blobs, retries, late answers or reloads.  An item reaches the *)
(* server only after its save was acknowledged, as one capture at a time,  *)
(* and that capture stays the same until the owner deletes it.  It leaves  *)
(* the device only when the server has it whole or its owner let it go.    *)
(* What is excused is a device whose tabs have overwritten one another.    *)
(*                                                                         *)
(* One step may change several items: a tab writes the whole index.        *)
(***************************************************************************)
CONSTANT Items       \* identities of items

VARIABLES saved,     \* items whose save was acknowledged
          released,  \* items their owner discarded, here or there
          held,      \* items that are whole on the device
          copies,    \* the captures that stand for each item
          whole,     \* items of which the server has everything
          excused    \* have tabs overwritten one another?

vars == <<saved, released, held, copies, whole, excused>>

Init == /\ saved = {} /\ released = {} /\ held = {} /\ whole = {}
        /\ copies = [i \in Items |-> {}]
        /\ excused = FALSE

Same(i, before, after) == (i \in after) <=> (i \in before)
DeviceStays(i) == Same(i, held, held')
ServerStays(i) == copies'[i] = copies[i] /\ Same(i, whole, whole')
OwnerStays(i)  == Same(i, saved, saved') /\ Same(i, released, released')

\* May be missing on the device.
Expendable(i) == i \in released \/ i \in whole \/ excused

Save(i)     == /\ i \notin saved /\ i \in saved' /\ Same(i, released, released')
               /\ i \in held' \/ excused
               /\ ServerStays(i)

Release(i)  == /\ i \in saved /\ Same(i, saved, saved') /\ i \in released'
               /\ DeviceStays(i) /\ ServerStays(i)

\* The owner deletes the capture.
Withdraw(i) == /\ i \in saved /\ Same(i, saved, saved') /\ i \in released'
               /\ copies'[i] = {} /\ i \notin whole'
               /\ DeviceStays(i)

Arrive(i)   == /\ i \in saved /\ copies[i] = {}
               /\ \E id \in copies'[i] : /\ copies'[i] = {id}
                                       /\ \A j \in Items : id \notin copies[j]
               /\ OwnerStays(i) /\ DeviceStays(i)

Complete(i) == /\ copies[i] # {} /\ i \notin whole
               /\ i \in whole' /\ copies'[i] = copies[i]
               /\ OwnerStays(i) /\ DeviceStays(i)

Drop(i)     == /\ i \in held /\ i \notin held'
               /\ Expendable(i)
               /\ OwnerStays(i) /\ ServerStays(i)

\* What was dropped may be listed again by a sync that had read it before.
Return(i)   == /\ i \in saved /\ i \notin held /\ i \in held'
               /\ Expendable(i)
               /\ OwnerStays(i) /\ ServerStays(i)

Stay(i)     == OwnerStays(i) /\ DeviceStays(i) /\ ServerStays(i)

Next == /\ excused => excused'
        /\ \A i \in Items :
             \/ Save(i) \/ Release(i) \/ Withdraw(i) \/ Arrive(i) \/ Complete(i)
             \/ Drop(i) \/ Return(i) \/ Stay(i)

Spec == Init /\ [][Next]_vars
=============================================================================
