------------------------------- MODULE Custody -------------------------------
(***************************************************************************)
(* What the owner is promised about each payload file: it is on the device *)
(* until a journal has it, and it leaves the device only then.  Delivery   *)
(* implements this module.                                                 *)
(***************************************************************************)
CONSTANT Items

VARIABLE status   \* status[i]: where the last content of item i is

\* A step may take an item in, deliver it, overwrite a delivered one with new
\* bytes, or release a delivered one from the device.  There is no step from
\* "device" to anything but "both", and none out of "journal".
Moves == {<<"none", "device">>, <<"device", "both">>,
          <<"both", "device">>, <<"both", "journal">>}

Init == status = [i \in Items |-> "none"]

Next ==
  \E new \in [Items -> {"none", "device", "both", "journal"}] :
    /\ status' = new
    /\ \A i \in Items : new[i] = status[i] \/ <<status[i], new[i]>> \in Moves

Spec == Init /\ [][Next]_status
=============================================================================
