----------------------------- MODULE DeviceView -----------------------------
(***************************************************************************)
(* What WatchDevices promises: "callers can treat the channel as the       *)
(* single source of truth".  A caller that applies the events in order     *)
(* sees each device come and go by turns, and in the end sees what is      *)
(* attached.                                                               *)
(***************************************************************************)
CONSTANTS Devices, States, Gone

VARIABLES view      \* the state each device has to the caller

Init == view = [d \in Devices |-> Gone]

Comes(d) == view[d] = Gone /\ \E s \in States : view' = [view EXCEPT ![d] = s]
Goes(d) == view[d] # Gone /\ view' = [view EXCEPT ![d] = Gone]

Next == \E d \in Devices : Comes(d) \/ Goes(d)

Spec == Init /\ [][Next]_view
=============================================================================
