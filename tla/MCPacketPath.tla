---------------------------- MODULE MCPacketPath ----------------------------
(***************************************************************************)
(* Two mechanisms beside the packet path, for TLC: the key slot that the   *)
(* CAS process fills and the Tuner HAL reads (KeySlot), and the delivery   *)
(* of a filter's events (FilterDelivery).  They share no state.  A         *)
(* behaviour is one of the one or of the other, as the variable "part"     *)
(* says, and the other keeps its initial state.                            *)
(*                                                                         *)
(* The slot holds two keys of two words and its sequence number is         *)
(* exhausted by the fourth store.                                          *)
(***************************************************************************)
EXTENDS KeySlot

CONSTANTS
    filter1, Capacity, DataSize, LastStartId, MaxHints, MaxCallFailures

VARIABLES
    part, filter, object, told, thread, wake, deadline, notify, pump, frontend,
    hints, callFailures

MCKeys == {<<1, 2>>, <<3, 4>>}

Delivery == INSTANCE FilterDelivery WITH
    Filters <- {filter1}, Feeders <- {"pump"}, MaxFaults <- MaxCallFailures,
    live <- object, faults <- callFailures

deliveryVars == <<filter, object, told, thread, wake, deadline, notify, pump,
                  frontend, hints, callFailures>>
pathVars == <<part, vars, deliveryVars>>

PathsInit == part \in {"slot", "events"} /\ Init /\ Delivery!Init

PathsNext ==
    \/ part = "slot" /\ Next /\ UNCHANGED <<part, deliveryVars>>
    \/ part = "events" /\ Delivery!Next /\ UNCHANGED <<part, vars>>

\* The fairness of KeySlot and of FilterDelivery.  Of all these actions only
\* Poll is enabled where its component does not run.
PathsSpec ==
    /\ PathsInit
    /\ [][PathsNext]_pathVars
    /\ \A r \in Readers : WF_vars(Snapshot(r))
    /\ \A t \in Delivery!Dispatchers : WF_deliveryVars(Delivery!Dispatch(t))
    /\ WF_deliveryVars(part = "events" /\ Delivery!Poll)
    /\ WF_deliveryVars(Delivery!WakeUp)
    /\ WF_deliveryVars(Delivery!NotifyWorker)
    /\ WF_deliveryVars(Delivery!Expire(filter1))

\* FilterDelivery: no event of a filter overtakes the startId it was
\* produced under; a startId the client has not received is given up only by
\* flush(), configure(), a failure or close(); a new startId is neither known
\* to the client nor carried by a dispatcher.
StartIdProtocol ==
    /\ Delivery!StartIdPrecedesEvents
    /\ Delivery!OwedStartIdIsKept
    /\ Delivery!StartIdIsFresh

\* A reader of the slot ends whatever the writer does, and events held back
\* by a time hint, or by none, leave the filter without another packet or
\* call.
PathsProgress == SnapshotEnds /\ Delivery!HeldEventsLeave
=============================================================================
