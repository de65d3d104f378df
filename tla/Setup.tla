------------------------------- MODULE Setup --------------------------------
(***************************************************************************)
(* Setting up servers, as the main function of mcon_test_server does: each *)
(* thread creates an instance; a listening socket is created for it and    *)
(* checked; and the instance is started with it.                           *)
(***************************************************************************)
EXTENDS Instances, ListeningSocket

vars == <<instanceVars, listenVars>>

Init == InstancesInit /\ ListenInit

InstanceStep ==
    /\ \/ \E t \in Threads : CreateStep(t) \/ LifeStep(t)
       \/ EventStep
    /\ UNCHANGED listenVars

ListeningStep == ListenStep /\ UNCHANGED instanceVars

(* mcon_start with the socket just created. *)
Start(t) ==
    /\ call = "created"
    /\ ValidListener
    /\ StartInstance(t)
    /\ Hand

(* Without a usable socket, or when mcon_start fails, the program gives up.*)
GiveUp ==
    /\ Hand
    /\ UNCHANGED instanceVars

Next ==
    \/ InstanceStep
    \/ ListeningStep
    \/ \E t \in Threads : Start(t)
    \/ GiveUp

Spec == Init /\ [][Next]_vars

TypeOK == InstancesTypeOK /\ ListenTypeOK
=============================================================================
