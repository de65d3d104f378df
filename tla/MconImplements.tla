--------------------------- MODULE MconImplements ---------------------------
(***************************************************************************)
(* Mcon implements SessionApi.  What a session does is read off the I/O    *)
(* pipeline, not off the state flags: that the flags guard the pipeline    *)
(* is what the refinement shows.                                           *)
(***************************************************************************)
EXTENDS MconProperties

KindOf == [READ |-> "receive", DRAIN |-> "receive", WRITE |-> "send",
           CLOSE |-> "close"]

Mode == IF ~Started THEN "stopped"
        ELSE IF isShuttingDown THEN "stopping" ELSE "running"

Doing ==
    [s \in Sessions |->
        {KindOf[e.op] : e \in {f \in Outstanding :
                                  f.op \in SessionOps /\ f.session = s}}]

Api == INSTANCE SessionApi
         WITH mode <- Mode, connected <- ActiveSessions, doing <- Doing

(* Every step of an instance is a step of SessionApi or changes nothing an *)
(* application can see: no completion, late accept, partial submission or  *)
(* restart lets a session do two conflicting things at once, releases a    *)
(* busy session, or stops the instance early or late.                      *)
ImplementsApi == Api!Spec
=============================================================================
