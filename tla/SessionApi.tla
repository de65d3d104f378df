----------------------------- MODULE SessionApi -----------------------------
(***************************************************************************)
(* What an instance promises to the application, without queues, rings or  *)
(* counters: a session serves one connection after the other, receives and *)
(* sends at most one thing at a time, and closes alone; an instance that   *)
(* is shutting down stops in the very step that releases its last session. *)
(***************************************************************************)
CONSTANT Sessions

Kinds == {"receive", "send", "close"}

VARIABLES
    mode,        \* the instance is stopped, running or stopping
    connected,   \* the sessions that serve a connection
    doing        \* what each session is doing

apiVars == <<mode, connected, doing>>

ApiTypeOK ==
    /\ mode \in {"stopped", "running", "stopping"}
    /\ connected \subseteq Sessions
    /\ doing \in [Sessions -> SUBSET Kinds]

Init ==
    /\ mode = "stopped"
    /\ connected = {}
    /\ doing = [s \in Sessions |-> {}]

Start ==
    /\ mode = "stopped"
    /\ mode' = "running"
    /\ UNCHANGED <<connected, doing>>

Shutdown ==
    /\ mode = "running"
    /\ mode' = "stopping"
    /\ UNCHANGED <<connected, doing>>

(* An accept that was under way when the shutdown began may still succeed. *)
Accept(s) ==
    /\ mode # "stopped"
    /\ s \notin connected
    /\ connected' = connected \cup {s}
    /\ UNCHANGED <<mode, doing>>

Begin(s, kind) ==
    /\ s \in connected
    /\ doing[s] \cap {kind, "close"} = {}
    /\ kind = "close" => doing[s] = {}
    /\ doing' = [doing EXCEPT ![s] = @ \cup {kind}]
    /\ UNCHANGED <<mode, connected>>

Finish(s, kind) ==
    /\ kind \in doing[s] \ {"close"}
    /\ doing' = [doing EXCEPT ![s] = @ \ {kind}]
    /\ UNCHANGED <<mode, connected>>

(* A close that ends, or a detach. *)
Release(s) ==
    /\ s \in connected
    /\ doing[s] \subseteq {"close"}
    /\ connected' = connected \ {s}
    /\ doing' = [doing EXCEPT ![s] = {}]
    /\ mode' = IF mode = "stopping" /\ connected = {s} THEN "stopped" ELSE mode

Next ==
    \/ Start
    \/ Shutdown
    \/ \E s \in Sessions : Accept(s) \/ Release(s)
    \/ \E s \in Sessions, kind \in Kinds : Begin(s, kind) \/ Finish(s, kind)

Spec == Init /\ [][Next]_apiVars

(* Whoever stops an instance leaves no connection behind. *)
StoppedEmpty == mode = "stopped" => connected = {}
=============================================================================
