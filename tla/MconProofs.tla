----------------------------- MODULE MconProofs -----------------------------
(***************************************************************************)
(* Theorems about Mcon for every value of its constants.  The inductive    *)
(* invariant IInv adds to the invariants the runs check that every SQE is  *)
(* in one place of the pipeline, which is what lets an accept be counted.  *)
(***************************************************************************)
EXTENDS MconProperties, IoRingProofs, FunctionTheorems

(* Operations name a session; accepts are counted and covered. *)
AcceptsInv ==
    /\ IsFiniteSet(Outstanding)
    /\ \A e \in Outstanding : e.op # "ACCEPT" => e.session \in Sessions
    /\ AcceptsAreCovered

(* Without failing submissions nothing stays in the submission ring, and   *)
(* the quota is kept.                                                      *)
QuotaInv == "submit" \notin FaultKinds => ring = {} /\ sqeInFlight <= QueueSize

IInv == TypeOK /\ IoInv /\ AcceptsInv /\ QuotaInv /\ WakeupPending

-----------------------------------------------------------------------------
(* The SQEs outstanding decide what AcceptsInv says; three lemmas for the  *)
(* three ways a step can change them.                                      *)

LEMMA AcceptsKept ==
    ASSUME AcceptsInv, Outstanding' = Outstanding,
           acceptsLive' = acceptsLive, Len(free') >= Len(free),
           acceptsLive \in Nat, Len(free) \in Nat, Len(free') \in Nat
    PROVE  AcceptsInv'
BY DEF AcceptsInv, AcceptsAreCovered, OutstandingAccepts

LEMMA AcceptsAdded ==
    ASSUME AcceptsInv, TypeOK, NEW new, IsFiniteSet(new),
           \A e \in new : e.op = "ACCEPT",
           new \cap Outstanding = {}, Outstanding' = Outstanding \cup new,
           acceptsLive' = acceptsLive + Cardinality(new),
           acceptsLive' <= MaxLiveAccepts, acceptsLive' <= Len(free),
           UNCHANGED free
    PROVE  AcceptsInv'
<1>1. IsFiniteSet(Outstanding')
    BY FS_Union DEF AcceptsInv
<1>2. /\ OutstandingAccepts' = OutstandingAccepts \cup new
      /\ OutstandingAccepts \cap new = {}
    BY DEF OutstandingAccepts
<1>3. IsFiniteSet(OutstandingAccepts)
    BY FS_Subset DEF AcceptsInv, OutstandingAccepts
<1>4. Cardinality(OutstandingAccepts') = Cardinality(OutstandingAccepts) + Cardinality(new)
    <2>1. Cardinality(OutstandingAccepts \cup new) =
             Cardinality(OutstandingAccepts) + Cardinality(new)
                - Cardinality(OutstandingAccepts \cap new)
        BY <1>3, FS_Union
    <2>2. Cardinality(OutstandingAccepts \cap new) = 0
        BY <1>2, FS_EmptySet
    <2>3. Cardinality(OutstandingAccepts) \in Nat /\ Cardinality(new) \in Nat
        BY <1>3, FS_CardinalityType
    <2>. QED
        BY <1>2, <2>1, <2>2, <2>3
<1>5. AcceptsAreCovered'
    BY <1>4 DEF AcceptsInv, AcceptsAreCovered
<1>. QED
    BY <1>1, <1>5 DEF AcceptsInv

LEMMA AcceptRemoved ==
    ASSUME AcceptsInv, TypeOK, NEW e \in Outstanding, e.op = "ACCEPT",
           Outstanding' = Outstanding \ {e}, acceptsLive' = acceptsLive - 1,
           Len(free') >= Len(free) - 1, Len(free') \in Nat
    PROVE  AcceptsInv' /\ acceptsLive' \in Nat /\ Len(free) > 0
<1>1. IsFiniteSet(Outstanding')
    BY FS_RemoveElement DEF AcceptsInv
<1>2. OutstandingAccepts' = OutstandingAccepts \ {e} /\ e \in OutstandingAccepts
    BY DEF OutstandingAccepts
<1>3. IsFiniteSet(OutstandingAccepts)
    BY FS_Subset DEF AcceptsInv, OutstandingAccepts
<1>4. /\ Cardinality(OutstandingAccepts') = Cardinality(OutstandingAccepts) - 1
      /\ Cardinality(OutstandingAccepts') \in Nat
      /\ Cardinality(OutstandingAccepts) \in Nat
    <2>1. IsFiniteSet(OutstandingAccepts')
        BY <1>2, <1>3, FS_RemoveElement
    <2>. QED
        BY <1>2, <1>3, <2>1, FS_RemoveElement, FS_CardinalityType
<1>5. acceptsLive' \in Nat /\ acceptsLive > 0 /\ acceptsLive <= Len(free) /\ Len(free) \in Nat
    BY <1>4 DEF AcceptsInv, AcceptsAreCovered, TypeOK, SessionTypeOK, StateTypeOK
<1>6. MaxLiveAccepts \in Nat
    BY ConfigAssumption
<1>7. AcceptsAreCovered'
    BY <1>4, <1>5, <1>6 DEF AcceptsInv, AcceptsAreCovered
<1>8. AcceptsInv'
    BY <1>1, <1>7 DEF AcceptsInv
<1>9. Len(free) > 0
    BY <1>5 DEF TypeOK, StateTypeOK
<1>. QED
    BY <1>5, <1>8, <1>9

LEMMA OperationRemoved ==
    ASSUME AcceptsInv, TypeOK, NEW e \in Outstanding, e.op # "ACCEPT",
           Outstanding' = Outstanding \ {e}, acceptsLive' = acceptsLive,
           Len(free') >= Len(free), Len(free') \in Nat
    PROVE  AcceptsInv'
<1>1. IsFiniteSet(Outstanding')
    BY FS_RemoveElement DEF AcceptsInv
<1>2. OutstandingAccepts' = OutstandingAccepts
    BY DEF OutstandingAccepts
<1>3. MaxLiveAccepts \in Nat
    BY ConfigAssumption
<1>4. AcceptsAreCovered'
    BY <1>2, <1>3 DEF AcceptsInv, AcceptsAreCovered, TypeOK, SessionTypeOK, StateTypeOK
<1>. QED
    BY <1>1, <1>4 DEF AcceptsInv

LEMMA OperationAdded ==
    ASSUME AcceptsInv, NEW e, e.op # "ACCEPT", e.session \in Sessions,
           Outstanding' = Outstanding \cup {e}, UNCHANGED <<acceptsLive, free>>
    PROVE  AcceptsInv'
<1>1. IsFiniteSet(Outstanding')
    BY FS_AddElement DEF AcceptsInv
<1>2. OutstandingAccepts' = OutstandingAccepts
    BY DEF OutstandingAccepts
<1>. QED
    BY <1>1, <1>2 DEF AcceptsInv, AcceptsAreCovered

-----------------------------------------------------------------------------
(* The tags of new SQEs make them new. *)
LEMMA FreshTagsOK ==
    ASSUME NEW op, NEW session, NEW fd, NEW n, NEW T \in FreshTags(op, session, n)
    PROVE  /\ T \subseteq Tags
           /\ Cardinality(T) = n
           /\ \A t \in T : Sqe(op, session, fd, t) \notin Outstanding
BY DEF FreshTags, Sqe

LEMMA AcceptSqesOK ==
    ASSUME NEW n, NEW T \in FreshTags("ACCEPT", NoSession, n), ConfigAssumption
    PROVE  /\ AcceptSqes(T) \subseteq Sqes
           /\ AcceptSqes(T) \cap Outstanding = {}
           /\ \A e \in AcceptSqes(T) : e.op = "ACCEPT"
           /\ IsFiniteSet(AcceptSqes(T))
           /\ Cardinality(AcceptSqes(T)) = n
<1>1. /\ T \subseteq Tags
      /\ Cardinality(T) = n
      /\ \A t \in T : Sqe("ACCEPT", NoSession, ServerSocketFd, t) \notin Outstanding
    BY FreshTagsOK
<1>2. IsFiniteSet(T)
    <2>1. IsFiniteSet(Tags)
        BY FS_Interval, ConfigAssumption DEF Tags, ConfigAssumption
    <2>. QED
        BY <1>1, <2>1, FS_Subset
<1>3. \A t \in T : Sqe("ACCEPT", NoSession, ServerSocketFd, t) \in Sqes
    BY <1>1 DEF Sqe, Sqes, ServerSocketFd, Ops
<1>4. ExistsBijection(T, AcceptSqes(T))
    <2>. DEFINE f == [t \in T |-> Sqe("ACCEPT", NoSession, ServerSocketFd, t)]
    <2>1. f \in [T -> AcceptSqes(T)]
        BY DEF AcceptSqes
    <2>2. \A a, b \in T : f[a] = f[b] => a = b
        BY DEF Sqe
    <2>3. \A e \in AcceptSqes(T) : \E t \in T : f[t] = e
        BY DEF AcceptSqes
    <2>. HIDE DEF f
    <2>4. f \in Injection(T, AcceptSqes(T))
        BY <2>1, <2>2, Fun_IsInj
    <2>5. f \in Surjection(T, AcceptSqes(T))
        BY <2>1, <2>3 DEF Surjection
    <2>. QED
        BY <2>4, <2>5 DEF ExistsBijection, Bijection
<1>5. IsFiniteSet(AcceptSqes(T)) /\ Cardinality(AcceptSqes(T)) = n
    BY <1>1, <1>2, <1>4, FS_Bijection
<1>6. \A e \in AcceptSqes(T) : e.op = "ACCEPT"
    BY DEF AcceptSqes, Sqe
<1>7. AcceptSqes(T) \subseteq Sqes
    BY <1>3 DEF AcceptSqes
<1>8. AcceptSqes(T) \cap Outstanding = {}
    BY <1>1 DEF AcceptSqes
<1>. QED
    BY <1>5, <1>6, <1>7, <1>8

-----------------------------------------------------------------------------
(* The kinds of steps, seen from the pipeline.  What is left to show for   *)
(* an action is then that its other variables keep their types.            *)

LocalTypeOK == SessionTypeOK /\ StateTypeOK /\ WorldTypeOK

(* The pipeline is left alone, but for the eventfd. *)
LEMMA QuietStep ==
    ASSUME IInv, UNCHANGED <<queued, ring, kern, cq, sqeInFlight, acceptsLive>>,
           eventfd' \in BOOLEAN, owed' \in BOOLEAN, LocalTypeOK',
           Len(free') >= Len(free), WakeupPending'
    PROVE  IInv'
<1>1. IoInv' /\ Outstanding' = Outstanding
    BY IoUnchanged DEF IInv
<1>2. Len(free) \in Nat /\ Len(free') \in Nat /\ acceptsLive \in Nat
    BY DEF IInv, LocalTypeOK, TypeOK, SessionTypeOK, StateTypeOK
<1>3. MaxLiveAccepts \in Nat
    BY ConfigAssumption DEF ConfigAssumption
<1>4. AcceptsInv'
    BY <1>1, <1>2, AcceptsKept DEF IInv
<1>. QED
    BY <1>1, <1>4 DEF IInv, IoInv, TypeOK, LocalTypeOK, QuotaInv

(* The kernel completes an SQE. *)
LEMMA KernelStep ==
    ASSUME IInv, NEW e, NEW r \in Fds \cup Codes, Complete(e, r), LocalTypeOK',
           UNCHANGED <<acceptsLive, free>>
    PROVE  IInv'
<1>1. IoInv' /\ Outstanding' = Outstanding
    BY CompleteOK DEF IInv
<1>2. Len(free) \in Nat /\ acceptsLive \in Nat
    BY DEF IInv, TypeOK, SessionTypeOK, StateTypeOK
<1>3. AcceptsInv'
    BY <1>1, <1>2, AcceptsKept DEF IInv
<1>4. QuotaInv' /\ WakeupPending'
    BY DEF IInv, Complete, QuotaInv, WakeupPending
<1>. QED
    BY <1>1, <1>3, <1>4 DEF IInv, IoInv, TypeOK, LocalTypeOK

(* The handler consumes a CQE, with or without counting it. *)
LEMMA HandlerStep ==
    ASSUME IInv, pc = "loop", cq # <<>>,
           cq' = Tail(cq), sqeInFlight' \in {sqeInFlight - 1, sqeInFlight},
           UNCHANGED <<queued, ring, kern, eventfd, owed>>,
           LocalTypeOK', AcceptsInv'
    PROVE  IInv'
<1>1. IoInv'
    BY ConsumeOK DEF IInv
<1>2. WakeupPending'
    BY DEF IInv, WakeupPending
<1>3. QuotaInv'
    <2>1. QueueSize \in Nat /\ sqeInFlight \in Nat
        BY ConfigAssumption DEF ConfigAssumption, IInv, IoInv, IoTypeOK
    <2>. QED
        BY <2>1 DEF IInv, QuotaInv
<1>. QED
    BY <1>1, <1>2, <1>3 DEF IInv, IoInv, TypeOK, LocalTypeOK

(* The CQE was an accept's: one accept less is live. *)
LEMMA AcceptStep ==
    ASSUME IInv, Cqe.sqe.op = "ACCEPT", pc = "loop", cq # <<>>,
           cq' = Tail(cq), sqeInFlight' \in {sqeInFlight - 1, sqeInFlight},
           UNCHANGED <<queued, ring, kern, eventfd, owed>>,
           acceptsLive' = acceptsLive - 1,
           Len(free') >= Len(free) - 1, Len(free') \in Nat
    PROVE  /\ acceptsLive' \in Nat /\ Len(free) > 0
           /\ LocalTypeOK' => IInv'
<1>1. Cqe.sqe \in Outstanding /\ Outstanding' = Outstanding \ {Cqe.sqe}
    BY ConsumeOK DEF IInv, Cqe
<1>2. AcceptsInv' /\ acceptsLive' \in Nat /\ Len(free) > 0
    BY <1>1, AcceptRemoved DEF IInv
<1>. QED
    BY <1>2, HandlerStep

-----------------------------------------------------------------------------
(* The actions that leave the pipeline alone. *)

QuietAction ==
    \/ \E ep \in Epolls : Start(ep)
    \/ Shutdown
    \/ ProcessServerSocketEvent
    \/ \E capacity \in Capacities : ProcessIo(capacity)
    \/ LeaveLoop
    \/ ReadEventfd
    \/ RecheckCq
    \/ KernelSignal
    \/ Environment

LEMMA QuietInv ==
    ASSUME IInv, QuietAction
    PROVE  IInv'
<1>. USE DEF QuietAction, Start, Shutdown, ProcessServerSocketEvent, ProcessIo,
         LeaveLoop, Leave, ReadEventfd, RecheckCq, Recheck, KernelSignal, Signal,
         Environment, ClientConnects, AppClosesFd, AppDeregisters, AppRenewsEpoll,
         ioVars, sessionVars, lifeVars, acceptVars, callVars, fdVars, worldVars
<1>1. UNCHANGED <<queued, ring, kern, cq, sqeInFlight, acceptsLive, free>>
    OBVIOUS
<1>2. eventfd' \in BOOLEAN /\ owed' \in BOOLEAN
    <2>1. eventfd \in BOOLEAN /\ owed \in BOOLEAN
        BY DEF IInv, TypeOK, IoTypeOK
    <2>2. (eventfd \/ cq # <<>>) \in BOOLEAN
        BY Zenon
    <2>3. eventfd' \in {eventfd, TRUE, FALSE, (eventfd \/ cq # <<>>)}
        OBVIOUS
    <2>4. owed' \in {owed, FALSE}
        OBVIOUS
    <2>. QED
        BY <2>1, <2>2, <2>3, <2>4, Zenon
<1>3. LocalTypeOK'
    <2>1. SessionTypeOK'
        BY DEF IInv, TypeOK, SessionTypeOK
    <2>2. StateTypeOK'
        <3>1. Capacities \subseteq Nat
            BY EnvironmentAssumption DEF EnvironmentAssumption
        <3>2. epollFd' \in Epolls \cup {NoEpoll} /\ acceptsLive' \in Nat
            BY <1>1 DEF IInv, TypeOK, StateTypeOK
        <3>5. budget' \in Nat
            <4>1. budget' = 0 \/ budget' = budget \/ budget' \in Capacities
                OBVIOUS
            <4>2. budget \in Nat
                BY DEF IInv, TypeOK, StateTypeOK
            <4>3. 0 \in Nat
                OBVIOUS
            <4>. QED
                BY <3>1, <4>1, <4>2, <4>3, Zenon
        <3>3. isShuttingDown' \in BOOLEAN /\ acceptsRequested' \in BOOLEAN
              /\ iterated' \in BOOLEAN
            BY DEF IInv, TypeOK, StateTypeOK
        <3>4. pc' \in {"app", "loop", "read", "recheck"}
            BY DEF IInv, TypeOK, StateTypeOK
        <3>. QED
            BY <3>2, <3>3, <3>4, <3>5 DEF StateTypeOK
    <2>3. WorldTypeOK'
        <3>1. open' \subseteq Fds /\ appFds' \subseteq Fds /\ watched' \subseteq Fds
              /\ eventfdIn' \subseteq Epolls
            BY DEF IInv, TypeOK, WorldTypeOK
        <3>2. serverEdge' \in BOOLEAN
            <4>1. serverEdge \in BOOLEAN
                BY DEF IInv, TypeOK, WorldTypeOK
            <4>2. (serverEdge \/ backlog > 0) \in BOOLEAN
                  /\ (serverEdge \/ Listening) \in BOOLEAN
                BY Zenon
            <4>3. serverEdge' \in {serverEdge, FALSE, (serverEdge \/ backlog > 0),
                                   (serverEdge \/ Listening)}
                OBVIOUS
            <4>. QED
                BY <4>1, <4>2, <4>3, Zenon
        <3>3. backlog' \in 0 .. MaxBacklog /\ faults' \in 0 .. MaxFaults
            <4>1. faults' = faults
                OBVIOUS
            <4>2. backlog' = backlog \/ (backlog < MaxBacklog /\ backlog' = backlog + 1)
                OBVIOUS
            <4>3. MaxBacklog \in Nat
                BY EnvironmentAssumption DEF EnvironmentAssumption
            <4>. QED
                BY <4>1, <4>2, <4>3 DEF IInv, TypeOK, WorldTypeOK
        <3>. QED
            BY <3>1, <3>2, <3>3 DEF WorldTypeOK
    <2>. QED
        BY <2>1, <2>2, <2>3 DEF LocalTypeOK
<1>4. WakeupPending'
    BY DEF IInv, WakeupPending
<1>5. Len(free') >= Len(free)
    BY <1>1 DEF IInv, TypeOK, SessionTypeOK
<1>. QED
    BY <1>1, <1>2, <1>3, <1>4, <1>5, QuietStep

(* A detach returns its session. *)
LEMMA DetachInv ==
    ASSUME IInv, NEW s \in Sessions, Detach(s)
    PROVE  IInv'
<1>. USE DEF Detach, ioVars, acceptVars, callVars, worldVars, lifeVars
<1>1. /\ UNCHANGED <<queued, ring, kern, cq, sqeInFlight, acceptsLive>>
      /\ eventfd' \in BOOLEAN /\ owed' \in BOOLEAN
    BY DEF IInv, TypeOK, IoTypeOK
<1>2. SessionTypeOK' /\ Len(free') >= Len(free)
    <2>1. free' \in Seq(Sessions) /\ Len(free') = Len(free) + 1
        BY DEF IInv, TypeOK, SessionTypeOK, PushFree
    <2>2. sock' \in [Sessions -> Fds \cup {NoFd}]
        BY DEF IInv, TypeOK, SessionTypeOK, ResetAfterClose
    <2>. QED
        BY <2>1, <2>2 DEF IInv, TypeOK, SessionTypeOK
<1>3. StateTypeOK'
    BY DEF IInv, TypeOK, StateTypeOK, CompleteShutdownIfIdle
<1>4. WorldTypeOK'
    BY DEF IInv, TypeOK, WorldTypeOK, SessionTypeOK, CompleteShutdownIfIdle
<1>5. WakeupPending'
    BY DEF IInv, WakeupPending
<1>. QED
    BY <1>1, <1>2, <1>3, <1>4, <1>5, QuietStep DEF LocalTypeOK

-----------------------------------------------------------------------------
(* The kernel. *)

LEMMA KernelInv ==
    ASSUME IInv, NEW e \in kern,
           KernelAccept(e) \/ KernelTransfer(e) \/ KernelClose(e)
    PROVE  IInv'
<1>. USE DEF sessionVars, lifeVars, acceptVars, callVars, fdVars, worldVars
<1>1. CASE KernelAccept(e)
    <2>1. \E r \in Fds \cup Codes : Complete(e, r)
        BY <1>1 DEF KernelAccept, Codes
    <2>2. LocalTypeOK'
        <3>1. SessionTypeOK' /\ StateTypeOK'
            BY <1>1 DEF KernelAccept, IInv, TypeOK, SessionTypeOK, StateTypeOK
        <3>2. WorldTypeOK'
            BY <1>1, EnvironmentAssumption
            DEF KernelAccept, IInv, TypeOK, WorldTypeOK, EnvironmentAssumption
        <3>. QED
            BY <3>1, <3>2 DEF LocalTypeOK
    <2>. QED
        BY <1>1, <2>1, <2>2, KernelStep DEF KernelAccept
<1>2. CASE KernelTransfer(e)
    <2>1. Complete(e, "DONE") /\ "DONE" \in Fds \cup Codes
        BY <1>2 DEF KernelTransfer, Codes
    <2>2. LocalTypeOK'
        BY <1>2 DEF KernelTransfer, IInv, LocalTypeOK, TypeOK, SessionTypeOK,
                    StateTypeOK, WorldTypeOK
    <2>. QED
        BY <1>2, <2>1, <2>2, KernelStep DEF KernelTransfer
<1>3. CASE KernelClose(e)
    <2>1. Complete(e, "DONE") /\ "DONE" \in Fds \cup Codes
        BY <1>3 DEF KernelClose, Codes
    <2>2. LocalTypeOK'
        BY <1>3 DEF KernelClose, IInv, LocalTypeOK, TypeOK, SessionTypeOK,
                    StateTypeOK, WorldTypeOK
    <2>. QED
        BY <1>3, <2>1, <2>2, KernelStep DEF KernelClose
<1>. QED
    BY <1>1, <1>2, <1>3

-----------------------------------------------------------------------------
(* mcon_submit and the session operations. *)

(* enqueue_accept stops at the limit and at the number of free sessions. *)
LEMMA AcceptsToEnqueueOK ==
    ASSUME IInv
    PROVE  /\ AcceptsToEnqueue \in Nat
           /\ acceptsLive + AcceptsToEnqueue <= MaxLiveAccepts
           /\ acceptsLive + AcceptsToEnqueue <= Len(free)
<1>1. acceptsLive \in Nat /\ Len(free) \in Nat /\ MaxLiveAccepts \in Nat
    BY ConfigAssumption
    DEF ConfigAssumption, IInv, TypeOK, SessionTypeOK, StateTypeOK
<1>2. acceptsLive <= MaxLiveAccepts /\ acceptsLive <= Len(free)
    BY DEF IInv, AcceptsInv, AcceptsAreCovered
<1>3. RoomInQueue \in Int
    <2>1. IsFiniteSet(queued)
        <3>1. queued \subseteq Unexecuted
            BY DEF Unexecuted
        <3>. QED
            BY <3>1, FS_Subset DEF IInv, IoInv, StagesDisjoint
    <2>. QED
        BY <2>1, FS_CardinalityType, ConfigAssumption
        DEF RoomInQueue, ConfigAssumption
<1>. QED
    BY <1>1, <1>2, <1>3 DEF AcceptsToEnqueue, FreeForAccept, Smaller

LEMMA SubmitInv ==
    ASSUME IInv, Submit
    PROVE  IInv'
<1>. DEFINE n == AcceptsToEnqueue
<1>1. PICK T \in FreshTags("ACCEPT", NoSession, n) :
        \E P \in Poppable(queued \cup AcceptSqes(T)) : \E S \in SubmitOutcomes(P) :
            /\ PopAndSubmit(queued \cup AcceptSqes(T), P, S)
            /\ faults' = IF S = Offered(P) THEN faults ELSE faults + 1
    BY DEF Submit
<1>. DEFINE new == AcceptSqes(T)
<1>2. PICK P \in Poppable(queued \cup new) : \E S \in SubmitOutcomes(P) :
            /\ PopAndSubmit(queued \cup new, P, S)
            /\ faults' = IF S = Offered(P) THEN faults ELSE faults + 1
    BY <1>1
<1>3. PICK S \in SubmitOutcomes(P) :
            /\ PopAndSubmit(queued \cup new, P, S)
            /\ faults' = IF S = Offered(P) THEN faults ELSE faults + 1
    BY <1>2
<1>4. /\ new \subseteq Sqes /\ new \cap Outstanding = {}
      /\ \A e \in new : e.op = "ACCEPT"
      /\ IsFiniteSet(new) /\ Cardinality(new) = n
    BY AcceptSqesOK, ConfigAssumption
<1>. HIDE DEF new
<1>5. P \in SUBSET (queued \cup new) /\ S \in SUBSET Offered(P)
    BY DEF Poppable, SubmitOutcomes
<1>6. S \in SUBSET (ring \cup P)
    BY <1>5 DEF Offered
<1>7. /\ IoInv' /\ Outstanding' = Outstanding \cup new
      /\ sqeInFlight' = sqeInFlight + Cardinality(S)
    BY <1>3, <1>4, <1>5, <1>6, PopAndSubmitOK DEF IInv
<1>8. AcceptsInv'
    <2>1. /\ acceptsLive' = acceptsLive + Cardinality(new) /\ UNCHANGED free
        BY <1>4 DEF Submit, sessionVars
    <2>2. acceptsLive' <= MaxLiveAccepts /\ acceptsLive' <= Len(free)
        BY <1>4, <2>1, AcceptsToEnqueueOK
    <2>. QED
        BY <1>4, <1>7, <2>1, <2>2, AcceptsAdded DEF IInv
<1>9. LocalTypeOK'
    <2>1. SessionTypeOK'
        BY DEF Submit, sessionVars, IInv, TypeOK, SessionTypeOK
    <2>2. StateTypeOK'
        <3>1. acceptsLive' \in Nat
            BY AcceptsToEnqueueOK DEF Submit, IInv, TypeOK, StateTypeOK
        <3>2. acceptsRequested' \in BOOLEAN
            BY Zenon DEF Submit
        <3>. QED
            BY <3>1, <3>2
            DEF Submit, lifeVars, callVars, IInv, TypeOK, StateTypeOK
    <2>3. faults' \in 0 .. MaxFaults
        <3>1. S # Offered(P) => faults < MaxFaults
            BY DEF SubmitOutcomes, MayFail
        <3>. QED
            BY <1>3, <3>1, EnvironmentAssumption
            DEF EnvironmentAssumption, IInv, TypeOK, WorldTypeOK
    <2>4. WorldTypeOK'
        BY <2>3 DEF Submit, lifeVars, fdVars, IInv, TypeOK, WorldTypeOK
    <2>. QED
        BY <2>1, <2>2, <2>4 DEF LocalTypeOK
<1>10. QuotaInv'
    <2>1. SUFFICES ASSUME "submit" \notin FaultKinds
                   PROVE  ring' = {} /\ sqeInFlight' <= QueueSize
        BY <1>3 DEF PopAndSubmit, QuotaInv
    <2>2. ring = {} /\ sqeInFlight <= QueueSize
        BY <2>1 DEF IInv, QuotaInv
    <2>3. S = P
        BY <2>1, <2>2 DEF SubmitOutcomes, MayFail, Offered
    <2>4. ring' = {}
        BY <1>3, <2>2, <2>3 DEF PopAndSubmit
    <2>5. /\ IsFiniteSet(queued \cup new) /\ IsFiniteSet(ring)
        <3>1. queued \subseteq Unexecuted /\ ring \subseteq Unexecuted
            BY DEF Unexecuted
        <3>2. IsFiniteSet(queued) /\ IsFiniteSet(ring)
            BY <3>1, FS_Subset DEF IInv, IoInv, StagesDisjoint
        <3>. QED
            BY <1>4, <3>2, FS_Union
    <2>6. Cardinality(P) <= QueueSize - sqeInFlight
        <3>1. Cardinality(P) = PopCount(queued \cup new)
            BY DEF Poppable
        <3>2. /\ Cardinality(queued \cup new) \in Nat /\ Cardinality(ring) \in Nat
              /\ SqEntries \in Nat /\ QueueSize \in Nat /\ sqeInFlight \in Nat
            BY <2>5, FS_CardinalityType, ConfigAssumption
            DEF ConfigAssumption, IInv, IoInv, IoTypeOK
        <3>. QED
            BY <2>2, <3>1, <3>2 DEF PopCount, QuotaLeft, Smaller
    <2>7. QueueSize \in Nat /\ sqeInFlight \in Nat /\ Cardinality(P) \in Nat
        <3>1. IsFiniteSet(P)
            BY <1>5, <2>5, FS_Subset
        <3>. QED
            BY <3>1, FS_CardinalityType, ConfigAssumption
            DEF ConfigAssumption, IInv, IoInv, IoTypeOK
    <2>. QED
        BY <1>7, <2>3, <2>4, <2>6, <2>7
<1>11. WakeupPending'
    BY <1>3 DEF Submit, callVars, PopAndSubmit, IInv, WakeupPending
<1>. QED
    BY <1>7, <1>8, <1>9, <1>10, <1>11 DEF IInv, IoInv, TypeOK, LocalTypeOK

LEMMA SessionOpInv ==
    ASSUME IInv, NEW op \in SessionOps, NEW s \in Sessions, SessionOp(op, s)
    PROVE  IInv'
<1>1. PICK T \in FreshTags(op, s, 1) : \E t \in T : Push(Sqe(op, s, sock[s], t))
    BY DEF SessionOp
<1>2. PICK t \in T : Push(Sqe(op, s, sock[s], t))
    BY <1>1
<1>. DEFINE e == Sqe(op, s, sock[s], t)
<1>3. t \in Tags /\ e \notin Outstanding
    BY FreshTagsOK
<1>4. e \in Sqes /\ e.op # "ACCEPT" /\ e.session \in Sessions
    BY <1>3 DEF Sqe, Sqes, Ops, SessionOps, IInv, TypeOK, SessionTypeOK
<1>5. Push(e)
    BY <1>2
<1>. HIDE DEF e
<1>. USE DEF SessionOp, lifeVars, acceptVars, callVars, fdVars, worldVars
<1>6. IoInv' /\ Outstanding' = Outstanding \cup {e}
    BY <1>3, <1>4, <1>5, PushOK DEF IInv
<1>7. AcceptsInv'
    BY <1>4, <1>6, OperationAdded DEF IInv
<1>8. LocalTypeOK'
    <2>1. flags' \in [Sessions -> SUBSET Flags]
        <3>1. FlagOf[op] \in Flags
            BY DEF FlagOf, Flags, SessionOps
        <3>. QED
            BY <3>1 DEF IInv, TypeOK, SessionTypeOK
    <2>. QED
        BY <2>1 DEF IInv, TypeOK, LocalTypeOK, SessionTypeOK, StateTypeOK, WorldTypeOK
<1>9. QuotaInv' /\ WakeupPending'
    BY DEF IInv, QuotaInv, WakeupPending
<1>. QED
    BY <1>6, <1>7, <1>8, <1>9 DEF IInv, IoInv, TypeOK, LocalTypeOK

-----------------------------------------------------------------------------
(* The completion loop. *)

(* With the head of the completion ring comes what the handlers rely on.   *)
LEMMA HeadOK ==
    ASSUME IInv, cq # <<>>
    PROVE  /\ Cqe \in Cqes
           /\ Cqe.sqe \in Outstanding
           /\ Cqe.sqe.op # "ACCEPT" => Cqe.sqe.session \in Sessions
<1>1. Cqe \in Cqes /\ Len(cq) > 0 /\ Cqe = cq[1]
    BY DEF IInv, IoInv, IoTypeOK, Cqe
<1>2. Cqe.sqe \in Outstanding
    BY <1>1 DEF Outstanding, CompletedSqes, IInv, IoInv, IoTypeOK
<1>. QED
    BY <1>1, <1>2 DEF IInv, AcceptsInv

(* An accept found no connection, or failed. *)
LEMMA AcceptEndsInv ==
    ASSUME IInv, ProcessAcceptAgain \/ ProcessAcceptError
    PROVE  IInv'
<1>. USE DEF ProcessAcceptAgain, ProcessAcceptError, Peek, Iterate, Consume,
         ContinueAcceptCycle, sessionVars, lifeVars, fdVars, worldVars
<1>1. /\ Cqe.sqe.op = "ACCEPT" /\ pc = "loop" /\ cq # <<>> /\ cq' = Tail(cq)
      /\ sqeInFlight' \in {sqeInFlight - 1, sqeInFlight}
      /\ UNCHANGED <<queued, ring, kern, eventfd, owed, free>>
      /\ acceptsLive' = acceptsLive - 1
    OBVIOUS
<1>2. Len(free) \in Nat
    BY DEF IInv, TypeOK, SessionTypeOK
<1>3. acceptsLive' \in Nat /\ (LocalTypeOK' => IInv')
    BY <1>1, <1>2, AcceptStep
<1>4. LocalTypeOK'
    <2>1. SessionTypeOK' /\ WorldTypeOK'
        BY DEF IInv, TypeOK, SessionTypeOK, WorldTypeOK
    <2>2. budget' \in Nat
        BY DEF IInv, TypeOK, StateTypeOK
    <2>3. acceptsRequested' \in BOOLEAN /\ isShuttingDown' \in BOOLEAN
          /\ iterated' \in BOOLEAN
        BY DEF IInv, TypeOK, StateTypeOK
    <2>4. epollFd' \in Epolls \cup {NoEpoll} /\ pc' \in {"app", "loop", "read", "recheck"}
        BY DEF IInv, TypeOK, StateTypeOK
    <2>. QED
        BY <1>3, <2>1, <2>2, <2>3, <2>4 DEF LocalTypeOK, StateTypeOK
<1>. QED
    BY <1>3, <1>4

(* An accept found a connection: it gets a session, or is turned away. *)
LEMMA AcceptConnectionInv ==
    ASSUME IInv, ProcessAcceptConnection
    PROVE  IInv'
<1>. USE DEF ProcessAcceptConnection, Peek, ContinueAcceptCycle, lifeVars
<1>1. PICK epollFails \in {~Started, ~Started \/ MayFail("epoll_add")} :
         IF free = <<>>
           THEN /\ ConsumeAndBreak
                /\ UNCHANGED <<sessionVars, open, watched, faults>>
         ELSE IF epollFails
           THEN /\ ConsumeAndBreak
                /\ CloseSocket(Cqe.res)
                /\ faults' = IF Started THEN faults + 1 ELSE faults
                /\ UNCHANGED <<sessionVars, watched>>
           ELSE /\ Consume
                /\ Iterate(1)
                /\ free' = Tail(free)
                /\ sock' = [sock EXCEPT ![Head(free)] = Cqe.res]
                /\ flags' = [flags EXCEPT ![Head(free)] = {}]
                /\ watched' = watched \cup {Cqe.res}
                /\ UNCHANGED <<open, faults>>
    OBVIOUS
<1>2. /\ Cqe.sqe.op = "ACCEPT" /\ pc = "loop" /\ cq # <<>> /\ Cqe.res \in Fds
      /\ acceptsLive' = acceptsLive - 1 /\ budget > 0
      /\ epollFd' = epollFd /\ isShuttingDown' = isShuttingDown
      /\ eventfdIn' = eventfdIn /\ appFds' = appFds
      /\ serverEdge' = serverEdge /\ backlog' = backlog
      /\ acceptsRequested' = TRUE
    BY DEF Cqe
<1>3. /\ free \in Seq(Sessions) /\ Len(free) \in Nat
      /\ flags \in [Sessions -> SUBSET Flags] /\ sock \in [Sessions -> Fds \cup {NoFd}]
    BY DEF IInv, TypeOK, SessionTypeOK
<1>4. CASE free = <<>> \/ epollFails
    <2>1. ConsumeAndBreak /\ UNCHANGED sessionVars /\ UNCHANGED watched
        BY <1>1, <1>4
    <2>2. open' \subseteq Fds /\ faults' \in 0 .. MaxFaults
        <3>1. open' \in {open, open \ {Cqe.res}}
            BY <1>1, <1>4 DEF CloseSocket
        <3>2. faults' = faults \/ (faults' = faults + 1 /\ faults < MaxFaults)
            BY <1>1, <1>4 DEF MayFail
        <3>3. MaxFaults \in Nat
            BY EnvironmentAssumption DEF EnvironmentAssumption
        <3>. QED
            BY <3>1, <3>2, <3>3 DEF IInv, TypeOK, WorldTypeOK
    <2>3. acceptsLive' \in Nat /\ (LocalTypeOK' => IInv')
        BY <1>2, <1>3, <2>1, AcceptStep
        DEF ConsumeAndBreak, ConsumeUncounted, sessionVars
    <2>4. SessionTypeOK' /\ WorldTypeOK'
        BY <1>2, <2>1, <2>2
        DEF sessionVars, IInv, TypeOK, SessionTypeOK, WorldTypeOK
    <2>5. StateTypeOK'
        <3>1. budget' \in Nat /\ iterated' \in BOOLEAN
              /\ pc' \in {"app", "loop", "read", "recheck"}
            BY <2>1 DEF ConsumeAndBreak, Leave
        <3>. QED
            BY <1>2, <2>3, <3>1 DEF IInv, TypeOK, StateTypeOK
    <2>. QED
        BY <2>3, <2>4, <2>5 DEF LocalTypeOK
<1>5. CASE free # <<>> /\ ~epollFails
    <2>1. /\ Consume /\ Iterate(1) /\ free' = Tail(free)
          /\ sock' = [sock EXCEPT ![Head(free)] = Cqe.res]
          /\ flags' = [flags EXCEPT ![Head(free)] = {}]
          /\ watched' = watched \cup {Cqe.res}
          /\ UNCHANGED <<open, faults>>
        BY <1>1, <1>5
    <2>2. Len(free') = Len(free) - 1 /\ Len(free') \in Nat /\ free' \in Seq(Sessions)
        BY <1>3, <1>5, <2>1
    <2>3. acceptsLive' \in Nat /\ (LocalTypeOK' => IInv')
        BY <1>2, <1>3, <2>1, <2>2, AcceptStep DEF Consume
    <2>4. SessionTypeOK' /\ WorldTypeOK'
        BY <1>2, <1>3, <2>1, <2>2
        DEF IInv, TypeOK, SessionTypeOK, WorldTypeOK
    <2>5. StateTypeOK'
        <3>1. budget' \in Nat
            BY <1>2, <2>1 DEF Iterate, IInv, TypeOK, StateTypeOK
        <3>2. iterated' \in BOOLEAN /\ pc' \in {"app", "loop", "read", "recheck"}
            BY <2>1 DEF Iterate, IInv, TypeOK, StateTypeOK
        <3>. QED
            BY <1>2, <2>3, <3>1, <3>2 DEF IInv, TypeOK, StateTypeOK
    <2>. QED
        BY <2>3, <2>4, <2>5 DEF LocalTypeOK
<1>. QED
    BY <1>4, <1>5

(* A read, a write or a drain ends. *)
LEMMA ProcessOpInv ==
    ASSUME IInv, ProcessOp
    PROVE  IInv'
<1>. USE DEF ProcessOp, Peek, Iterate, Consume, lifeVars, acceptVars, fdVars, worldVars
<1>1. cq # <<>> /\ Cqe.sqe.op # "ACCEPT" /\ Len(free) \in Nat /\ acceptsLive \in Nat
    BY DEF IInv, TypeOK, SessionTypeOK, StateTypeOK
<1>2. Cqe.sqe \in Outstanding
    BY <1>1, HeadOK
<1>3. Outstanding' = Outstanding \ {Cqe.sqe}
    BY ConsumeOK DEF IInv, Cqe
<1>4. AcceptsInv'
    BY <1>1, <1>2, <1>3, OperationRemoved DEF IInv
<1>5. LocalTypeOK'
    <2>1. flags' \in [Sessions -> SUBSET Flags]
        BY DEF IInv, TypeOK, SessionTypeOK
    <2>2. SessionTypeOK' /\ WorldTypeOK'
        BY <2>1 DEF IInv, TypeOK, SessionTypeOK, WorldTypeOK
    <2>3. StateTypeOK'
        BY DEF IInv, TypeOK, StateTypeOK
    <2>. QED
        BY <2>2, <2>3 DEF LocalTypeOK
<1>. QED
    BY <1>4, <1>5, HandlerStep

(* A close ends: its session goes back to the stack. *)
LEMMA ProcessCloseInv ==
    ASSUME IInv, ProcessClose
    PROVE  IInv'
<1>. USE DEF ProcessClose, Peek, acceptVars, fdVars, worldVars
<1>1. cq # <<>> /\ Cqe.sqe.op # "ACCEPT" /\ Len(free) \in Nat /\ acceptsLive \in Nat
    BY DEF IInv, TypeOK, SessionTypeOK, StateTypeOK
<1>2. Cqe.sqe \in Outstanding /\ Cqe.sqe.session \in Sessions
    BY <1>1, HeadOK
<1>3. CASE StackFull
    <2>1. UNCHANGED <<ioVars, sessionVars, lifeVars>> /\ Leave
        BY <1>3
    <2>2. SessionTypeOK' /\ WorldTypeOK'
        BY <2>1 DEF sessionVars, lifeVars, IInv, TypeOK, SessionTypeOK, WorldTypeOK
    <2>3. StateTypeOK'
        BY <2>1 DEF lifeVars, Leave, IInv, TypeOK, StateTypeOK
    <2>4. WakeupPending'
        BY <2>1 DEF ioVars, IInv, WakeupPending
    <2>5. eventfd' \in BOOLEAN /\ owed' \in BOOLEAN
        BY <2>1 DEF ioVars, IInv, TypeOK, IoTypeOK
    <2>. QED
        BY <1>1, <2>1, <2>2, <2>3, <2>4, <2>5, QuietStep
        DEF ioVars, sessionVars, LocalTypeOK
<1>4. CASE ~StackFull
    <2>1. /\ free' = PushFree(Cqe.sqe.session)
          /\ ResetAfterClose(Cqe.sqe.session)
          /\ flags' = [flags EXCEPT ![Cqe.sqe.session] = @ \ {"CLOSING"}]
          /\ CompleteShutdownIfIdle(free')
          /\ Consume /\ Iterate(1)
        BY <1>4
    <2>2. free' \in Seq(Sessions) /\ Len(free') = Len(free) + 1
        BY <1>2, <2>1 DEF PushFree, IInv, TypeOK, SessionTypeOK
    <2>3. AcceptsInv'
        <3>1. Outstanding' = Outstanding \ {Cqe.sqe}
            BY <1>1, <2>1, ConsumeOK DEF IInv, Consume, Cqe
        <3>. QED
            BY <1>1, <1>2, <2>2, <3>1, OperationRemoved DEF IInv
    <2>4. SessionTypeOK'
        <3>1. sock' \in [Sessions -> Fds \cup {NoFd}]
            BY <2>1 DEF ResetAfterClose, IInv, TypeOK, SessionTypeOK
        <3>2. flags' \in [Sessions -> SUBSET Flags]
            BY <2>1 DEF IInv, TypeOK, SessionTypeOK
        <3>. QED
            BY <2>2, <3>1, <3>2 DEF SessionTypeOK
    <2>5. StateTypeOK'
        <3>1. epollFd' \in Epolls \cup {NoEpoll} /\ isShuttingDown' \in BOOLEAN
            BY <2>1 DEF CompleteShutdownIfIdle, IInv, TypeOK, StateTypeOK
        <3>2. budget' \in Nat /\ iterated' \in BOOLEAN
              /\ pc' \in {"app", "loop", "read", "recheck"}
            BY <2>1 DEF Iterate, IInv, TypeOK, StateTypeOK
        <3>. QED
            BY <3>1, <3>2 DEF IInv, TypeOK, StateTypeOK
    <2>6. WorldTypeOK'
        BY <2>1 DEF CompleteShutdownIfIdle, IInv, TypeOK, WorldTypeOK
    <2>. QED
        BY <1>1, <2>1, <2>3, <2>4, <2>5, <2>6, HandlerStep DEF Consume, LocalTypeOK
<1>. QED
    BY <1>3, <1>4

-----------------------------------------------------------------------------
(* The theorems. *)

(* mcon_create leaves an instance that satisfies the inductive invariant.  *)
LEMMA InitInv ==
    Init => IInv
<1>1. SUFFICES ASSUME Init PROVE IInv
    OBVIOUS
<1>2. IoInv /\ Outstanding = {}
    BY <1>1, IoInitOK DEF Init
<1>3. SessionCount \in Nat /\ MaxLiveAccepts \in Nat /\ QueueSize \in Nat
    BY ConfigAssumption DEF ConfigAssumption, NoSession
<1>4. free \in Seq(Sessions) /\ Len(free) \in Nat
    <2>1. [i \in 1 .. SessionCount |-> i - 1] \in [1 .. SessionCount -> Sessions]
        BY <1>3 DEF Sessions
    <2>2. free \in Seq(Sessions)
        BY <1>1, <1>3, <2>1 DEF Init
    <2>. QED
        BY <2>2
<1>5. SessionTypeOK
    BY <1>1, <1>4 DEF Init, SessionTypeOK
<1>6. StateTypeOK
    <2>1. isShuttingDown \in BOOLEAN /\ acceptsRequested \in BOOLEAN
          /\ iterated \in BOOLEAN
        BY <1>1 DEF Init
    <2>. QED
        BY <1>1, <2>1 DEF Init, StateTypeOK
<1>7. WorldTypeOK
    <2>1. backlog \in 0 .. MaxBacklog /\ faults \in 0 .. MaxFaults
        BY <1>1, EnvironmentAssumption DEF Init, EnvironmentAssumption
    <2>2. serverEdge \in BOOLEAN
        BY <1>1 DEF Init
    <2>. QED
        BY <1>1, <2>1, <2>2 DEF Init, WorldTypeOK
<1>8. AcceptsInv
    <2>1. OutstandingAccepts = {} /\ acceptsLive = 0
        BY <1>1, <1>2 DEF Init, OutstandingAccepts
    <2>2. IsFiniteSet({}) /\ Cardinality({}) = 0
        BY FS_EmptySet
    <2>3. AcceptsAreCovered
        BY <1>3, <1>4, <2>1, <2>2 DEF AcceptsAreCovered
    <2>. QED
        BY <1>2, <2>2, <2>3 DEF AcceptsInv
<1>9. QuotaInv /\ WakeupPending
    BY <1>1, <1>3 DEF Init, IoInit, QuotaInv, WakeupPending
<1>. QED
    BY <1>2, <1>5, <1>6, <1>7, <1>8, <1>9 DEF IInv, IoInv, TypeOK

(* Every step keeps it, one case per kind of step. *)
LEMMA NextInv ==
    IInv /\ [Next]_vars => IInv'
<1>. SUFFICES ASSUME IInv, [Next]_vars PROVE IInv'
    OBVIOUS
<1>1. CASE QuietAction
    BY <1>1, QuietInv
<1>2. CASE \E s \in Sessions : Detach(s)
    BY <1>2, DetachInv
<1>3. CASE \E e \in kern : KernelAccept(e) \/ KernelTransfer(e) \/ KernelClose(e)
    BY <1>3, KernelInv
<1>4. CASE Submit
    BY <1>4, SubmitInv
<1>5. CASE \E op \in SessionOps, s \in Sessions : SessionOp(op, s)
    BY <1>5, SessionOpInv
<1>6. CASE ProcessAcceptAgain \/ ProcessAcceptError
    BY <1>6, AcceptEndsInv
<1>7. CASE ProcessAcceptConnection
    BY <1>7, AcceptConnectionInv
<1>8. CASE ProcessOp
    BY <1>8, ProcessOpInv
<1>9. CASE ProcessClose
    BY <1>9, ProcessCloseInv
<1>10. CASE UNCHANGED vars
    <2>1. UNCHANGED <<ioVars, sessionVars, lifeVars, acceptVars, callVars, fdVars,
                      worldVars>>
        BY <1>10 DEF vars
    <2>2. LocalTypeOK'
        BY <2>1 DEF sessionVars, lifeVars, acceptVars, callVars, fdVars, worldVars,
           IInv, LocalTypeOK, TypeOK, SessionTypeOK, StateTypeOK, WorldTypeOK
    <2>3. eventfd' \in BOOLEAN /\ owed' \in BOOLEAN /\ WakeupPending'
        BY <2>1 DEF ioVars, callVars, IInv, TypeOK, IoTypeOK, WakeupPending
    <2>4. Len(free') >= Len(free)
        BY <2>1 DEF sessionVars, IInv, TypeOK, SessionTypeOK
    <2>. QED
        BY <2>1, <2>2, <2>3, <2>4, QuietStep DEF ioVars, acceptVars
<1>. QED
    BY <1>1, <1>2, <1>3, <1>4, <1>5, <1>6, <1>7, <1>8, <1>9, <1>10
    DEF Next, LibraryCall, CompletionLoop, Kernel, QuietAction

(* The inductive invariant holds throughout every behaviour. *)
THEOREM Invariance ==
    Spec => []IInv
<1>1. Init => IInv
    BY InitInv
<1>2. IInv /\ [Next]_vars => IInv'
    BY NextInv
<1>. QED
    BY <1>1, <1>2, PTL DEF Spec

(* The counters of mcon_state never go below zero, the quota cannot wrap   *)
(* around, every CQE names a session, and the stack holds only sessions.   *)
THEOREM TypeCorrect ==
    Spec => []TypeOK
<1>1. IInv => TypeOK
    BY DEF IInv
<1>. QED
    BY <1>1, Invariance, PTL

(* enqueue_accept and _process_accept agree: accepts_live is exact, stays  *)
(* within max_live_accept_sqes, and a free session waits for each accept.  *)
THEOREM AcceptsCovered ==
    Spec => []AcceptsAreCovered
<1>1. IInv => AcceptsAreCovered
    BY DEF IInv, AcceptsInv
<1>. QED
    BY <1>1, Invariance, PTL

(* mcon_submit counts at least what the kernel has and has posted, also    *)
(* when io_uring_submit fails after taking a part of the ring.             *)
THEOREM CountedInFlight ==
    Spec => []InFlightCounted
<1>1. IInv => InFlightCounted
    BY DEF IInv, IoInv
<1>. QED
    BY <1>1, Invariance, PTL

(* When io_uring_submit does not fail, io_uring_queue_size bounds what is  *)
(* in flight.                                                              *)
THEOREM QuotaKept ==
    ASSUME "submit" \notin FaultKinds
    PROVE  Spec => []InFlightBounded
<1>1. IInv => InFlightBounded
    BY DEF IInv, IoInv, QuotaInv, InFlightBounded
<1>. QED
    BY <1>1, Invariance, PTL

(* types.h:23-25 is kept as long as io_uring_submit does not fail, and then *)
(* the kernel always finds room in the completion ring.                    *)
THEOREM MaximumKept ==
    ASSUME "submit" \notin FaultKinds
    PROVE  Spec => []InFlightMaximum /\ [](kern # {} => Len(cq) < CqEntries)
<1>1. IInv => InFlightMaximum /\ (kern # {} => Len(cq) < CqEntries)
    <2>. SUFFICES ASSUME IInv
                  PROVE  InFlightMaximum /\ (kern # {} => Len(cq) < CqEntries)
        OBVIOUS
    <2>1. Cardinality(kern) + Len(cq) <= sqeInFlight /\ sqeInFlight <= QueueSize
        BY DEF IInv, IoInv, QuotaInv, InFlightCounted
    <2>2. IsFiniteSet(kern)
        <3>1. kern \subseteq Unexecuted
            BY DEF Unexecuted
        <3>. QED
            BY <3>1, FS_Subset DEF IInv, IoInv, StagesDisjoint
    <2>3. /\ Cardinality(kern) \in Nat /\ Len(cq) \in Nat /\ sqeInFlight \in Nat
          /\ QueueSize \in Nat /\ SqEntries \in Nat \ {0} /\ QueueSize <= SqEntries
        BY <2>2, FS_CardinalityType, ConfigAssumption DEF IInv, IoInv, IoTypeOK
    <2>. QED
        BY <2>1, <2>3 DEF InFlightMaximum, CqEntries
<1>. QED
    BY <1>1, Invariance, PTL

(* mcon_process_io_uring_event never leaves a CQE behind an eventfd that   *)
(* is not readable and will not become so.                                 *)
THEOREM NoLostWakeup ==
    Spec => []WakeupPending
<1>1. IInv => WakeupPending
    BY DEF IInv
<1>. QED
    BY <1>1, Invariance, PTL
=============================================================================
