--------------------------- MODULE MconProperties ---------------------------
(***************************************************************************)
(* What an mcon instance promises: safety, action and liveness properties  *)
(* of Mcon, and the fairness the liveness properties rest on.              *)
(***************************************************************************)
EXTENDS Mcon

(* The SQEs of session s that stand behind one of its state flags. *)
Behind(s, flag) ==
    {e \in Outstanding :
        e.op \in SessionOps /\ e.session = s /\ FlagOf[e.op] = flag}

OutstandingAccepts == {e \in Outstanding : e.op = "ACCEPT"}

(* The kernel has closed the socket of s; its CQE is still to be processed. *)
CloseExecuted(s) ==
    \E e \in CompletedSqes : e.op = "CLOSE" /\ e.session = s

(* Everyone who answers for closing a descriptor. *)
Owners(fd) ==
    {<<"session", s>> : s \in {t \in Sessions : sock[t] = fd /\ ~CloseExecuted(t)}}
    \cup {<<"cqe", i>> : i \in {j \in DOMAIN cq : cq[j].res = fd}}
    \cup {<<"application", 0>> : a \in {b \in {TRUE} : fd \in appFds}}

-----------------------------------------------------------------------------
(* Safety *)

(* The flags VALIDATE_ARGS relies on tell the truth about the whole        *)
(* pipeline: behind each raised flag there is exactly one SQE somewhere    *)
(* between io_queue and completion ring, behind a lowered one none; a      *)
(* closing session has nothing else outstanding, a free one nothing.       *)
FlagsMatchPipeline ==
    \A s \in Sessions :
        /\ \A flag \in Flags :
             Cardinality(Behind(s, flag)) = IF flag \in flags[s] THEN 1 ELSE 0
        /\ "CLOSING" \in flags[s] => flags[s] = {"CLOSING"}
        /\ ~IsActive(s) => flags[s] = {}

(* An operation that waits in the queue, the ring or the kernel still      *)
(* names the open socket of its session, and no other session's or the     *)
(* application's: it never acts on a descriptor number that was closed and *)
(* given to another connection in the meantime.                            *)
OperationsKeepTheirSocket ==
    \A e \in Unexecuted : e.op \in SessionOps =>
        /\ e.fd = sock[e.session]
        /\ e.fd \in open
        /\ Owners(e.fd) = {<<"session", e.session>>}

(* Every open client descriptor has exactly one owner, and nobody owns a   *)
(* closed one: accepting, failing to register, closing and detaching leak  *)
(* no connection and close none twice.                                     *)
DescriptorsHaveOneOwner ==
    \A fd \in Fds : Cardinality(Owners(fd)) = IF fd \in open THEN 1 ELSE 0

(* The free stack holds exactly the sessions without a socket, each once,  *)
(* so a new connection never lands on a session in use.                    *)
FreeStackExact ==
    /\ {free[i] : i \in DOMAIN free} = Sessions \ ActiveSessions
    /\ \A i, j \in DOMAIN free : free[i] = free[j] => i = j

(* accepts_live counts the accepts anywhere in the pipeline, and each has  *)
(* a free session waiting for it: the pop in _process_accept cannot fail.  *)
AcceptsAreCovered ==
    /\ acceptsLive = Cardinality(OutstandingAccepts)
    /\ acceptsLive <= MaxLiveAccepts
    /\ acceptsLive <= Len(free)

(* The count stays within the configured maximum: the completion ring      *)
(* cannot overflow, and a slot _process_accept reads after having marked   *)
(* it seen is not reused under its eyes.                                   *)
InFlightBounded == InFlightCounted /\ sqeInFlight <= QueueSize

(* No lost wake-up: as long as a CQE waits, the eventfd is readable, about *)
(* to be signalled, or about to be rechecked by the handler.               *)
WakeupPending == cq # <<>> => eventfd \/ owed \/ pc = "recheck"

(* A connection waiting on a listening instance is never forgotten: there  *)
(* is an edge to process, a request for accepts, an accept that will       *)
(* still run, or the result of one that keeps the cycle going.             *)
AcceptDemandNotLost ==
    (Listening /\ backlog > 0) =>
        \/ serverEdge
        \/ acceptsRequested
        \/ \E e \in Unexecuted : e.op = "ACCEPT"
        \/ \E i \in DOMAIN cq : cq[i].sqe.op = "ACCEPT" /\ cq[i].res # "EAGAIN"

(* A shutdown completes no sooner than the last connection is closed, and  *)
(* an accept that ends after it gets no session.  Its descriptor may still *)
(* wait in the completion ring, until it is processed and closed.          *)
StoppedIsIdle == ~Started => ActiveSessions = {}

-----------------------------------------------------------------------------
(* Action properties *)

(* The socket of a session is released only by the completion of a close   *)
(* or a detach, and is never replaced by another in one step.              *)
SocketReleasedOnce ==
    [][\A s \in Sessions : IsActive(s) /\ sock'[s] # sock[s] =>
          /\ sock'[s] = NoFd
          /\ sock[s] \notin open \/ sock[s] \in appFds' \/ CloseExecuted(s)]_vars

-----------------------------------------------------------------------------
(* Liveness *)

(* Each round of the application's loop processes every event epoll_wait   *)
(* returned and then calls mcon_submit, whatever else it does in between:  *)
(* strong fairness, for these calls are not enabled while another one      *)
(* runs.  The kernel ends accepts, which do not wait, and closes, and      *)
(* signals the eventfd.  Transfers may wait for ever.                      *)
Fairness ==
    /\ SF_vars(Submit)
    /\ SF_vars(ProcessServerSocketEvent)
    /\ SF_vars(\E capacity \in Capacities \ {0} : ProcessIo(capacity))
    /\ WF_vars(CompletionLoop)
    /\ WF_vars(KernelSignal)
    /\ WF_vars(\E e \in kern : KernelAccept(e))
    /\ \A s \in Sessions : WF_vars(\E e \in kern : e.session = s /\ KernelClose(e))

FairSpec == Spec /\ Fairness

(* Transfers the kernel works on occupy the whole quota: mcon_submit finds *)
(* nothing left of it, even for the class that comes first.                *)
Transfers == {"READ", "WRITE", "DRAIN"}
TransfersHoldQuota == Cardinality({e \in kern : e.op \in Transfers}) >= QueueSize

(* A close that never completes is one that transfers keep out of the ring *)
(* for ever, each of them waiting for its peer.  As long as the quota is   *)
(* not used up that way, a close completes, whatever other sessions do: it *)
(* passes in the queue what was pushed before it.                          *)
ClosesComplete ==
    \A s \in Sessions :
        <>[]("CLOSING" \in flags[s]) => <>[]TransfersHoldQuota

(* Once every remaining connection is closing, a shutdown completes,       *)
(* unless one more connection is accepted first.                           *)
ShutdownCompletes ==
    (isShuttingDown /\ ActiveSessions # {}
        /\ \A s \in ActiveSessions : "CLOSING" \in flags[s])
    ~> (~isShuttingDown \/ \E s \in ActiveSessions : "CLOSING" \notin flags[s])

(* The operations of sessions leave room for an accept, which comes last   *)
(* in the io_queue: a unit of the quota, and a slot in the queue.          *)
RoomForAccept ==
    Cardinality({e \in Outstanding : e.op \in SessionOps})
        < Smaller(QueueSize, IoQueueSize)

(* While connections keep waiting on a listening instance that has a free  *)
(* session and a free descriptor, and the sessions leave room for accepts, *)
(* it keeps accepting them.                                                *)
AcceptsContinue ==
    <>[](Listening /\ backlog > 0 /\ free # <<>> /\ open # Fds /\ RoomForAccept)
        => []<><<backlog' = backlog - 1>>_vars

-----------------------------------------------------------------------------
(* Claims of the sources that the program does not keep; each is the       *)
(* subject of a run that shows how.                                        *)

(* mcon.h:25-26: after mcon_shutdown connections are processed "without    *)
(* establishing new ones".                                                 *)
NoConnectionWhileShuttingDown ==
    [][\A s \in Sessions : isShuttingDown /\ ~IsActive(s) => sock'[s] = NoFd]_vars

(* mcon.h:26-27: "The shutdown is complete when all connections managed by *)
(* this instance are closed."                                              *)
ShutdownEndsWithLastConnection == isShuttingDown => ActiveSessions # {}

(* io_uring_actions.c:8: "idx_stack_size returns the amount of free        *)
(* sessions".                                                              *)
StackCountsFreeSessions == Len(free) = Cardinality(Sessions \ ActiveSessions)

(* types.h:23-25: io_uring_queue_size is "The maximum amount of in-flight  *)
(* IO operations allowed".                                                 *)
InFlightMaximum == Cardinality(kern) + Len(cq) <= QueueSize
=============================================================================
