-------------------------------- MODULE Mcon --------------------------------
(***************************************************************************)
(* One mcon instance in the application loop that drives it: connections   *)
(* are accepted, sessions read, write, drain, close and detach, the        *)
(* instance is started, shut down and started again.  Three actors step:   *)
(* the application's only thread, inside a library call (pc # "app") or    *)
(* between two calls, the kernel, and the clients that connect.  The       *)
(* kernel also runs between any two iterations of the completion loop.     *)
(*                                                                         *)
(* Left to other modules: the generation of a session and the epoll events *)
(* of client sockets.  A call that fails and changes nothing is no step.   *)
(***************************************************************************)
EXTENDS IoRing

CONSTANTS
    Epolls,       \* the application's epoll instances
    NoEpoll,      \* -1
    Capacities,   \* values of event_capacity the application passes
    AppCalls,     \* the calls the application makes, from AllCalls
    MaxBacklog,   \* bound: connections waiting on the listening socket
    FaultKinds,   \* the system calls that may fail, from AllFaults
    MaxFaults     \* bound: how many of them fail in one behaviour

SessionOps == {"READ", "WRITE", "DRAIN", "CLOSE"}
AllCalls == SessionOps \cup {"DETACH", "SHUTDOWN", "DEREGISTER", "RENEW"}
AllFaults == {"submit", "epoll_add"}

ASSUME EnvironmentAssumption ==
    /\ NoEpoll \notin Epolls
    /\ Capacities \subseteq Nat
    /\ AppCalls \subseteq AllCalls
    /\ MaxBacklog \in Nat
    /\ FaultKinds \subseteq AllFaults
    /\ MaxFaults \in Nat

Flags == {"READING", "WRITING", "CLOSING"}

VARIABLES
    sock,              \* socket_fd of each session
    flags,             \* state of each session
    free,              \* session_free_stack, the top first
    epollFd,           \* epoll_fd; server_socket_fd is set along with it
    isShuttingDown,    \* mcon_state.is_shutting_down
    acceptsLive,       \* mcon_state.accepts_live
    acceptsRequested,  \* mcon_state.accepts_requested
    pc,                \* where in the library the thread is, "app" outside
    budget,            \* max_events - event_count of the completion loop
    iterated,          \* iteration_count # 0
    open,              \* client descriptors open in the process
    appFds,            \* those the application got by detaching a session
    watched,           \* client descriptors in the interest list
    eventfdIn,         \* epoll instances the eventfd was added to
    serverEdge,        \* an edge of the listening socket is to be processed
    backlog,           \* connections waiting to be accepted
    faults             \* failures so far

sessionVars == <<sock, flags, free>>
lifeVars == <<epollFd, isShuttingDown, eventfdIn>>
acceptVars == <<acceptsLive, acceptsRequested>>
callVars == <<pc, budget, iterated>>
fdVars == <<open, appFds, watched>>
worldVars == <<serverEdge, backlog, faults>>
vars == <<ioVars, sessionVars, lifeVars, acceptVars, callVars, fdVars, worldVars>>

SessionTypeOK ==
    /\ sock \in [Sessions -> Fds \cup {NoFd}]
    /\ flags \in [Sessions -> SUBSET Flags]
    /\ free \in Seq(Sessions)

StateTypeOK ==
    /\ epollFd \in Epolls \cup {NoEpoll}
    /\ isShuttingDown \in BOOLEAN
    /\ acceptsLive \in Nat
    /\ acceptsRequested \in BOOLEAN
    /\ pc \in {"app", "loop", "read", "recheck"}
    /\ budget \in Nat
    /\ iterated \in BOOLEAN

WorldTypeOK ==
    /\ open \subseteq Fds
    /\ appFds \subseteq Fds
    /\ watched \subseteq Fds
    /\ eventfdIn \subseteq Epolls
    /\ serverEdge \in BOOLEAN
    /\ backlog \in 0 .. MaxBacklog
    /\ faults \in 0 .. MaxFaults

TypeOK == IoTypeOK /\ SessionTypeOK /\ StateTypeOK /\ WorldTypeOK

Init ==
    /\ IoInit
    /\ sock = [s \in Sessions |-> NoFd]
    /\ flags = [s \in Sessions |-> {}]
    /\ free = [i \in 1 .. SessionCount |-> i - 1]
    /\ epollFd = NoEpoll
    /\ isShuttingDown = FALSE
    /\ acceptsLive = 0
    /\ acceptsRequested = FALSE
    /\ pc = "app" /\ budget = 0 /\ iterated = FALSE
    /\ open = {} /\ appFds = {} /\ watched = {}
    /\ eventfdIn = {}
    /\ serverEdge = FALSE
    /\ backlog = 0
    /\ faults = 0

-----------------------------------------------------------------------------
(* Helpers *)

IsActive(s) == sock[s] # NoFd
ActiveSessions == {s \in Sessions : IsActive(s)}

Started == epollFd # NoEpoll
(* The listening socket is in the interest list. *)
Listening == Started /\ ~isShuttingDown
ServerSocketFd == IF Started THEN ServerFd ELSE NoFd

StackFull == Len(free) = SessionCount

(* idx_stack_push *)
PushFree(s) == <<s>> \o free

(* session_reset_after_close *)
ResetAfterClose_Missing(s) == UNCHANGED sock  \* mutant

ResetAfterClose(s) == sock' = [sock EXCEPT ![s] = NoFd]

MayFail(kind) == kind \in FaultKinds /\ faults < MaxFaults

(* Mutants: one session may be left; the count is taken before the push.   *)
IdleWith_OneLeft(stack) == SessionCount - Len(stack) <= 1
IdleWith_BeforePush(stack) == SessionCount - Len(free) = 0

(* mcon_active_session_count is zero with this free stack. *)
IdleWith(stack) == SessionCount - Len(stack) = 0

(* mcon_complete_shutdown, called when the last session was returned;      *)
(* stack is the free stack after the push that precedes it.                *)
CompleteShutdownIfIdle(stack) ==
    LET complete == isShuttingDown /\ IdleWith(stack) IN
    /\ epollFd' = IF complete THEN NoEpoll ELSE epollFd
    /\ isShuttingDown' = (isShuttingDown /\ ~complete)
    /\ UNCHANGED eventfdIn

-----------------------------------------------------------------------------
(* Life cycle: mcon_start, mcon_shutdown *)

(* The application starts an instance that is stopped.  The eventfd is     *)
(* never removed from an interest list, so adding it to one that has it    *)
(* fails, and mcon_start takes the listening socket out again.             *)
Start(ep) ==
    /\ pc = "app"
    /\ ~Started
    /\ ep \notin eventfdIn
    /\ epollFd' = ep
    /\ eventfdIn' = eventfdIn \cup {ep}
    /\ serverEdge' = (serverEdge \/ backlog > 0)
    /\ UNCHANGED <<ioVars, sessionVars, isShuttingDown, acceptVars, callVars,
                   fdVars, backlog, faults>>

(* An edge that epoll_wait has already returned is still processed. *)
Shutdown ==
    /\ pc = "app"
    /\ "SHUTDOWN" \in AppCalls
    /\ ~isShuttingDown
    /\ Started
    /\ isShuttingDown' = TRUE
    /\ serverEdge' \in {FALSE, serverEdge}
    /\ UNCHANGED <<ioVars, sessionVars, epollFd, eventfdIn, acceptVars,
                   callVars, fdVars, backlog, faults>>

-----------------------------------------------------------------------------
(* mcon_submit *)

(* Mutant: enqueue_accept does not look at the free stack. *)
FreeForAccept_Unchecked == MaxLiveAccepts

(* Free sessions that no live accept is counting on. *)
FreeForAccept == Len(free) - acceptsLive

(* How often enqueue_accept succeeds in the loop of mcon_submit: the loop  *)
(* stops at the configured limit, when every free session has an accept,   *)
(* and when the io_queue is full.                                          *)
AcceptsToEnqueue ==
    LET room == Smaller(MaxLiveAccepts - acceptsLive,
                        Smaller(FreeForAccept, RoomInQueue))
    IN  IF acceptsRequested /\ room > 0 THEN room ELSE 0

AcceptSqes(T) == {Sqe("ACCEPT", NoSession, ServerSocketFd, t) : t \in T}

(* How mcon_submit ends: all that was offered is taken, or io_uring_submit *)
(* fails and takes part of it or nothing.                                  *)
SubmitOutcomes(P) ==
    {S \in SUBSET Offered(P) : S = Offered(P) \/ MayFail("submit")}

Submit ==
    /\ pc = "app"
    /\ \E T \in FreshTags("ACCEPT", NoSession, AcceptsToEnqueue) :
        LET q == queued \cup AcceptSqes(T)
        IN  \E P \in Poppable(q) : \E S \in SubmitOutcomes(P) :
                /\ PopAndSubmit(q, P, S)
                /\ faults' = IF S = Offered(P) THEN faults ELSE faults + 1
    /\ acceptsLive' = acceptsLive + AcceptsToEnqueue
    /\ acceptsRequested' = (acceptsRequested /\ AcceptsToEnqueue = 0)
    /\ UNCHANGED <<sessionVars, lifeVars, callVars, fdVars, serverEdge, backlog>>

-----------------------------------------------------------------------------
(* Session operations: mcon_session_read, _write, _drain, _close, _detach *)

FlagOf == [READ |-> "READING", WRITE |-> "WRITING", DRAIN |-> "READING",
           CLOSE |-> "CLOSING"]

(* The incompatible_states of VALIDATE_ARGS. *)
Incompatible ==
    [READ  |-> {"READING", "CLOSING"}, WRITE |-> {"WRITING", "CLOSING"},
     DRAIN |-> {"READING", "CLOSING"}, CLOSE |-> Flags, DETACH |-> Flags]

(* Mutants: the session is only checked to be active; a write is ignored.  *)
ValidArgs_ActiveOnly(s, op) == IsActive(s)
ValidArgs_WriteIgnored(s, op) ==
    IsActive(s) /\ flags[s] \cap (Incompatible[op] \ {"WRITING"}) = {}

ValidArgs(s, op) == IsActive(s) /\ flags[s] \cap Incompatible[op] = {}

SessionOp(op, s) ==
    /\ pc = "app"
    /\ op \in AppCalls
    /\ ValidArgs(s, op)
    /\ \E T \in FreshTags(op, s, 1) : \E t \in T : Push(Sqe(op, s, sock[s], t))
    /\ flags' = [flags EXCEPT ![s] = @ \cup {FlagOf[op]}]
    /\ UNCHANGED <<ring, kern, cq, eventfd, owed, sqeInFlight, sock, free,
                   lifeVars, acceptVars, callVars, fdVars, worldVars>>

(* session_reset_after_close, the socket now belongs to the application.   *)
(* With the socket not in the interest list epoll_ctl reports ENOENT, and  *)
(* the session stays on the stack although the call fails.  Any other      *)
(* error, such as EBADF when the instance is stopped, pops it again.       *)
Detach(s) ==
    /\ pc = "app"
    /\ "DETACH" \in AppCalls
    /\ ValidArgs(s, "DETACH")
    /\ Started
    /\ ~StackFull
    /\ free' = PushFree(s)
    /\ IF sock[s] \in watched
         THEN /\ ResetAfterClose(s)
              /\ watched' = watched \ {sock[s]}
              /\ appFds' = appFds \cup {sock[s]}
              /\ CompleteShutdownIfIdle(free')
         ELSE UNCHANGED <<sock, watched, appFds, lifeVars>>
    /\ UNCHANGED <<ioVars, flags, acceptVars, callVars, open, worldVars>>

-----------------------------------------------------------------------------
(* mcon_process_event: the listening socket *)

ProcessServerSocketEvent ==
    /\ pc = "app"
    /\ serverEdge
    /\ acceptsRequested' = TRUE
    /\ serverEdge' = FALSE
    /\ UNCHANGED <<ioVars, sessionVars, lifeVars, acceptsLive, callVars, fdVars,
                   backlog, faults>>

-----------------------------------------------------------------------------
(* mcon_process_event: the io_uring eventfd.  Each iteration of the loop   *)
(* in mcon_process_io_uring_event is a step.                               *)

ProcessIo(capacity) ==
    /\ pc = "app"
    /\ eventfd /\ eventfdIn # {}
    /\ pc' = "loop"
    /\ budget' = capacity
    /\ UNCHANGED <<ioVars, sessionVars, lifeVars, acceptVars, iterated, fdVars,
                   worldVars>>

(* The loop goes on: a CQE is at the head and there is room for an event.  *)
Peek(res) ==
    /\ pc = "loop"
    /\ budget > 0
    /\ cq # <<>>
    /\ Head(cq).res \in res

Cqe == Head(cq)

(* io_uring_cqe_seen, and the iteration counts for what is in flight.      *)
ConsumeUncounted ==
    /\ cq' = Tail(cq)
    /\ UNCHANGED <<queued, ring, kern, eventfd, owed, sqeInFlight>>

Consume ==
    /\ cq' = Tail(cq)
    /\ sqeInFlight' = sqeInFlight - 1
    /\ UNCHANGED <<queued, ring, kern, eventfd, owed>>

Iterate(events) ==
    /\ budget' = budget - events
    /\ iterated' = TRUE
    /\ UNCHANGED pc

(* The loop is left.  Only a call without a whole iteration goes on to     *)
(* clear the eventfd.                                                      *)
Leave ==
    /\ pc' = IF iterated THEN "app" ELSE "read"
    /\ budget' = 0
    /\ iterated' = FALSE

(* err < 0 after io_uring_cqe_seen: the break skips the decrement. *)
ConsumeAndBreak == ConsumeUncounted /\ Leave

(* An accept that found a connection, or failed, asks for another one.     *)
ContinueAcceptCycle_Missing == UNCHANGED acceptsRequested  \* mutant

ContinueAcceptCycle == acceptsRequested' = TRUE

CloseSocket_Missing(fd) == UNCHANGED open  \* mutant

CloseSocket(fd) == open' = open \ {fd}

ProcessAcceptAgain ==
    /\ Peek({"EAGAIN"}) /\ Cqe.sqe.op = "ACCEPT"
    /\ acceptsLive' = acceptsLive - 1
    /\ Consume
    /\ Iterate(0)
    /\ UNCHANGED <<sessionVars, lifeVars, acceptsRequested, fdVars, worldVars>>

ProcessAcceptError ==
    /\ Peek({"ERROR"}) /\ Cqe.sqe.op = "ACCEPT"
    /\ acceptsLive' = acceptsLive - 1
    /\ ContinueAcceptCycle
    /\ Consume
    /\ Iterate(1)
    /\ UNCHANGED <<sessionVars, lifeVars, fdVars, worldVars>>

(* A new connection gets the session on top of the stack and is added to   *)
(* the interest list.  Without a free session the descriptor is forgotten; *)
(* when epoll_ctl fails it is closed and the session goes back.            *)
ProcessAcceptConnection ==
    /\ Peek(Fds) /\ Cqe.sqe.op = "ACCEPT"
    /\ acceptsLive' = acceptsLive - 1
    /\ ContinueAcceptCycle
    /\ \E epollFails \in {~Started, ~Started \/ MayFail("epoll_add")} :
         IF free = <<>>
           THEN /\ ConsumeAndBreak
                /\ UNCHANGED <<sessionVars, open, watched, faults>>
         ELSE IF epollFails
           THEN /\ ConsumeAndBreak
                /\ CloseSocket(Cqe.res)
                /\ faults' = IF Started THEN faults + 1 ELSE faults
                /\ UNCHANGED <<sessionVars, watched>>
           ELSE /\ Consume
                /\ Iterate(1)
                /\ free' = Tail(free)
                /\ sock' = [sock EXCEPT ![Head(free)] = Cqe.res]
                /\ flags' = [flags EXCEPT ![Head(free)] = {}]
                /\ watched' = watched \cup {Cqe.res}
                /\ UNCHANGED <<open, faults>>
    /\ UNCHANGED <<lifeVars, appFds, serverEdge, backlog>>

(* _process_read, _process_write, _process_drain *)
ProcessOp ==
    /\ Peek({"DONE"}) /\ Cqe.sqe.op \in {"READ", "WRITE", "DRAIN"}
    /\ flags' = [flags EXCEPT ![Cqe.sqe.session] = @ \ {FlagOf[Cqe.sqe.op]}]
    /\ Consume
    /\ Iterate(1)
    /\ UNCHANGED <<sock, free, lifeVars, acceptVars, fdVars, worldVars>>

(* _process_close: with the stack full the CQE is not even consumed. *)
ProcessClose ==
    /\ Peek({"DONE"}) /\ Cqe.sqe.op = "CLOSE"
    /\ IF StackFull
         THEN /\ Leave
              /\ UNCHANGED <<ioVars, sessionVars, lifeVars>>
         ELSE /\ free' = PushFree(Cqe.sqe.session)
              /\ ResetAfterClose(Cqe.sqe.session)
              /\ flags' = [flags EXCEPT ![Cqe.sqe.session] = @ \ {"CLOSING"}]
              /\ CompleteShutdownIfIdle(free')
              /\ Consume
              /\ Iterate(1)
    /\ UNCHANGED <<acceptVars, fdVars, worldVars>>

(* The loop's condition fails. *)
LeaveLoop ==
    /\ pc = "loop"
    /\ budget = 0 \/ cq = <<>>
    /\ Leave
    /\ UNCHANGED <<ioVars, sessionVars, lifeVars, acceptVars, fdVars, worldVars>>

ReadEventfd ==
    /\ pc = "read"
    /\ eventfd' = FALSE
    /\ pc' = "recheck"
    /\ UNCHANGED <<queued, ring, kern, cq, owed, sqeInFlight, sessionVars,
                   lifeVars, acceptVars, budget, iterated, fdVars, worldVars>>

(* The eventfd is written again if a CQE showed up in the meantime.        *)
Recheck_Missing == UNCHANGED eventfd  \* mutant

Recheck == eventfd' = (eventfd \/ cq # <<>>)

RecheckCq ==
    /\ pc = "recheck"
    /\ Recheck
    /\ pc' = "app"
    /\ UNCHANGED <<queued, ring, kern, cq, owed, sqeInFlight, sessionVars,
                   lifeVars, acceptVars, budget, iterated, fdVars, worldVars>>

-----------------------------------------------------------------------------
(* The kernel *)

(* accept() with IORING_ACCEPT_DONTWAIT; a full descriptor table or the    *)
(* descriptor -1 is an error that leaves the connection in the backlog.    *)
KernelAccept(e) ==
    /\ e.op = "ACCEPT"
    /\ IF e.fd = NoFd \/ open = Fds
         THEN Complete(e, "ERROR") /\ UNCHANGED <<open, backlog>>
       ELSE IF backlog = 0
         THEN Complete(e, "EAGAIN") /\ UNCHANGED <<open, backlog>>
         ELSE \E fd \in Fds \ open :
                /\ Complete(e, fd)
                /\ open' = open \cup {fd}
                /\ backlog' = backlog - 1
    /\ UNCHANGED <<sessionVars, lifeVars, acceptVars, callVars, appFds, watched,
                   serverEdge, faults>>

(* A read, write or drain ends at any time, or never. *)
KernelTransfer(e) ==
    /\ e.op \in {"READ", "WRITE", "DRAIN"}
    /\ Complete(e, "DONE")
    /\ UNCHANGED <<sessionVars, lifeVars, acceptVars, callVars, fdVars, worldVars>>

(* Closing a descriptor also takes it out of the interest list. *)
KernelClose(e) ==
    /\ e.op = "CLOSE"
    /\ Complete(e, "DONE")
    /\ open' = open \ {e.fd}
    /\ watched' = watched \ {e.fd}
    /\ UNCHANGED <<sessionVars, lifeVars, acceptVars, callVars, appFds, worldVars>>

KernelSignal ==
    /\ Signal
    /\ UNCHANGED <<sessionVars, lifeVars, acceptVars, callVars, fdVars, worldVars>>

-----------------------------------------------------------------------------
(* The clients, and what the application does without the library *)

(* The listening socket is edge triggered: each new connection is an edge. *)
ClientConnects ==
    /\ backlog < MaxBacklog
    /\ backlog' = backlog + 1
    /\ serverEdge' = (serverEdge \/ Listening)
    /\ UNCHANGED <<ioVars, sessionVars, lifeVars, acceptVars, callVars, fdVars,
                   faults>>

AppClosesFd(fd) ==
    /\ pc = "app"
    /\ fd \in appFds
    /\ appFds' = appFds \ {fd}
    /\ open' = open \ {fd}
    /\ UNCHANGED <<ioVars, sessionVars, lifeVars, acceptVars, callVars, watched,
                   worldVars>>

(* The application takes a session's socket out of its own interest list. *)
AppDeregisters(s) ==
    /\ pc = "app"
    /\ "DEREGISTER" \in AppCalls
    /\ sock[s] \in watched
    /\ watched' = watched \ {sock[s]}
    /\ UNCHANGED <<ioVars, sessionVars, lifeVars, acceptVars, callVars, open,
                   appFds, worldVars>>

(* It replaces an epoll instance that mcon no longer uses. *)
AppRenewsEpoll(ep) ==
    /\ pc = "app"
    /\ "RENEW" \in AppCalls
    /\ ep \in eventfdIn /\ ep # epollFd
    /\ eventfdIn' = eventfdIn \ {ep}
    /\ UNCHANGED <<ioVars, sessionVars, epollFd, isShuttingDown, acceptVars,
                   callVars, fdVars, worldVars>>

-----------------------------------------------------------------------------
LibraryCall ==
    \/ \E ep \in Epolls : Start(ep)
    \/ Shutdown
    \/ Submit
    \/ \E op \in SessionOps, s \in Sessions : SessionOp(op, s)
    \/ \E s \in Sessions : Detach(s)
    \/ ProcessServerSocketEvent
    \/ \E capacity \in Capacities : ProcessIo(capacity)

CompletionLoop ==
    \/ ProcessAcceptAgain
    \/ ProcessAcceptError
    \/ ProcessAcceptConnection
    \/ ProcessOp
    \/ ProcessClose
    \/ LeaveLoop
    \/ ReadEventfd
    \/ RecheckCq

Kernel ==
    \/ \E e \in kern : KernelAccept(e)
    \/ \E e \in kern : KernelTransfer(e)
    \/ \E e \in kern : KernelClose(e)
    \/ KernelSignal

Environment ==
    \/ ClientConnects
    \/ \E fd \in Fds : AppClosesFd(fd)
    \/ \E s \in Sessions : AppDeregisters(s)
    \/ \E ep \in Epolls : AppRenewsEpoll(ep)

Next == LibraryCall \/ CompletionLoop \/ Kernel \/ Environment

Spec == Init /\ [][Next]_vars
=============================================================================
