------------------------------- MODULE IoRing -------------------------------
(***************************************************************************)
(* The I/O pipeline of one mcon instance: the prioritised io_queue that    *)
(* collects SQEs, the io_uring submission ring it is popped into, the      *)
(* kernel that executes them, the completion ring it posts CQEs to, the    *)
(* eventfd that announces them, and mcon's own count of what is in flight. *)
(*                                                                         *)
(* Abstractions.  The buffers, byte counts and results of reads and writes *)
(* are left out.  The stages before the completion ring are sets: the      *)
(* order inside one priority class of the io_queue, and the order in which *)
(* the kernel executes what it was given, are left open.  The completion   *)
(* ring is a sequence, consumed from its head.                             *)
(***************************************************************************)
EXTENDS Integers, Sequences, FiniteSets

CONSTANTS
    SessionCount,    \* mcon_config.session_count
    QueueSize,       \* mcon_config.io_uring_queue_size
    IoQueueSize,     \* mcon_config.io_queue_size
    MaxLiveAccepts,  \* mcon_config.max_live_accept_sqes
    SqEntries,       \* slots of the submission ring the kernel granted
    CounterMax,      \* bound: largest sqe_in_flight followed, at most a uint16_t
    Fds,             \* descriptors a client connection can get
    ServerFd,        \* the descriptor of the listening socket
    NoFd             \* -1

Sessions == 0 .. SessionCount - 1
NoSession == 2^20 - 1

Ops == {"ACCEPT", "READ", "WRITE", "DRAIN", "CLOSE"}

(* How an operation can end: no pending connection, an error, anything     *)
(* else that is not a new descriptor.                                      *)
Codes == {"EAGAIN", "ERROR", "DONE"}

(* What mcon_config_validate accepts, what io_uring_queue_init grants (at  *)
(* least the entries asked for), and that the descriptors are distinct.    *)
ASSUME ConfigAssumption ==
    /\ SessionCount \in 1 .. NoSession
    /\ {QueueSize, IoQueueSize, MaxLiveAccepts, SqEntries} \subseteq Nat \ {0}
    /\ MaxLiveAccepts <= QueueSize
    /\ QueueSize <= SqEntries
    /\ CounterMax \in QueueSize .. 2^16 - 1
ASSUME FdAssumption ==
    /\ IsFiniteSet(Fds)
    /\ ServerFd # NoFd
    /\ {ServerFd, NoFd} \cap Fds = {}
    /\ Codes \cap Fds = {}

(* io_uring makes the completion ring twice as long as the submission ring. *)
CqEntries == 2 * SqEntries

(* Equal SQEs (two accepts) are told apart by a tag; the code has none.    *)
Tags == 1 .. MaxLiveAccepts + 1

Sqes == [op : Ops, session : Sessions \cup {NoSession},
         fd : Fds \cup {ServerFd, NoFd}, tag : Tags]

Sqe(op, session, fd, tag) ==
    [op |-> op, session |-> session, fd |-> fd, tag |-> tag]

Cqes == [sqe : Sqes, res : Fds \cup Codes]

VARIABLES
    queued,       \* SQEs in the io_queue
    ring,         \* SQEs in the submission ring that the kernel has not taken
    kern,         \* SQEs the kernel has taken and not completed
    cq,           \* the completion ring
    eventfd,      \* the eventfd is readable
    owed,         \* a CQE was posted and its eventfd signal is still to come
    sqeInFlight   \* mcon_state.sqe_in_flight

ioVars == <<queued, ring, kern, cq, eventfd, owed, sqeInFlight>>

IoTypeOK ==
    /\ queued \subseteq Sqes
    /\ ring \subseteq Sqes
    /\ kern \subseteq Sqes
    /\ cq \in Seq(Cqes)
    /\ eventfd \in BOOLEAN
    /\ owed \in BOOLEAN
    /\ sqeInFlight \in 0 .. CounterMax

IoInit ==
    /\ queued = {} /\ ring = {} /\ kern = {} /\ cq = <<>>
    /\ eventfd = FALSE /\ owed = FALSE
    /\ sqeInFlight = 0

-----------------------------------------------------------------------------

Smaller(a, b) == IF a < b THEN a ELSE b

CompletedSqes == {cq[i].sqe : i \in DOMAIN cq}
Unexecuted == queued \cup ring \cup kern
Outstanding == Unexecuted \cup CompletedSqes

(* Sets of n unused tags for the next SQEs of an operation and a session:  *)
(* always the lowest ones.                                                 *)
FreshTags(op, session, n) ==
    LET unused == {t \in Tags : \A e \in Outstanding :
                      ~ (e.op = op /\ e.session = session /\ e.tag = t)}
    IN  {T \in SUBSET unused :
            Cardinality(T) = n /\ \A t \in T, u \in unused \ T : t < u}

-----------------------------------------------------------------------------
(* The io_queue and the submission ring. *)

(* io_queue_push: the five classes share one capacity. *)
RoomInQueue == IoQueueSize - Cardinality(queued)

Push(sqe) ==
    /\ RoomInQueue > 0
    /\ queued' = queued \cup {sqe}

(* Mutant: a close goes last. *)
Priority_CloseLast == [CLOSE |-> 4, DRAIN |-> 0, WRITE |-> 1, READ |-> 2, ACCEPT |-> 3]

(* The group io_queue_push files an operation under, 0 is popped first. *)
Priority == [CLOSE |-> 0, DRAIN |-> 1, WRITE |-> 2, READ |-> 3, ACCEPT |-> 4]

(* The limit mcon_submit passes: the quota that is left.  The subtraction  *)
(* is unsigned, so below zero it is no limit at all.                       *)
QuotaLeft_Ignored(q) == Cardinality(q)  \* mutant: no limit

QuotaLeft(q) == IF sqeInFlight <= QueueSize THEN QueueSize - sqeInFlight
                                            ELSE Cardinality(q)

(* How many SQEs io_queue_pop_into_ring moves from the queue q. *)
PopCount(q) ==
    Smaller(QuotaLeft(q), Smaller(SqEntries - Cardinality(ring), Cardinality(q)))

(* The sets it may pop from q: class by class, in the order of Priority. *)
Poppable(q) ==
    {P \in SUBSET q :
        /\ Cardinality(P) = PopCount(q)
        /\ \A e \in P, f \in q \ P : Priority[e.op] <= Priority[f.op]}

(* io_uring_submit is called only when something was popped, and then      *)
(* offers the kernel everything in the ring.                               *)
Offered(P) == IF P = {} THEN {} ELSE ring \cup P

(* Mutants: what was submitted is not counted, or, after a call that did   *)
(* not fail, what was popped is.                                           *)
CountSubmitted_Never(P, S) == UNCHANGED sqeInFlight
CountSubmitted_Popped(P, S) ==
    sqeInFlight' = sqeInFlight + (IF S = {} THEN 0 ELSE Cardinality(P))

CountSubmitted(P, S) == sqeInFlight' = sqeInFlight + Cardinality(S)

(* P is popped from the queue q, and the kernel takes S of what it is      *)
(* offered.  The model stops short of a counter that would wrap: within    *)
(* the quota it cannot get there.                                          *)
PopAndSubmit(q, P, S) ==
    /\ sqeInFlight + Cardinality(S) <= CounterMax
    /\ queued' = q \ P
    /\ ring' = (ring \cup P) \ S
    /\ kern' = kern \cup S
    /\ CountSubmitted(P, S)
    /\ UNCHANGED <<cq, eventfd, owed>>

-----------------------------------------------------------------------------
(* The kernel: it executes one SQE and posts its CQE, and later signals    *)
(* the registered eventfd.  With the completion ring full the CQE waits in *)
(* the kernel.                                                             *)

Complete(sqe, res) ==
    /\ sqe \in kern
    /\ Len(cq) < CqEntries
    /\ kern' = kern \ {sqe}
    /\ cq' = Append(cq, [sqe |-> sqe, res |-> res])
    /\ owed' = TRUE
    /\ UNCHANGED <<queued, ring, eventfd, sqeInFlight>>

Signal ==
    /\ owed
    /\ owed' = FALSE
    /\ eventfd' = TRUE
    /\ UNCHANGED <<queued, ring, kern, cq, sqeInFlight>>

-----------------------------------------------------------------------------
(* Invariants of the pipeline *)

(* Every SQE is in one place: it moves through the stages and is neither   *)
(* lost nor executed twice.                                                *)
StagesDisjoint ==
    /\ IsFiniteSet(Unexecuted)
    /\ queued \cap ring = {}
    /\ (queued \cup ring) \cap kern = {}
    /\ Unexecuted \cap CompletedSqes = {}
    /\ \A i, j \in DOMAIN cq : cq[i].sqe = cq[j].sqe => i = j

(* sqe_in_flight never counts less than what the kernel holds and what it  *)
(* has posted, even when io_uring_submit takes only part of the ring.      *)
InFlightCounted == Cardinality(kern) + Len(cq) <= sqeInFlight

=============================================================================
