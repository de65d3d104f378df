# A verification of mcon

mcon (`src/`) is a C library that serves many socket connections with epoll and
io_uring.  This directory holds a TLA+ model of it, TLC runs on small
instances, and theorems about the model checked by TLAPS.

    tlc -config MCMcon_lifecycle.cfg MCMcon.tla     # one run per .cfg file
    tlapm MconProofs.tla                            # the proofs of one module

## The system

A program creates an *instance* (`mcon_create`), starts it on a listening
socket and an epoll instance (`mcon_start`), and then runs one loop in one
thread: `epoll_wait`, `mcon_process_event` for every event returned, session
calls in answer to the mcon events that produces, and `mcon_submit`
(`apps/million_connections/mcon_test_server.c` is that loop).

| Component | Source (`src/src/mcon/`) | State | Operations |
|---|---|---|---|
| life cycle | `mcon.c`, `mcon_helpers.c` | `instance_id` and its counter, `epoll_fd`, `server_socket_fd`, `is_shutting_down` | create, destroy, start, shutdown, complete_shutdown |
| submission | `mcon.c`, `io_uring_actions.c` | `sqe_in_flight`, `accepts_live`, `accepts_requested` | submit, enqueue_accept |
| io_queue | `io_queue.c` | five priority classes in one capacity | push, pop_into_ring |
| sessions | `session.c`, `session_helpers.c` | `socket_fd`, `state` flags, `generation`, the stack of free sessions | read, write, drain, close, detach |
| completion loop | `event_processing_io_uring.c` | none of its own | one handler per kind of CQE, clearing the eventfd |
| listening socket events | `event_processing.c` | none of its own | request an accept |
| client socket events | `event_processing_session.c` | `generation`, the RDHUP flag | turn epoll events into mcon events |
| epoll entries | `epoll_entry.h` | none | encode, decode, owns_event |
| configuration | `config.c`, `limits.c` | none | validate |
| listening socket | `socket.c` | none | create, validate |
| external | liburing, the kernel, ctools | rings, eventfd, interest lists, descriptors, bounded stack and queue | |

How they interact: session calls and `enqueue_accept` push SQEs into the
io_queue; `mcon_submit` pops them, by priority and within a quota, into the
submission ring and counts what the kernel took; the kernel completes them in
any order, posts CQEs and signals an eventfd; the completion loop consumes the
CQEs, clears session flags, moves sessions between stack and use, and asks for
more accepts.  The library has no threads of its own.  What makes it hard is
that the kernel and the clients act between any two steps of it: between two
iterations of the completion loop, between the last look at the completion ring
and the clearing of the eventfd, and between a call and the event it leads to.

### What makes each component correct

- life cycle: a creation that fails releases what it acquired; ids tell the
  instances of a process apart; an instance stops only when asked to and only with the last
  connection, and does stop then; restarting finds a consistent state.
- submission: the quota bounds what is in flight and never leaks; no accept
  without a free session to receive the connection; no SQE lost or duplicated.
- sessions: the flags say exactly what is outstanding, so that no close
  overtakes an operation of its session; the stack and the sessions in use
  partition the sessions.
- completion loop: no wake-up is lost; every descriptor has one owner.
- listening socket: no descriptor is left behind by an address that could not
  be used; with an edge-triggered socket, a connection that waits is
  never forgotten.
- client socket events: no event of an earlier connection reaches a later one,
  and no hang-up is lost or reported twice.
- epoll entries: every field comes back as it was put in, and every event has
  one owner.

`PROJECT.json` lists the places where this can go wrong under `hazards`.

## The modules

| Module | What it is |
|---|---|
| `IoRing` | the I/O pipeline of an instance: io_queue, submission ring, kernel, completion ring, eventfd, `sqe_in_flight` |
| `Mcon` | an instance in the loop of its application: EXTENDS `IoRing` with sessions, life cycle, accepts, the completion loop, the kernel, the clients and the application |
| `MconProperties` | safety, action and liveness properties, fairness, and the claims of the sources that the code does not keep |
| `SessionApi` | the abstract specification: what the application sees of its sessions and of the instance's life cycle |
| `MconImplements` | the refinement mapping from `Mcon` to `SessionApi` |
| `SessionEvents` | the epoll events of client sockets, fetched and processed later, with the sessions as `SessionApi` lets them come and go; its properties |
| `EpollEntry` | the 64 bits of an epoll entry: encode, decode, ownership |
| `Instances` | instances from `mcon_create` to `mcon_destroy`, in several threads on one epoll instance: EXTENDS `EpollEntry`; its properties |
| `ListeningSocket` | `mcon_create_listening_socket` and its validation; its properties |
| `Setup` | the set-up of a server: composes `Instances` and `ListeningSocket` as the main function of `mcon_test_server` does |
| `MCMcon`, `MCSessionEvents`, `MCSetup` | the instances for TLC, with their symmetry |
| `IoRingProofs` | lemmas: what each operator of `IoRing` does to its invariants |
| `MconProofs` | the inductive invariant of the pipeline in `Mcon`, and its theorems |
| `MconSessionProofs` | the inductive invariant of sessions and descriptors on top of it, and its theorems |
| `MconImplementsProofs` | `Mcon` implements `SessionApi`, and what follows from that |
| `SessionEventsProofs` | the same for `SessionEvents` |
| `EpollEntryProofs` | arithmetic of the encoding: `Decode` inverts `Encode` |
| `ListeningSocketProofs`, `SetupProofs` | the invariants of `ListeningSocket` and of `Instances`, and the theorems about `Setup` |

How they compose.  `Mcon` is the instance at work, between a start and the end
of a shutdown.  `SessionEvents` does not repeat it: sessions are accepted,
begin to close and are released there by the actions of
`Api == INSTANCE SessionApi`, which `Mcon` implements (`ImplementsApi`), joined
with what the same calls do to `socket_fd`, `generation` and the RDHUP flag.
`Setup` looks at the same instances from further away, with their ids, what
they hold and what they have in the interest list.

### State of `Mcon`

| Variable | Code |
|---|---|
| `queued` | the `kqueue` of `struct io_queue` |
| `ring`, `kern`, `cq` | SQEs in the submission ring, SQEs the kernel works on, the completion ring |
| `eventfd`, `owed` | the eventfd is readable; its signal for a posted CQE is still to come |
| `sqeInFlight`, `acceptsLive`, `acceptsRequested`, `isShuttingDown` | `struct mcon_state` |
| `sock`, `flags` | `socket_fd` and `state` of each `struct mcon_session` |
| `free` | `session_free_stack`, top first |
| `epollFd` | `epoll_fd`; `server_socket_fd` is set and reset with it |
| `pc`, `budget`, `iterated` | where the thread is in `mcon_process_io_uring_event`, `max_events - event_count`, `iteration_count != 0` |
| `open`, `appFds`, `watched`, `backlog`, `serverEdge`, `eventfdIn` | client descriptors open, detached, in the interest list; connections waiting; an edge of the listening socket still to process; epoll instances holding the eventfd |
| `faults` | system calls that failed so far (bounds the runs) |

### State of the other modules

| Module | Variable | Code |
|---|---|---|
| `SessionEvents` | `sock`, `generation`, `rdhup` | `struct mcon_session` |
| | `connected`, `doing` | a session serves a connection, its close was requested |
| | `arrived`, `executed`, `conds`, `interest`, `ready` | the kernel: accepted but unprocessed descriptors, closes executed but unprocessed, what `poll` reports, the interest list, pending edges |
| | `fetched` | the array `epoll_wait` filled, as far as it is not processed |
| | `hangups`, `misled`, `age` of an event | history: hang-ups reported; sessions that took an event from before the wrap; releases since the event was fetched |
| `Instances` | `pc`, `held` | where each thread is in `mcon_create` or its instance's life, what it has acquired |
| | `idCounter`, `id` | `instance_id_counter`, `instance_id` |
| | `interest`, `pending` | the shared interest list; events fetched whose entry is gone |
| | `age` | history: ids taken since |
| `ListeningSocket` | `addresses`, `pass`, `rp`, `call` | the result of `getaddrinfo`, which loop, where in it, the next system call |
| | `traits`, `opened`, `tried` | what the socket was given, sockets open, addresses tried |

### Actions and granularity

In `Mcon` a library call is one step where nobody can act inside it with effect:
`Start`, `Shutdown`, `Submit`, `SessionOp` (read, write, drain, close),
`Detach`, `ProcessServerSocketEvent`.  The processing of the eventfd is not: each
iteration of its loop is a step (`ProcessAcceptAgain`, `ProcessAcceptError`,
`ProcessAcceptConnection`, `ProcessOp`, `ProcessClose`), leaving it
(`LeaveLoop`, or the break inside a handler) is one, and so are the `read` of
the eventfd and the recheck after it (`ReadEventfd`, `RecheckCq`).  The kernel
(`KernelAccept`, `KernelTransfer`, `KernelClose`, `KernelSignal`) and the
clients (`ClientConnects`) step in between.

Submission is one step although the kernel may run an operation inside
`io_uring_submit`: the accept and the close it may run at once only post CQEs,
which nobody reads before the call ends.

In `SessionEvents` one step processes one event: the library makes one system
call there, `getsockopt`, whose outcome the kernel's state decides.  `EpollWait`,
`KernelClose` and `KernelAccept` may come between any two steps, so an
application may submit, close and detach while it still holds fetched events.
In `Instances` and `ListeningSocket` each acquisition and each system call is a
step, which may fail; the two `atomic_fetch_add` of `mcon_create` are two
steps, and other threads take ids in between.

Calls that fail and change nothing are not steps.  `mcon_process_event` with a
capacity of zero is (`Capacities` of the lifecycle run holds 0): it clears the
eventfd.

### Abstractions

- Buffers, byte counts and results are left out; a CQE's result is a
  descriptor, `EAGAIN`, an error or anything else.
- The order inside a priority class of the io_queue and the order in which the
  kernel takes and executes SQEs are left open.
- Two accept SQEs are identical in the code; in the model they carry a tag so
  that sets can hold both.
- The kernel's own overflow list of CQEs is an SQE that stays in the kernel.
- In `SessionEvents` a client sends, ends its side, or aborts; what that raises
  is one set of conditions.  In edge triggered mode any new condition is an edge.
- A bit field of `EpollEntry` is given by the number of its values, and shifts
  and masks are divisions and remainders, so the theorems hold for all widths.
- A path of `mcon_listening_socket_valid` other than success is one outcome.

What the modelled application never does: start an instance that is not
stopped, close a descriptor it does not own, or call into one instance from two
threads.  It may take a session's socket out of the interest list itself
(`AppDeregisters`), detach, close what it detached, and replace an epoll
instance mcon no longer uses (`AppRenewsEpoll`).

## Properties

Each stands in its module with a comment.

`MconProperties`, safety: `FlagsMatchPipeline`, `OperationsKeepTheirSocket`,
`DescriptorsHaveOneOwner`, `FreeStackExact`, `AcceptsAreCovered`,
`InFlightBounded` (with `InFlightCounted`), `WakeupPending`,
`AcceptDemandNotLost`, `StoppedIsIdle`.  Action property: `SocketReleasedOnce`.  Liveness:
`ClosesComplete`, `ShutdownCompletes`, `AcceptsContinue`.

`ClosesComplete` makes one exception.  A read, write or drain that waits for
its peer holds a unit of the quota, and with as many of those as
`io_uring_queue_size` nothing is popped from the io_queue any more, a close no
more than anything else, although it comes first.  A valid configuration allows
that (`mcon_test_server` has a million sessions and a quota of 256, and is
saved by never reading).  So the property says: a close that never completes is
kept waiting by transfers that hold the whole quota for ever
(`TransfersHoldQuota`), and by nothing else.  Accepts come last in the queue, so
that `AcceptsContinue` assumes that the sessions leave a unit of the quota and a
slot of the io_queue free (`RoomForAccept`).

`SessionEvents`: `StaleEventsMarked`, `HangupReportedOnce`, `HangupsAreReal`,
`HangupNotLost`, `MarkedIsReported`, and the liveness property
`HangupsReported`.  The generation
has a byte, so these hold up to a limit that the properties name: an event that
is processed after its session was released 256 times (`Generations`) is taken
for a current one.

`Instances`: `CleanupExact`, `InstanceIdsDistinct`, `EventsHaveOneOwner`,
`ForeignEventsNotOwned`.  Again the id has 16 bits, and ownership is exact for
as long as fewer than 65536 ids (`InstanceValues`) were taken since.
`ListeningSocket`: `NoSocketLeaked`, `FallbackInOrder`, `CreatedIsValid`.

`MconImplements` adds `ImplementsApi`.  In `SessionApi` a session serves one
connection after the other, receives and sends at most one thing at a time and
closes alone, and an instance that is shutting down stops in the very step that
releases its last session, neither earlier nor later.  The mapping reads what a
session is doing off the SQEs in the pipeline, not off the state flags, so the
refinement says that the flags are a sufficient guard; it reads the mode off
`epoll_fd` and `is_shutting_down`.  A shutdown without any session is one that
`SessionApi` never completes, as the code does.

### Fairness

`FairSpec` of `MconProperties` assumes what a correct application loop and the
kernel give:

- strong fairness of `Submit`, `ProcessServerSocketEvent` and `ProcessIo` (with
  room for an event): each round of the loop processes every event that
  `epoll_wait` returned and then calls `mcon_submit`.  They are disabled while
  another call runs, hence strong and not weak fairness;
- weak fairness of the completion loop: a call that has begun goes on;
- weak fairness of the eventfd signal, of accepts (`IORING_ACCEPT_DONTWAIT`,
  they never wait), and of the close of each session.

Nothing is assumed of reads, writes and drains, which wait for the peer, of the
clients, or of the session calls the application chooses to make.

`FairSpec` of `SessionEvents` is the same loop seen from the client sockets:
strong fairness of `EpollWait` for each descriptor, for `epoll_wait` is called
again and again and its ready list is served in turn, and for each session weak
fairness of processing one of its events.  An event that is refused for want of
room (`ENOBUFS`) stays as it is, and the application is taken to call again with
more room; an application that throws it away instead is not modelled.  Clients,
sends and closes are free.

## Runs

| Run | Shows |
|---|---|
| `lifecycle` | every safety and action property and the refinement of `SessionApi`, two sessions with read, write, close, detach, shutdown and restart |
| `faults` | the bookkeeping, and again the refinement, under two failures of `io_uring_submit` (any part taken) or `epoll_ctl`, sockets deregistered by the application, and a shutdown |
| `limits` | the same with one slot in every queue, ring, quota and event array, three sessions for two descriptors, and a shutdown |
| `liveness` | `ClosesComplete`, `AcceptsContinue`, `ShutdownCompletes`, where transfers can use up the quota, without restart |
| `stale_events` | the properties of `SessionEvents`, level and edge triggered, with and without room for the events |
| `setup` | the properties of `Instances` and `ListeningSocket`, two threads, every failing step |

Bounds: `MaxBacklog` (waiting connections), `MaxFaults`, the set `Fds`, and
`CounterMax`, where the model stops following `sqe_in_flight`.  The code's
counter is a `uint16_t`.  Within the quota it cannot reach its limit
(`QuotaKept`); a failed submission can lift it above the quota, where it is
unlimited and every leak adds to it, and a behaviour is followed only until it
would wrap.
Connections keep arriving without limit, so sessions and descriptors are reused
any number of times.  Two sessions and three descriptors are enough for a
descriptor to be reused by another session while the first one's close is
unprocessed, and for two accepts to compete for the last session; a quota of
three under four queue slots lets operations wait at each stage.  Sets of
descriptors are symmetric in the safety runs; the runs of liveness use none.

In the `liveness` run the quota is two, which the read and the write of one
session use up: the close of the other does starve there, and without the
exception of `ClosesComplete`, as without `RoomForAccept` in `AcceptsContinue`,
TLC finds the properties violated.  Its io_queue has one slot more than the
quota, so that an operation may also wait in the queue.

`stale_events`: two sessions on two descriptors let either be reused by the
other. `Generations` is 2, so that two releases wrap it and events older than
the wrap occur. `MaxFetched` is 1, so that the descriptors compete for the
event. A capacity of 1 is too small for any hang-up, one of 4 for none. Clients
that only send (`{"IN"}`) are left to the `foreign_error` run, for they lead to
no hang-up.

`setup`: three instance ids, of which 0 is skipped, wrap all the time;
`MaxOvertakes`, the ids other threads take between the two fetches of
`mcon_create`, must stay below that number: in the code, other threads
create fewer than 65535 instances between two consecutive statements.  `MaxLeftover` bounds what a shutdown or
a destroyed instance leaves behind, `MaxAddresses` the result of `getaddrinfo`.
The field widths are the smallest that keep the fields apart.

The remaining runs each state what a comment or header says and end in a
counterexample; `findings` in `PROJECT.json` quotes the text.

| Run | The code |
|---|---|
| `accept_cycle_ends` | `_process_accept` failing after `io_uring_cqe_seen` skips the decrement of `sqe_in_flight`, so that, at a quota of one, a single `epoll_ctl` failure ends the accept cycle its comment says is still live |
| `accept_after_shutdown` | accepts requested before `mcon_shutdown` still establish connections after it |
| `idle_shutdown` | a shutdown without connections never completes |
| `detach_enoent` | a detach that fails with `ENOENT` leaves an active session on the free stack |
| `in_flight_maximum` | SQEs a failed `io_uring_submit` left in the ring are submitted on top of the quota, or, if nothing else is popped, not at all |
| `foreign_error` | an event fetched before a close and processed between the kernel's close and its CQE passes the generation check; `getsockopt` then takes the error of the connection that has the descriptor now |

They also delimit the passing runs: with `DEREGISTER` a detach may fail with
`ENOENT`, so the faults run does not detach; with failing submissions the quota
may be exceeded, so that run checks `InFlightCounted` in place of
`InFlightBounded`; the `liveness` run has no failures
and no restart, for either may use up the quota (`accept_cycle_ends`).

## Proofs

### An instance at work

`MconProofs` proves, for every value of the constants allowed by the named
assumptions `ConfigAssumption` (what `mcon_config_validate` accepts and
`io_uring_queue_init` grants), `FdAssumption` and `EnvironmentAssumption`:

| Theorem | Statement |
|---|---|
| `Invariance` | `Spec => []IInv` |
| `TypeCorrect` | `Spec => []TypeOK` |
| `AcceptsCovered` | `Spec => []AcceptsAreCovered` |
| `CountedInFlight` | `Spec => []InFlightCounted` |
| `QuotaKept` | `Spec => []InFlightBounded`, if `io_uring_submit` does not fail |
| `MaximumKept` | `Spec => []InFlightMaximum`, and the completion ring has room whenever the kernel works on something, if `io_uring_submit` does not fail |
| `NoLostWakeup` | `Spec => []WakeupPending` |

The argument.  `AcceptsAreCovered` is about a cardinality: `acceptsLive` is the
number of accepts anywhere in the pipeline.  It is kept only if a step removes
from or adds to the outstanding SQEs what the counter says, and for that each
SQE must be in exactly one place: `StagesDisjoint` of `IoRing`.  Type
correctness rests on it in turn: `acceptsLive - 1` and `Tail(free)` in
`_process_accept`, and `sqeInFlight - 1`, stay in range because the CQE at the
head was counted, and `flags[session]` is in range because SQEs that are not
accepts name sessions.  So they are proved together:

    IInv == TypeOK /\ IoInv /\ AcceptsInv /\ QuotaInv /\ WakeupPending

`IoRingProofs` shows once what each pipeline operator does to `IoInv` and to
the set `Outstanding`; four lemmas (`AcceptsKept`, `AcceptsAdded`,
`AcceptRemoved`, `OperationRemoved`, and `OperationAdded` for pushes) turn a
change of `Outstanding` into one of `AcceptsInv`; `QuietStep`, `KernelStep`,
`HandlerStep` and `AcceptStep` combine them by kind of step, and one lemma per
action or group of actions leaves only the types of the other variables to show.

`MaximumKept` is the other side of the run `in_flight_maximum`: the claim of
`types.h` that run refutes holds as long as no submission fails.

### Sessions and descriptors

`MconSessionProofs` rests on the same three assumptions and on `IInv`:

| Theorem | Statement |
|---|---|
| `AcceptDemandKept` | `Spec => []AcceptDemandNotLost` |
| `SessionInvariance` | `Spec => []SInv` * |
| `FlagsTrue` | `Spec => []FlagsMatchPipeline` * |
| `NoStaleDescriptor` | `Spec => []OperationsKeepTheirSocket` * |
| `NoDescriptorLeaks` | `Spec => []DescriptorsHaveOneOwner` * |
| `FreeStackCorrect` | `Spec => []FreeStackExact` * |
| `StackCounted` | `Spec => []StackCountsFreeSessions` * |
| `SocketReleased` | `Spec => SocketReleasedOnce` * |
| `CloseNotStarved` | `Spec => [](a session is closing => ~TransfersHoldQuota)`, if `QueueSize > 2 * (SessionCount - 1)` * |

Those marked * assume `DetachFindsSocket`: the application does not both detach
sessions and take sockets out of the interest list itself (it may do either).
The code needs that.  `mcon_session_detach` returns the session to the stack
and then fails with `ENOENT`, the session still active, and TLC finds each of
`FlagsMatchPipeline`, `OperationsKeepTheirSocket`, `DescriptorsHaveOneOwner`,
`FreeStackExact`, `StackCountsFreeSessions`, `SocketReleasedOnce` and
`ImplementsApi` violated when `AppCalls` has both.  `StackCounted` states that
this is all it takes for the comment the run `detach_enoent` refutes.

The argument.  Each property alone is not inductive.  A descriptor is closed by
the kernel while the session still has it in `socket_fd`, and may be accepted
again before the CQE of the close is processed.  That the second session then
has it alone needs to know that the first is closing, and only closing (a
flag); that its operations are over (flags match the pipeline); and that the
session popped from the stack had no flag and no socket (the stack).  Hence

    SInv == FlagsInv /\ OwnersInv /\ FreeStackExact /\ WatchedInv /\ ModeInv

`FlagsInv` says flag for flag and SQE for SQE what `FlagsMatchPipeline` says of
sets.  `OwnersInv` splits the open descriptors between the sessions whose close
is not executed (`Holders`), the accepts posted but not processed and the
application.  `WatchedInv` is why a detach finds its socket; it is the one place
where the hypothesis is used.  `ModeInv` is needed for the step that completes a
shutdown.  Each part has lemmas that say what one event does to it (an operation
begins or ends, a socket is stored, a descriptor is opened, closed or handed
over), and the lemma of an action combines them.  The theorems then count:
`FlagsCounted`, `OwnersCounted` and `StackLength` go from the quantifiers of
`SInv` to the cardinalities of the properties.

`CloseNotStarved` says which quota rules out the exception of `ClosesComplete`:
by `FlagsInv` a closing session has no transfer and every other one at most two,
so transfers inject into the other sessions times two flags
(`TransfersOfOthers`).

`AcceptDemandKept` has no such hypothesis and needs `IInv` only: an accept
leaves the pipeline only in a handler that asks for the next one, except after
`EAGAIN`, which means that there was nothing to accept, and a connection that
arrives later makes an edge.

### The refinement

`MconImplementsProofs` proves, under `DetachFindsSocket`:

| Theorem | Statement |
|---|---|
| `Refinement` | `Spec => ImplementsApi`, that is `Spec => Api!Spec` under the mapping |
| `StoppedServesNobody` | `Spec => []StoppedIsIdle` |

The mapping reads what a session does off the SQEs in the pipeline.  The lemma
`DoingIs` turns that into its flags, with `FlagsInv`, so that a step that moves
SQEs from one stage to the next is a stutter because no flag changes, and a step
that raises or clears a flag is `Begin` or `Finish`.
Accepting pops a session that `FreeStackExact` says serves nobody.  Releasing
the last one completes the shutdown in the same step: `IdleIs` shows that
`mcon_active_session_count` is 0 exactly if nobody is connected.  There is one
lemma per action of `Mcon`.

`StoppedServesNobody` uses the refinement.  Of `SessionApi` it is a short
induction that a stopped instance has no connection; `Refinement` carries it over.

### Client socket events

`SessionEventsProofs`, from `SessionEventsAssumption`, for any number of sessions,
descriptors, generations and fetched events:

| Theorem | Statement |
|---|---|
| `Invariance` | `Spec => []Inv` |
| `TypeCorrect` | `Spec => []TypeOK` |
| `StaleMarked` | `Spec => []StaleEventsMarked` |
| `ReportedOnce` | `Spec => []HangupReportedOnce` |
| `MarksAreReal` | `Spec => []HangupsAreReal` |
| `NotLost` | `Spec => []HangupNotLost` |
| `NotSilenced` | `Spec => []MarkedIsReported` |

The argument.  `EventInv` says by how much the generation of an event's session
is ahead of the event's: by its age, modulo the wrap, so that `StaleEventsMarked`
is arithmetic.  `SocketInv` and `EntryInv` say that an open descriptor has
one session and one entry, which carries the present generation, so that what
`epoll_wait` returns is current.  `EventTrue` adds that an event of age 0 with RDHUP means that the client
did hang up, for RDHUP never goes away.  `HangupInv` links the mark and the
count: as long as the socket is open, a mark comes with a report.  All of it is inductive only together:

    Inv == TypeOK /\ SocketInv /\ EntryInv /\ EventInv
             /\ HangupInv /\ HangupsAreReal /\ HangupNotLost

### Epoll entries, instances, listening sockets

| Theorem | Statement |
|---|---|
| `DecodeEncode` (`EpollEntryProofs`) | `Decode(Encode(entry)) = entry` for every entry |
| `OwnershipExact`, `ForeignNotOwned` | an encoded event is owned under its id only, and an id other than 0 owns no foreign event |
| `IdInvariance` (`SetupProofs`) | `Spec => []IdInv` |
| `IdsDistinct`, `OneOwner`, `ForeignEvents`, `Cleanup` | the four properties of `Instances` |
| `ListenInvariance` | `Spec => []ListenInv` |
| `SocketsClosed`, `Fallback`, `ReturnedSocketValid` | the three properties of `ListeningSocket` |
| `TypeCorrect` | `Spec => []TypeOK` |

They rest on `WidthAssumption` (every field has a value, the source at least
four), `InstancesAssumption` and `ListeningAssumption`, and so hold for the
widths of the code as for those of the run.

`DecodeEncode` comes down to one lemma on two fields side by side
(`SideBySide`), applied once per field.  Ownership across instances needs to
know how far the counter is ahead of an id: `Behind(id, age)` says by age plus
one, modulo its range, and two different instances or tags never have the same
age below the wrap, so that equal ids mean a wrap.  A thread that got 0 stays
behind by at most `MaxOvertakes`, so its second id is not 0.  `ListenInv` ties
`opened`, `traits` and `tried` to the place between two system calls; that the
loops go on to the *next* address (the least one left) rests on the
well-foundedness of the naturals.

### What is only model-checked

Every safety and action property of every passing run is proved, and so is the
refinement.  With TLC stay:

- liveness: `ClosesComplete`, `AcceptsContinue`, `ShutdownCompletes` and
  `HangupsReported`.  They rest on fairness and ENABLED, which are beyond the
  prover;
- the counterexamples of the runs that refute a comment.  What is proved next to
  them are the conditions under which the comment holds (`StackCounted`,
  `MaximumKept`).

## Not modelled, and the plan

Not modelled:

- a `mcon_start` of a running instance on a second epoll instance; on the one it
  already runs on it fails and undoes itself;
- the order inside one priority class of the io_queue, which no property tells
  apart;
- a failing `io_uring_register_eventfd`, whose result `mcon_create` ignores: an
  instance that is never woken keeps none of the promises above;
- in `mcon_test_server`, the answer to a status command, which is text, and the
  one `accept` before `mcon_start`, which takes a client that is waiting and
  forgets its descriptor: the library never sees it;
- `mcon_client`, a load generator on blocking sockets that uses nothing of the
  library: to the server it is any client;
- tests and build files, which define no behaviour of the library.

Left to prove: that two more of the refuted claims hold where their
counterexample is excluded, as `StackCounted` and `MaximumKept` show for two:
`accept_after_shutdown` without accepts in flight at the shutdown, and
`foreign_error` without events fetched before a close.
