--------------------------- MODULE SessionEvents ----------------------------
(***************************************************************************)
(* The epoll events of client sockets.  An event is fetched by epoll_wait  *)
(* and processed later; meanwhile its connection may be closed and the     *)
(* session, or the descriptor, given to another one.  The generation of a  *)
(* session tells such a stale event from a current one.                    *)
(*                                                                         *)
(* What happens to the sessions is what SessionApi, which Mcon implements, *)
(* lets happen; reads and writes matter only for the conditions they clear.*)
(* The mode of the instance plays no part here.                            *)
(***************************************************************************)
EXTENDS Integers, FiniteSets

CONSTANTS
    Sessions,
    Fds,          \* descriptors of client sockets
    NoFd,         \* -1
    Generations,  \* how many generations there are: 256
    Capacities,   \* values of max_events the application passes
    EdgeModes,    \* values of edge_triggered_client_events
    ClientDoes,   \* what clients do, from AllClientActions
    MaxFetched    \* bound: events the application has not processed yet

(* MCON_CLIENT_SOCKET_SUBSCRIBED_EVENTS *)
Conditions == {"IN", "HUP", "RDHUP", "ERR"}

(* A client sends, ends its side of the connection, or aborts it: the      *)
(* conditions this raises.                                                 *)
AllClientActions == {{"IN"}, {"IN", "RDHUP"}, Conditions}

ASSUME SessionEventsAssumption ==
    /\ NoFd \notin Fds
    /\ Generations \in Nat \ {0}
    /\ Capacities \subseteq Nat
    /\ EdgeModes \subseteq BOOLEAN
    /\ ClientDoes \subseteq AllClientActions
    /\ MaxFetched \in Nat

VARIABLES
    connected, doing,  \* as in SessionApi
    sock,              \* socket_fd of each session
    generation,        \* generation of each session
    rdhup,             \* sessions with MCON_SESSION_STATE_RDHUP
    arrived,           \* accepted descriptors without a session yet
    executed,          \* sessions whose CLOSE the kernel has executed
    conds,             \* what poll would report for a descriptor
    interest,          \* the interest list
    ready,             \* its ready list, of use when edge triggered
    edgeTriggered,     \* configuration.edge_triggered_client_events
    fetched,           \* events returned by epoll_wait, not yet processed
    hangups,           \* REMOTE_HANGUPs reported for the current connection
    misled             \* sessions that took an event as old as Generations

apiVars == <<connected, doing>>
sessionVars == <<sock, generation, rdhup>>
kernelVars == <<arrived, executed, conds, interest, ready>>
historyVars == <<hangups, misled>>
vars == <<apiVars, sessionVars, kernelVars, edgeTriggered, fetched, historyVars>>

Api == INSTANCE SessionApi WITH mode <- "running"

(* What mcon_encode_epoll_entry keeps of a session, by descriptor.         *)
Entries == [fd : Fds, session : Sessions, generation : 0 .. Generations - 1]

(* An event, and how often its session was released since it was fetched,  *)
(* counted up to Generations.                                              *)
Events == [session : Sessions, generation : 0 .. Generations - 1,
           conds : SUBSET Conditions, age : 0 .. Generations]

TypeOK ==
    /\ connected \subseteq Sessions
    /\ doing \in [Sessions -> SUBSET {"close"}]
    /\ sock \in [Sessions -> Fds \cup {NoFd}]
    /\ generation \in [Sessions -> 0 .. Generations - 1]
    /\ rdhup \subseteq Sessions
    /\ arrived \subseteq Fds
    /\ executed \subseteq Sessions
    /\ conds \in [Fds -> SUBSET Conditions]
    /\ interest \subseteq Entries
    /\ ready \subseteq Fds
    /\ edgeTriggered \in BOOLEAN
    /\ fetched \subseteq Events
    /\ hangups \in [Sessions -> Nat]
    /\ misled \subseteq Sessions

(* session_init; nothing is connected. *)
Init ==
    /\ connected = {}
    /\ doing = [s \in Sessions |-> {}]
    /\ sock = [s \in Sessions |-> NoFd]
    /\ generation = [s \in Sessions |-> 0]
    /\ rdhup = {}
    /\ arrived = {} /\ executed = {}
    /\ conds = [fd \in Fds |-> {}]
    /\ interest = {} /\ ready = {}
    /\ edgeTriggered \in EdgeModes
    /\ fetched = {}
    /\ hangups = [s \in Sessions |-> 0]
    /\ misled = {}

-----------------------------------------------------------------------------
(* Helpers *)

(* Sessions whose socket is open. *)
Alive == connected \ executed

Open == {sock[s] : s \in Alive} \cup arrived

Watched == {i.fd : i \in interest}

(* Mutants: the generation wraps one too early, or never. *)
NextGeneration_Early(g) == IF g + 2 >= Generations THEN 0 ELSE g + 1
NextGeneration_Endless(g) == g + 1

(* The rollover of session_reset_after_close. *)
NextGeneration(g) == IF g = Generations - 1 THEN 0 ELSE g + 1

Older(e, s) ==
    IF e.session = s /\ e.age < Generations THEN [e EXCEPT !.age = @ + 1] ELSE e

(* session_reset_after_close *)
ResetAfterClose(s) ==
    /\ sock' = [sock EXCEPT ![s] = NoFd]
    /\ generation' = [generation EXCEPT ![s] = NextGeneration(@)]
    /\ fetched' = {Older(e, s) : e \in fetched}
    /\ UNCHANGED rdhup

ClearState_Missing(s) == UNCHANGED rdhup  \* mutant

ClearState(s) == rdhup' = rdhup \ {s}

(* session_prep_for_new_client *)
PrepForNewClient(s, fd) ==
    /\ sock' = [sock EXCEPT ![s] = fd]
    /\ ClearState(s)
    /\ UNCHANGED generation

(* The socket leaves the interest list, and the sight of this module.      *)
Unwatch(fd) ==
    /\ interest' = {i \in interest : i.fd # fd}
    /\ ready' = ready \ {fd}
    /\ conds' = [conds EXCEPT ![fd] = {}]

-----------------------------------------------------------------------------
(* The sessions: completions of accepts and closes, calls of the           *)
(* application.                                                            *)

(* The end of _process_accept: the entry carries the session's generation. *)
ProcessAccept(s, fd) ==
    /\ fd \in arrived
    /\ Api!Accept(s)
    /\ arrived' = arrived \ {fd}
    /\ interest' = interest \cup
         {[fd |-> fd, session |-> s, generation |-> generation[s]]}
    /\ ready' = IF edgeTriggered /\ conds[fd] # {} THEN ready \cup {fd} ELSE ready
    /\ PrepForNewClient(s, fd)
    /\ hangups' = [hangups EXCEPT ![s] = 0]
    /\ misled' = misled \ {s}
    /\ UNCHANGED <<executed, conds, edgeTriggered, fetched>>

RequestClose(s) ==
    /\ Api!Begin(s, "close")
    /\ UNCHANGED <<sessionVars, kernelVars, edgeTriggered, fetched, historyVars>>

(* _process_close *)
ProcessClose(s) ==
    /\ s \in executed
    /\ Api!Release(s)
    /\ ResetAfterClose(s)
    /\ executed' = executed \ {s}
    /\ UNCHANGED <<arrived, conds, interest, ready, edgeTriggered, historyVars>>

(* mcon_session_detach.  The socket is no business of the library any      *)
(* more: the application may close it at once.                             *)
Detach(s) ==
    /\ doing[s] = {}
    /\ Api!Release(s)
    /\ ResetAfterClose(s)
    /\ Unwatch(sock[s])
    /\ UNCHANGED <<arrived, executed, edgeTriggered, historyVars>>

-----------------------------------------------------------------------------
(* mcon_process_session_event *)

(* Mutants: a stale event is not recognised; a hang-up is not remembered.  *)
IsStale_Never(e) == FALSE
MarkHangup_Missing(e) == UNCHANGED rdhup

IsStale(e) == e.generation # generation[e.session]

(* state |= MCON_SESSION_STATE_RDHUP *)
MarkHangup(e) ==
    rdhup' = IF "RDHUP" \in e.conds THEN rdhup \cup {e.session} ELSE rdhup

(* getsockopt clears the error it reads; it fails with EBADF when the      *)
(* descriptor is closed, and what was produced so far is not returned.     *)
ReadsError(e) == "ERR" \in e.conds

GetsockoptFails_Always(e) == ReadsError(e)  \* mutant: called wrongly

GetsockoptFails(e) == ReadsError(e) /\ sock[e.session] \notin Open

ReadError(e) ==
    conds' = IF ReadsError(e) /\ ~GetsockoptFails(e)
             THEN [conds EXCEPT ![sock[e.session]] = @ \ {"ERR"}] ELSE conds

ReportsHangup_AfterMark(e) ==  \* mutant: the session is marked first
    "RDHUP" \in e.conds /\ e.session \notin rdhup'

ReportsHangup(e) ==
    "RDHUP" \in e.conds /\ e.session \notin rdhup /\ ~GetsockoptFails(e)

ProcessSessionEvent(e) ==
    /\ \E max_events \in Capacities : Cardinality(e.conds) <= max_events
    /\ fetched' = fetched \ {e}
    /\ IF IsStale(e)
         THEN UNCHANGED <<rdhup, conds, hangups, misled>>
         ELSE /\ MarkHangup(e)
              /\ ReadError(e)
              /\ hangups' = [hangups EXCEPT
                                ![e.session] = @ + IF ReportsHangup(e) THEN 1 ELSE 0]
              /\ misled' = IF e.age = Generations THEN misled \cup {e.session}
                           ELSE misled
    /\ UNCHANGED <<apiVars, sock, generation, arrived, executed, interest, ready,
                   edgeTriggered>>

-----------------------------------------------------------------------------
(* The kernel and the clients *)

(* An accept SQE finds a connection.  The descriptor is any that is free.  *)
KernelAccept(fd) ==
    /\ fd \notin Open
    /\ arrived' = arrived \cup {fd}
    /\ UNCHANGED <<apiVars, sessionVars, executed, conds, interest, ready,
                   edgeTriggered, fetched, historyVars>>

KernelClose(s) ==
    /\ "close" \in doing[s] /\ s \notin executed
    /\ executed' = executed \cup {s}
    /\ Unwatch(sock[s])
    /\ UNCHANGED <<apiVars, sessionVars, arrived, edgeTriggered, fetched,
                   historyVars>>

(* epoll_wait returns a descriptor with all its conditions, and in edge    *)
(* triggered mode not again before the next edge.                          *)
EpollWait(fd) ==
    /\ Cardinality(fetched) < MaxFetched
    /\ conds[fd] # {}
    /\ edgeTriggered => fd \in ready
    /\ \E i \in interest :
         /\ i.fd = fd
         /\ fetched' = fetched \cup
              {[session |-> i.session, generation |-> i.generation,
                conds |-> conds[fd], age |-> 0]}
    /\ ready' = ready \ {fd}
    /\ UNCHANGED <<apiVars, sessionVars, arrived, executed, conds, interest,
                   edgeTriggered, historyVars>>

(* Nothing follows an abort, and only that the end of the stream. *)
ClientActs(fd, C) ==
    /\ fd \in Open
    /\ "HUP" \notin conds[fd]
    /\ "RDHUP" \in conds[fd] => C = Conditions
    /\ conds' = [conds EXCEPT ![fd] = @ \cup C]
    /\ ready' = IF edgeTriggered /\ fd \in Watched THEN ready \cup {fd} ELSE ready
    /\ UNCHANGED <<apiVars, sessionVars, arrived, executed, interest,
                   edgeTriggered, fetched, historyVars>>

(* A read, write or drain of the session consumes what was received, up to *)
(* the end of the stream, or fails with the pending error.                 *)
Transfer(s, c) ==
    /\ s \in Alive
    /\ doing[s] = {}
    /\ c \in conds[sock[s]]
    /\ c \in {"IN", "ERR"}
    /\ c = "IN" => "RDHUP" \notin conds[sock[s]]
    /\ conds' = [conds EXCEPT ![sock[s]] = @ \ {c}]
    /\ UNCHANGED <<apiVars, sessionVars, arrived, executed, interest, ready,
                   edgeTriggered, fetched, historyVars>>

-----------------------------------------------------------------------------
SessionStep ==
    \/ \E s \in Sessions, fd \in Fds : ProcessAccept(s, fd)
    \/ \E s \in Sessions : RequestClose(s)
    \/ \E s \in Sessions : ProcessClose(s)
    \/ \E s \in Sessions : Detach(s)

Environment ==
    \/ \E fd \in Fds : KernelAccept(fd)
    \/ \E s \in Sessions : KernelClose(s)
    \/ \E fd \in Fds : EpollWait(fd)
    \/ \E fd \in Fds, C \in ClientDoes : ClientActs(fd, C)
    \/ \E s \in Sessions, c \in Conditions : Transfer(s, c)

Next ==
    \/ SessionStep
    \/ \E e \in fetched : ProcessSessionEvent(e)
    \/ Environment

(* The application's loop fetches whatever there is and processes what it  *)
(* has fetched: an event that is refused for want of room (ENOBUFS) is     *)
(* processed with more room the next time.                                 *)
Fairness ==
    /\ \A fd \in Fds : SF_vars(EpollWait(fd))
    /\ \A s \in Sessions :
         WF_vars(\E e \in fetched : e.session = s /\ ProcessSessionEvent(e))

Spec == Init /\ [][Next]_vars
FairSpec == Spec /\ Fairness

-----------------------------------------------------------------------------
(* Properties *)

(* As long as a session was released less than Generations times since an  *)
(* event was fetched, the event is processed if and only if its connection *)
(* is still the one the session serves: no leftover event is taken for one *)
(* of the next client, and no current event is thrown away.                *)
StaleEventsMarked ==
    \A e \in fetched : e.age < Generations => (IsStale(e) <=> e.age > 0)

(* REMOTE_HANGUP is reported at most once for a connection, so that an     *)
(* application that closes the session upon it closes it once.             *)
HangupReportedOnce == \A s \in Sessions : hangups[s] <= 1

(* A session that is marked as hung up serves a connection that its client *)
(* did hang up, unless an event as old as Generations misled it: neither   *)
(* the mark nor a stale event survives from the connection before.         *)
HangupsAreReal ==
    \A s \in Alive : s \in rdhup \ misled => "RDHUP" \in conds[sock[s]]

(* A hang-up is never forgotten while the session is open, although it is  *)
(* signalled by one edge, its event may fail to be processed, and a mark   *)
(* suppresses it: it was reported, or an event or an edge is still to come.*)
HangupNotLost ==
    \A s \in Alive : "RDHUP" \in conds[sock[s]] /\ hangups[s] = 0 =>
        \/ ~edgeTriggered \/ sock[s] \in ready
        \/ \E e \in fetched :
             e.session = s /\ ~IsStale(e) /\ "RDHUP" \in e.conds

(* A mark suppresses every further report.  So a session that is marked    *)
(* has reported its hang-up, although the event that sets the mark may     *)
(* fail and return nothing: that happens only to a connection which the    *)
(* application is closing already.                                         *)
MarkedIsReported ==
    \A s \in connected : s \in rdhup => hangups[s] > 0 \/ "close" \in doing[s]

(* A client's hang-up is eventually reported, or the application released  *)
(* the session or is closing it.                                           *)
HangupsReported ==
    \A s \in Sessions :
        (s \in Alive /\ "RDHUP" \in conds[sock[s]])
        ~> (hangups[s] > 0 \/ s \notin connected \/ doing[s] # {})

(* session_helpers.c:18: the generation causes "any stale or leftover      *)
(* events to be discarded"; event.h:29-30, CLIENT_ERROR: "A socket error   *)
(* happened on the socket connection to the client".  So the error that is *)
(* read, and cleared, is one of the connection the session serves.         *)
ErrorsAreOwn ==
    \A e \in fetched :
        ReadsError(e) /\ ~IsStale(e) /\ ~GetsockoptFails(e) => e.session \in Alive
=============================================================================
