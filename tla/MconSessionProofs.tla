-------------------------- MODULE MconSessionProofs --------------------------
(***************************************************************************)
(* Theorems about the sessions of an instance and the descriptors of its   *)
(* clients.  SInv is inductive next to the IInv of MconProofs; it says     *)
(* with quantifiers what the invariants of MconProperties count, for a     *)
(* step then adds or removes one element on each side.                     *)
(***************************************************************************)
EXTENDS MconProofs

(* mcon_session_detach always finds the socket in the interest list: the   *)
(* application does not take it out behind the library's back.  The run    *)
(* detach_enoent shows what happens otherwise.                             *)
DetachFindsSocket == ~ ({"DETACH", "DEREGISTER"} \subseteq AppCalls)

(* The SQEs that session operations pushed and that are not yet processed. *)
Operations == {e \in Outstanding : e.op # "ACCEPT"}

(* The sessions that answer for their socket. *)
Holders == {s \in Sessions : IsActive(s) /\ ~CloseExecuted(s)}

(* The CQEs that carry a connection nobody has seen yet. *)
Accepted == {c \in Posted : c.res \in Fds}

(* A flag is raised exactly as long as its operation is outstanding, and   *)
(* an outstanding operation names the socket of its session.               *)
FlagsInv ==
    /\ \A e \in Operations :
          FlagOf[e.op] \in flags[e.session] /\ e.fd = sock[e.session]
    /\ \A e, f \in Operations :
          e.session = f.session /\ FlagOf[e.op] = FlagOf[f.op] => e = f
    /\ \A s \in Sessions : \A flag \in flags[s] :
          \E e \in Operations : e.session = s /\ FlagOf[e.op] = flag
    /\ \A s \in Sessions : "CLOSING" \in flags[s] => flags[s] = {"CLOSING"}
    /\ \A s \in Sessions : ~IsActive(s) => flags[s] = {}

(* The open descriptors are split between sessions, accepts to be          *)
(* processed and the application.                                          *)
OwnersInv ==
    /\ \A s \in Holders : sock[s] \in open \ appFds
    /\ \A c \in Accepted : c.res \in open \ appFds
    /\ appFds \subseteq open
    /\ \A s \in Holders, c \in Accepted : sock[s] # c.res
    /\ \A s, t \in Holders : sock[s] = sock[t] => s = t
    /\ \A c, d \in Accepted : c.res = d.res => c = d
    /\ \A fd \in open \ appFds :
          (\E s \in Holders : sock[s] = fd) \/ (\E c \in Accepted : c.res = fd)

(* A socket that can be detached is in the interest list. *)
WatchedInv == "DETACH" \in AppCalls => \A s \in Holders : sock[s] \in watched

(* Only a started instance is shutting down. *)
ModeInv == isShuttingDown => Started

SInv == FlagsInv /\ OwnersInv /\ FreeStackExact /\ WatchedInv /\ ModeInv

-----------------------------------------------------------------------------
(* Facts about types *)

(* What is outstanding are SQEs, and only a close raises CLOSING. *)
LEMMA OperationsType ==
    ASSUME IInv
    PROVE  \A e \in Operations :
              /\ e \in Sqes
              /\ e.op \in SessionOps
              /\ e.session \in Sessions
              /\ FlagOf[e.op] \in Flags
              /\ FlagOf[e.op] = "CLOSING" <=> e.op = "CLOSE"
<1>1. Outstanding \subseteq Sqes
    <2>1. CompletedSqes \subseteq Sqes
        BY PostedSqes DEF IInv, Cqes
    <2>. QED
        BY <2>1 DEF Outstanding, Unexecuted, IInv, IoInv, IoTypeOK
<1>2. \A e \in Operations : e.op \in SessionOps
    BY <1>1 DEF Operations, Sqes, Ops, SessionOps
<1>3. \A op \in SessionOps :
         FlagOf[op] \in Flags /\ (FlagOf[op] = "CLOSING" <=> op = "CLOSE")
    BY DEF SessionOps, FlagOf, Flags
<1>. QED
    BY <1>1, <1>2, <1>3 DEF Operations, IInv, AcceptsInv

LEMMA SessionsType ==
    ASSUME IInv
    PROVE  /\ sock \in [Sessions -> Fds \cup {NoFd}]
           /\ flags \in [Sessions -> SUBSET Flags]
           /\ free \in Seq(Sessions)
BY DEF IInv, TypeOK, SessionTypeOK

-----------------------------------------------------------------------------
(* The three ways the flags, the sockets and the operations change. *)

(* VALIDATE_ARGS let an operation through: its flag was not raised, and a  *)
(* close finds none raised.                                                *)
LEMMA ValidArgsOK ==
    ASSUME IInv, NEW op \in SessionOps, NEW s \in Sessions, ValidArgs(s, op)
    PROVE  /\ IsActive(s)
           /\ FlagOf[op] \notin flags[s]
           /\ "CLOSING" \notin flags[s]
           /\ op = "CLOSE" => flags[s] = {}
<1>1. FlagOf[op] \in Incompatible[op] /\ "CLOSING" \in Incompatible[op]
    BY DEF SessionOps, FlagOf, Incompatible, Flags
<1>2. op = "CLOSE" => Incompatible[op] = Flags
    BY DEF Incompatible
<1>3. flags[s] \subseteq Flags
    BY SessionsType
<1>. QED
    BY <1>1, <1>2, <1>3 DEF ValidArgs

LEMMA FlagsAfterBegin ==
    ASSUME IInv, FlagsInv, NEW e, e.op \in SessionOps, e.session \in Sessions,
           e.fd = sock[e.session], ValidArgs(e.session, e.op),
           Operations' = Operations \cup {e}, UNCHANGED sock,
           flags' = [flags EXCEPT ![e.session] = @ \cup {FlagOf[e.op]}]
    PROVE  FlagsInv'
<1>. DEFINE s == e.session
            flag == FlagOf[e.op]
<1>1. /\ IsActive(s) /\ flag \notin flags[s] /\ "CLOSING" \notin flags[s]
      /\ e.op = "CLOSE" => flags[s] = {}
    BY ValidArgsOK
<1>2. /\ flags'[s] = flags[s] \cup {flag}
      /\ \A t \in Sessions : t # s => flags'[t] = flags[t]
    BY SessionsType
<1>3. flag = "CLOSING" => e.op = "CLOSE"
    BY DEF FlagOf, SessionOps
<1>4. \A f \in Operations : f.session \in Sessions
    BY OperationsType
<1>. HIDE DEF s, flag
<1>5. \A f \in Operations' : FlagOf[f.op] \in flags'[f.session] /\ f.fd = sock'[f.session]
    BY <1>2, <1>4 DEF FlagsInv, s, flag
<1>6. \A f, g \in Operations' :
         f.session = g.session /\ FlagOf[f.op] = FlagOf[g.op] => f = g
    BY <1>1 DEF FlagsInv, s, flag
<1>7. ASSUME NEW t \in Sessions, NEW x \in flags'[t]
      PROVE  \E f \in Operations' : f.session = t /\ FlagOf[f.op] = x
    BY <1>2 DEF FlagsInv, s, flag
<1>8. \A t \in Sessions : "CLOSING" \in flags'[t] => flags'[t] = {"CLOSING"}
    BY <1>1, <1>2, <1>3 DEF FlagsInv
<1>9. \A t \in Sessions : ~IsActive(t)' => flags'[t] = {}
    BY <1>1, <1>2 DEF FlagsInv, IsActive
<1>. QED
    BY <1>5, <1>6, <1>7, <1>8, <1>9 DEF FlagsInv

LEMMA FlagsAfterEnd ==
    ASSUME IInv, FlagsInv, NEW e \in Operations, Operations' = Operations \ {e},
           flags' = [flags EXCEPT ![e.session] = @ \ {FlagOf[e.op]}],
           \/ UNCHANGED sock
           \/ e.op = "CLOSE" /\ sock' = [sock EXCEPT ![e.session] = NoFd]
    PROVE  FlagsInv'
<1>. DEFINE s == e.session
            flag == FlagOf[e.op]
<1>1. s \in Sessions /\ flag \in flags[s] /\ (e.op = "CLOSE" => flag = "CLOSING")
    BY OperationsType DEF FlagsInv
<1>2. /\ flags'[s] = flags[s] \ {flag}
      /\ \A t \in Sessions : t # s => flags'[t] = flags[t] /\ sock'[t] = sock[t]
    BY <1>1, SessionsType
<1>3. /\ \A f \in Operations : f.session \in Sessions
      /\ \A f \in Operations' : f \in Operations /\ f # e
    BY OperationsType
<1>4. e.op = "CLOSE" => flags'[s] = {} /\ \A f \in Operations' : f.session # s
    BY <1>1, <1>2, <1>3 DEF FlagsInv
<1>5. sock'[s] = sock[s] \/ e.op = "CLOSE"
    OBVIOUS
<1>. HIDE DEF s, flag
<1>6. \A f \in Operations' : FlagOf[f.op] \in flags'[f.session] /\ f.fd = sock'[f.session]
    <2>. SUFFICES ASSUME NEW f \in Operations'
                  PROVE  FlagOf[f.op] \in flags'[f.session] /\ f.fd = sock'[f.session]
        OBVIOUS
    <2>1. CASE f.session = s
        BY <1>2, <1>3, <1>4, <1>5, <2>1 DEF FlagsInv, s, flag
    <2>2. CASE f.session # s
        BY <1>2, <1>3, <2>2 DEF FlagsInv
    <2>. QED
        BY <2>1, <2>2
<1>7. \A f, g \in Operations' :
         f.session = g.session /\ FlagOf[f.op] = FlagOf[g.op] => f = g
    BY <1>3 DEF FlagsInv
<1>8. ASSUME NEW t \in Sessions, NEW x \in flags'[t]
      PROVE  \E f \in Operations' : f.session = t /\ FlagOf[f.op] = x
    <2>1. x \in flags[t]
        BY <1>2
    <2>2. PICK f \in Operations : f.session = t /\ FlagOf[f.op] = x
        BY <2>1 DEF FlagsInv
    <2>3. f # e
        BY <1>2, <2>2 DEF s, flag
    <2>. QED
        BY <2>2, <2>3
<1>9. \A t \in Sessions : "CLOSING" \in flags'[t] => flags'[t] = {"CLOSING"}
    BY <1>1, <1>2 DEF FlagsInv
<1>10. \A t \in Sessions : ~IsActive(t)' => flags'[t] = {}
    BY <1>2, <1>4, <1>5 DEF FlagsInv, IsActive
<1>. QED
    BY <1>6, <1>7, <1>8, <1>9, <1>10 DEF FlagsInv

(* An idle session gets a socket or loses it. *)
LEMMA FlagsAfterSocket ==
    ASSUME IInv, FlagsInv, NEW s \in Sessions, flags[s] = {}, NEW fd,
           UNCHANGED <<Operations, flags>>, sock' = [sock EXCEPT ![s] = fd]
    PROVE  FlagsInv'
<1>1. \A e \in Operations : e.session \in Sessions /\ e.session # s
    BY OperationsType DEF FlagsInv
<1>2. \A t \in Sessions : t # s => sock'[t] = sock[t]
    BY SessionsType
<1>3. \A e \in Operations' : FlagOf[e.op] \in flags'[e.session] /\ e.fd = sock'[e.session]
    BY <1>1, <1>2 DEF FlagsInv
<1>4. \A t \in Sessions : ~IsActive(t)' => flags'[t] = {}
    BY <1>2 DEF FlagsInv, IsActive
<1>. QED
    BY <1>3, <1>4 DEF FlagsInv

LEMMA FlagsKept ==
    ASSUME FlagsInv, UNCHANGED <<Operations, flags, sock>>
    PROVE  FlagsInv'
BY DEF FlagsInv, IsActive

-----------------------------------------------------------------------------
(* The ways a descriptor passes from one owner to another. *)

LEMMA OwnersKept ==
    ASSUME OwnersInv, UNCHANGED <<Holders, Accepted, open, appFds>>,
           \A s \in Holders : sock'[s] = sock[s]
    PROVE  OwnersInv'
BY DEF OwnersInv

(* The kernel opens a descriptor and posts it. *)
LEMMA OwnersAfterOpen ==
    ASSUME OwnersInv, NEW c, c.res \notin open, Accepted' = Accepted \cup {c},
           open' = open \cup {c.res}, UNCHANGED <<Holders, appFds, sock>>
    PROVE  OwnersInv'
<1>1. c.res \notin appFds /\ appFds \subseteq open
    BY DEF OwnersInv
<1>2. \A fd \in open' \ appFds' :
         (\E s \in Holders' : sock'[s] = fd) \/ (\E d \in Accepted' : d.res = fd)
    BY <1>1 DEF OwnersInv
<1>. QED
    BY <1>1, <1>2 DEF OwnersInv

(* The kernel closes the socket of a session. *)
LEMMA OwnersAfterClose ==
    ASSUME OwnersInv, NEW s \in Holders, Holders' = Holders \ {s},
           open' = open \ {sock[s]}, UNCHANGED <<Accepted, appFds, sock>>
    PROVE  OwnersInv'
<1>1. \A fd \in open' \ appFds' :
         (\E t \in Holders' : sock'[t] = fd) \/ (\E c \in Accepted' : c.res = fd)
    BY DEF OwnersInv
<1>. QED
    BY <1>1 DEF OwnersInv

(* _process_accept closes a connection it cannot register. *)
LEMMA OwnersAfterRefusal ==
    ASSUME OwnersInv, NEW c \in Accepted, Accepted' = Accepted \ {c},
           open' = open \ {c.res}, UNCHANGED <<Holders, appFds, sock>>
    PROVE  OwnersInv'
<1>1. \A fd \in open' \ appFds' :
         (\E t \in Holders' : sock'[t] = fd) \/ (\E d \in Accepted' : d.res = fd)
    BY DEF OwnersInv
<1>. QED
    BY <1>1 DEF OwnersInv

(* _process_accept gives a connection to a session. *)
LEMMA OwnersAfterAccept ==
    ASSUME OwnersInv, NEW c \in Accepted, Accepted' = Accepted \ {c},
           NEW s, s \notin Holders, Holders' = Holders \cup {s}, sock'[s] = c.res,
           \A t \in Holders : sock'[t] = sock[t], UNCHANGED <<open, appFds>>
    PROVE  OwnersInv'
<1>1. \A fd \in open' \ appFds' :
         (\E t \in Holders' : sock'[t] = fd) \/ (\E d \in Accepted' : d.res = fd)
    BY DEF OwnersInv
<1>2. \A t \in Holders', d \in Accepted' : sock'[t] # d.res
    BY DEF OwnersInv
<1>. QED
    BY <1>1, <1>2 DEF OwnersInv

(* The application takes a session's socket over. *)
LEMMA OwnersAfterDetach ==
    ASSUME OwnersInv, NEW s \in Holders, Holders' = Holders \ {s},
           appFds' = appFds \cup {sock[s]}, UNCHANGED <<Accepted, open>>,
           \A t \in Holders' : sock'[t] = sock[t]
    PROVE  OwnersInv'
<1>1. \A fd \in open' \ appFds' :
         (\E t \in Holders' : sock'[t] = fd) \/ (\E c \in Accepted' : c.res = fd)
    BY DEF OwnersInv
<1>. QED
    BY <1>1 DEF OwnersInv

(* The application closes a descriptor of its own. *)
LEMMA OwnersAfterAppClose ==
    ASSUME OwnersInv, NEW fd \in appFds, appFds' = appFds \ {fd},
           open' = open \ {fd}, UNCHANGED <<Holders, Accepted, sock>>
    PROVE  OwnersInv'
BY DEF OwnersInv

-----------------------------------------------------------------------------
(* Who holds a socket and what was accepted, as the completion ring moves. *)

(* A close that was not yet executed leaves its session a holder. *)
LEMMA OperationHolds ==
    ASSUME IInv, FlagsInv, NEW e \in Operations, e \notin CompletedSqes
    PROVE  e.session \in Holders
<1>1. e.session \in Sessions /\ IsActive(e.session)
    BY OperationsType DEF FlagsInv
<1>2. ASSUME NEW f \in CompletedSqes, f.op = "CLOSE", f.session = e.session
      PROVE  FALSE
    <2>1. f \in Operations /\ FlagOf[f.op] = "CLOSING"
        BY <1>2 DEF Operations, Outstanding, FlagOf
    <2>2. FlagOf[e.op] = "CLOSING"
        BY <1>1, <1>2, <2>1 DEF FlagsInv
    <2>. QED
        BY <1>2, <2>1, <2>2 DEF FlagsInv
<1>. QED
    BY <1>1, <1>2 DEF Holders, CloseExecuted

(* So does a session that nothing is outstanding for. *)
LEMMA IdleHolds ==
    ASSUME IInv, FlagsInv, NEW s \in Sessions, IsActive(s), flags[s] = {}
    PROVE  s \in Holders
<1>1. \A f \in CompletedSqes : f.op = "CLOSE" => f.session # s
    <2>. SUFFICES ASSUME NEW f \in CompletedSqes, f.op = "CLOSE", f.session = s
                  PROVE  FALSE
        OBVIOUS
    <2>1. f \in Operations
        BY DEF Operations, Outstanding
    <2>. QED
        BY <2>1 DEF FlagsInv
<1>. QED
    BY <1>1 DEF Holders, CloseExecuted

LEMMA HoldersType ==
    ASSUME IInv
    PROVE  \A s \in Holders : s \in Sessions /\ sock[s] \in Fds
BY SessionsType DEF Holders, IsActive

(* The kernel completes an SQE. *)
LEMMA HoldersAfterComplete ==
    ASSUME IInv, FlagsInv, NEW e, NEW r \in Fds \cup Codes, Complete(e, r), UNCHANGED sock
    PROVE  /\ e.op # "CLOSE" => Holders' = Holders
           /\ e.op = "CLOSE" => /\ e.session \in Holders
                                /\ e.fd = sock[e.session]
                                /\ Holders' = Holders \ {e.session}
           /\ r \notin Fds => Accepted' = Accepted
           /\ r \in Fds => Accepted' = Accepted \cup {[sqe |-> e, res |-> r]}
<1>1. /\ e \in Outstanding /\ e \notin CompletedSqes
      /\ Posted' = Posted \cup {[sqe |-> e, res |-> r]}
      /\ CompletedSqes' = CompletedSqes \cup {e}
    BY PostedByComplete DEF IInv, Outstanding
<1>2. \A s \in Sessions : CloseExecuted(s)' <=> CloseExecuted(s) \/ (e.op = "CLOSE" /\ e.session = s)
    BY <1>1 DEF CloseExecuted
<1>3. Holders' = {s \in Holders : ~ (e.op = "CLOSE" /\ e.session = s)}
    BY <1>2 DEF Holders, IsActive
<1>4. e.op = "CLOSE" => e.session \in Holders /\ e.fd = sock[e.session]
    BY <1>1, OperationHolds DEF Operations, FlagsInv
<1>5. r \notin Fds => Accepted' = Accepted
    BY <1>1 DEF Accepted
<1>6. r \in Fds => Accepted' = Accepted \cup {[sqe |-> e, res |-> r]}
    BY <1>1 DEF Accepted
<1>. QED
    BY <1>3, <1>4, <1>5, <1>6

(* The handler consumes a CQE that is not a close's. *)
LEMMA HoldersAfterConsume ==
    ASSUME IInv, cq # <<>>, cq' = Tail(cq), Cqe.sqe.op # "CLOSE"
    PROVE  /\ \A s \in Sessions : CloseExecuted(s)' <=> CloseExecuted(s)
           /\ Cqe.res \notin Fds => Accepted' = Accepted
           /\ Cqe.res \in Fds => Cqe \in Accepted /\ Accepted' = Accepted \ {Cqe}
<1>1. /\ Cqe \in Posted /\ Posted' = Posted \ {Cqe}
      /\ CompletedSqes' = CompletedSqes \ {Cqe.sqe}
    BY PostedByConsume DEF IInv, Cqe
<1>2. \A s \in Sessions : CloseExecuted(s)' <=> CloseExecuted(s)
    BY <1>1 DEF CloseExecuted
<1>3. Cqe.res \notin Fds => Accepted' = Accepted
    BY <1>1 DEF Accepted
<1>4. Cqe.res \in Fds => Cqe \in Accepted /\ Accepted' = Accepted \ {Cqe}
    BY <1>1 DEF Accepted
<1>. QED
    BY <1>2, <1>3, <1>4

-----------------------------------------------------------------------------
(* The free stack *)

LEMMA FreeAfterPush ==
    ASSUME IInv, FreeStackExact, NEW s \in Sessions, IsActive(s),
           free' = PushFree(s), sock' = [sock EXCEPT ![s] = NoFd]
    PROVE  FreeStackExact'
<1>1. /\ DOMAIN free = 1 .. Len(free) /\ Len(free) \in Nat
      /\ DOMAIN free' = 1 .. Len(free) + 1
      /\ free'[1] = s
      /\ \A i \in 1 .. Len(free) : i + 1 \in DOMAIN free' /\ free'[i + 1] = free[i]
      /\ \A i \in DOMAIN free' : i # 1 => i - 1 \in DOMAIN free /\ free'[i] = free[i - 1]
    BY SessionsType DEF PushFree
<1>2. \A i \in DOMAIN free : free[i] # s
    BY DEF FreeStackExact, ActiveSessions
<1>3. /\ \A t \in Sessions : IsActive(t)' <=> IsActive(t) /\ t # s
    BY SessionsType DEF IsActive
<1>4. {free'[i] : i \in DOMAIN free'} = {free[i] : i \in DOMAIN free} \cup {s}
    <2>1. \A i \in DOMAIN free' : free'[i] = s \/ \E j \in DOMAIN free : free'[i] = free[j]
        BY <1>1
    <2>2. \E i \in DOMAIN free' : free'[i] = s
        BY <1>1
    <2>3. \A j \in DOMAIN free : \E i \in DOMAIN free' : free'[i] = free[j]
        BY <1>1
    <2>. QED
        BY <2>1, <2>2, <2>3
<1>5. (Sessions \ ActiveSessions)' = (Sessions \ ActiveSessions) \cup {s}
    BY <1>3 DEF ActiveSessions
<1>6. \A i, j \in DOMAIN free' : free'[i] = free'[j] => i = j
    BY <1>1, <1>2 DEF FreeStackExact
<1>. QED
    BY <1>4, <1>5, <1>6 DEF FreeStackExact

LEMMA FreeAfterPop ==
    ASSUME IInv, FreeStackExact, free # <<>>, NEW fd \in Fds,
           free' = Tail(free), sock' = [sock EXCEPT ![Head(free)] = fd]
    PROVE  /\ Head(free) \in Sessions /\ ~IsActive(Head(free))
           /\ FreeStackExact'
<1>. DEFINE s == Head(free)
<1>1. /\ DOMAIN free = 1 .. Len(free) /\ Len(free) \in Nat /\ Len(free) > 0
      /\ DOMAIN free' = 1 .. Len(free) - 1
      /\ s = free[1]
      /\ \A i \in DOMAIN free' : i + 1 \in DOMAIN free /\ free'[i] = free[i + 1]
      /\ \A i \in DOMAIN free : i # 1 => i - 1 \in DOMAIN free' /\ free'[i - 1] = free[i]
    BY SessionsType
<1>. HIDE DEF s
<1>2. s \in Sessions /\ ~IsActive(s)
    BY <1>1 DEF FreeStackExact, ActiveSessions
<1>3. \A t \in Sessions : IsActive(t)' <=> IsActive(t) \/ t = s
    BY SessionsType, FdAssumption DEF IsActive, s
<1>4. {free'[i] : i \in DOMAIN free'} = {free[i] : i \in DOMAIN free} \ {s}
    <2>1. \A i \in DOMAIN free' : \E j \in DOMAIN free : free'[i] = free[j] /\ free[j] # s
        BY <1>1 DEF FreeStackExact
    <2>2. \A j \in DOMAIN free : free[j] # s => \E i \in DOMAIN free' : free'[i] = free[j]
        BY <1>1
    <2>. QED
        BY <2>1, <2>2
<1>5. (Sessions \ ActiveSessions)' = (Sessions \ ActiveSessions) \ {s}
    BY <1>3 DEF ActiveSessions
<1>6. \A i, j \in DOMAIN free' : free'[i] = free'[j] => i = j
    BY <1>1 DEF FreeStackExact
<1>. QED
    BY <1>2, <1>4, <1>5, <1>6 DEF FreeStackExact, s

LEMMA FreeKept ==
    ASSUME FreeStackExact, UNCHANGED <<free, sock>>
    PROVE  FreeStackExact'
BY DEF FreeStackExact, ActiveSessions, IsActive

-----------------------------------------------------------------------------
(* What mcon_submit and the session operations add to the pipeline. *)

LEMMA SubmitEffect ==
    ASSUME IInv, Submit
    PROVE  \E new : /\ \A e \in new : e.op = "ACCEPT"
                   /\ Cardinality(new) = AcceptsToEnqueue
                   /\ Unexecuted' = Unexecuted \cup new
                   /\ Outstanding' = Outstanding \cup new
                   /\ cq' = cq
<1>1. PICK T \in FreshTags("ACCEPT", NoSession, AcceptsToEnqueue) :
        \E P \in Poppable(queued \cup AcceptSqes(T)) : \E S \in SubmitOutcomes(P) :
            PopAndSubmit(queued \cup AcceptSqes(T), P, S)
    BY DEF Submit
<1>. DEFINE new == AcceptSqes(T)
<1>2. PICK P \in Poppable(queued \cup new) :
        \E S \in SubmitOutcomes(P) : PopAndSubmit(queued \cup new, P, S)
    BY <1>1
<1>3. PICK S \in SubmitOutcomes(P) : PopAndSubmit(queued \cup new, P, S)
    BY <1>2
<1>4. (\A e \in new : e.op = "ACCEPT") /\ Cardinality(new) = AcceptsToEnqueue
    BY AcceptSqesOK, ConfigAssumption
<1>. HIDE DEF new
<1>5. P \subseteq queued \cup new /\ S \subseteq ring \cup P
    BY DEF Poppable, SubmitOutcomes, Offered
<1>6. Unexecuted' = Unexecuted \cup new
    BY <1>5, <1>3 DEF PopAndSubmit, Unexecuted
<1>7. cq' = cq /\ CompletedSqes' = CompletedSqes
    BY <1>3, PostedKept DEF PopAndSubmit
<1>. QED
    BY <1>4, <1>6, <1>7 DEF Outstanding

LEMMA SessionOpEffect ==
    ASSUME IInv, NEW op \in SessionOps, NEW s \in Sessions, SessionOp(op, s)
    PROVE  \E e : /\ e.op = op /\ e.session = s /\ e.fd = sock[s]
                 /\ e \notin Outstanding
                 /\ Unexecuted' = Unexecuted \cup {e}
                 /\ Outstanding' = Outstanding \cup {e}
                 /\ cq' = cq
<1>1. PICK T \in FreshTags(op, s, 1) : \E t \in T : Push(Sqe(op, s, sock[s], t))
    BY DEF SessionOp
<1>2. PICK t \in T : Push(Sqe(op, s, sock[s], t))
    BY <1>1
<1>. DEFINE e == Sqe(op, s, sock[s], t)
<1>3. e \notin Outstanding /\ Push(e)
    BY <1>2, FreshTagsOK
<1>4. e.op = op /\ e.session = s /\ e.fd = sock[s]
    BY DEF Sqe
<1>. HIDE DEF e
<1>5. Unexecuted' = Unexecuted \cup {e} /\ cq' = cq
    BY <1>3 DEF SessionOp, Push, Unexecuted
<1>6. CompletedSqes' = CompletedSqes
    BY <1>5, PostedKept
<1>. QED
    BY <1>3, <1>4, <1>5, <1>6 DEF Outstanding

-----------------------------------------------------------------------------
(* The free stack is as long as there are sessions without a socket. *)
LEMMA StackLength ==
    ASSUME NEW stack \in Seq(Sessions), NEW active \in SUBSET Sessions,
           {stack[i] : i \in DOMAIN stack} = Sessions \ active,
           \A i, j \in DOMAIN stack : stack[i] = stack[j] => i = j
    PROVE  Len(stack) = Cardinality(Sessions \ active)
<1>1. Len(stack) \in Nat /\ DOMAIN stack = 1 .. Len(stack)
    OBVIOUS
<1>2. IsFiniteSet(1 .. Len(stack)) /\ Cardinality(1 .. Len(stack)) = Len(stack)
    BY <1>1, FS_Interval
<1>3. ExistsBijection(1 .. Len(stack), Sessions \ active)
    <2>. DEFINE f == [i \in 1 .. Len(stack) |-> stack[i]]
    <2>1. f \in [1 .. Len(stack) -> Sessions \ active]
        BY <1>1
    <2>2. \A i, j \in 1 .. Len(stack) : f[i] = f[j] => i = j
        BY <1>1
    <2>3. \A s \in Sessions \ active : \E i \in 1 .. Len(stack) : f[i] = s
        BY <1>1
    <2>. HIDE DEF f
    <2>4. f \in Injection(1 .. Len(stack), Sessions \ active)
        BY <2>1, <2>2, Fun_IsInj
    <2>5. f \in Surjection(1 .. Len(stack), Sessions \ active)
        BY <2>1, <2>3 DEF Surjection
    <2>. QED
        BY <2>4, <2>5 DEF ExistsBijection, Bijection
<1>. QED
    BY <1>2, <1>3, FS_Bijection

-----------------------------------------------------------------------------
(* SInv, action by action; along with it, that a step releases a socket    *)
(* only for a reason.                                                      *)

SocketsReleased ==
    \A s \in Sessions : IsActive(s) /\ sock'[s] # sock[s] =>
       /\ sock'[s] = NoFd
       /\ sock[s] \notin open \/ sock[s] \in appFds' \/ CloseExecuted(s)

(* No session, no operation and no descriptor changes. *)
LEMMA NeutralStep ==
    ASSUME IInv, SInv, UNCHANGED <<Operations, cq, sock, flags, free, open, appFds>>,
           "DETACH" \in AppCalls => watched' = watched, ModeInv'
    PROVE  SInv' /\ SocketsReleased
<1>1. Posted' = Posted /\ CompletedSqes' = CompletedSqes
    BY PostedKept
<1>2. Holders' = Holders /\ Accepted' = Accepted
    BY <1>1 DEF Holders, Accepted, CloseExecuted, IsActive
<1>3. FlagsInv' /\ OwnersInv' /\ FreeStackExact'
    BY <1>2, FlagsKept, OwnersKept, FreeKept DEF SInv
<1>4. WatchedInv'
    BY <1>2 DEF SInv, WatchedInv
<1>. QED
    BY <1>3, <1>4 DEF SInv, SocketsReleased

LEMMA QuietSInv ==
    ASSUME DetachFindsSocket, IInv, SInv, QuietAction
    PROVE  SInv' /\ SocketsReleased
<1>. USE DEF QuietAction, Start, Shutdown, ProcessServerSocketEvent, ProcessIo,
         LeaveLoop, Leave, ReadEventfd, RecheckCq, Recheck, KernelSignal, Signal,
         Environment, ClientConnects, AppClosesFd, AppDeregisters, AppRenewsEpoll,
         ioVars, sessionVars, lifeVars, acceptVars, callVars, fdVars, worldVars
<1>1. UNCHANGED <<queued, ring, kern, cq, sock, flags, free>>
    OBVIOUS
<1>2. Operations' = Operations
    BY <1>1 DEF Operations, Outstanding, Unexecuted, CompletedSqes
<1>3. ModeInv'
    BY EnvironmentAssumption DEF EnvironmentAssumption, SInv, ModeInv, Started
<1>4. CASE \E fd \in Fds : AppClosesFd(fd)
    <2>1. PICK fd \in appFds : appFds' = appFds \ {fd} /\ open' = open \ {fd}
        BY <1>4
    <2>2. watched' = watched
        BY <1>4
    <2>3. Posted' = Posted /\ CompletedSqes' = CompletedSqes
        BY <1>1, PostedKept
    <2>4. Holders' = Holders /\ Accepted' = Accepted
        BY <1>1, <2>3 DEF Holders, Accepted, CloseExecuted, IsActive
    <2>5. FlagsInv' /\ OwnersInv' /\ FreeStackExact'
        BY <1>1, <1>2, <2>1, <2>4, FlagsKept, OwnersAfterAppClose, FreeKept DEF SInv
    <2>6. WatchedInv'
        BY <1>1, <2>2, <2>4 DEF SInv, WatchedInv
    <2>. QED
        BY <1>1, <1>3, <2>5, <2>6 DEF SInv, SocketsReleased
<1>5. CASE ~ \E fd \in Fds : AppClosesFd(fd)
    <2>1. UNCHANGED <<open, appFds>>
        BY <1>5
    <2>2. watched' = watched \/ "DEREGISTER" \in AppCalls
        BY <1>5
    <2>3. "DETACH" \in AppCalls => watched' = watched
        BY <2>2 DEF DetachFindsSocket
    <2>. QED
        BY <1>1, <1>2, <1>3, <2>1, <2>3, NeutralStep
<1>. QED
    BY <1>4, <1>5

LEMMA SubmitSInv ==
    ASSUME IInv, SInv, Submit
    PROVE  SInv' /\ SocketsReleased
<1>1. Operations' = Operations /\ cq' = cq
    BY SubmitEffect DEF Operations
<1>2. UNCHANGED <<sock, flags, free, open, appFds, watched, epollFd, isShuttingDown>>
    BY DEF Submit, sessionVars, lifeVars, fdVars
<1>3. ModeInv'
    BY <1>2 DEF SInv, ModeInv, Started
<1>. QED
    BY <1>1, <1>2, <1>3, NeutralStep

LEMMA SessionOpSInv ==
    ASSUME IInv, SInv, NEW op \in SessionOps, NEW s \in Sessions, SessionOp(op, s)
    PROVE  SInv' /\ SocketsReleased
<1>1. PICK e : /\ e.op = op /\ e.session = s /\ e.fd = sock[s]
               /\ Outstanding' = Outstanding \cup {e}
               /\ cq' = cq
    BY SessionOpEffect
<1>2. Operations' = Operations \cup {e}
    BY <1>1 DEF Operations, SessionOps
<1>3. /\ ValidArgs(s, op)
      /\ flags' = [flags EXCEPT ![s] = @ \cup {FlagOf[op]}]
      /\ UNCHANGED <<sock, free, open, appFds, watched, epollFd, isShuttingDown>>
    BY DEF SessionOp, lifeVars, fdVars
<1>4. FlagsInv'
    BY <1>1, <1>2, <1>3, FlagsAfterBegin DEF SInv
<1>5. Posted' = Posted /\ CompletedSqes' = CompletedSqes
    BY <1>1, PostedKept
<1>6. Holders' = Holders /\ Accepted' = Accepted
    BY <1>3, <1>5 DEF Holders, Accepted, CloseExecuted, IsActive
<1>7. OwnersInv' /\ FreeStackExact' /\ WatchedInv' /\ ModeInv'
    BY <1>3, <1>6, OwnersKept, FreeKept DEF SInv, WatchedInv, ModeInv, Started
<1>. QED
    BY <1>3, <1>4, <1>7 DEF SInv, SocketsReleased

LEMMA DetachSInv ==
    ASSUME DetachFindsSocket, IInv, SInv, NEW s \in Sessions, Detach(s)
    PROVE  SInv' /\ SocketsReleased
<1>1. /\ "DETACH" \in AppCalls /\ ValidArgs(s, "DETACH")
      /\ UNCHANGED <<flags, open>> /\ UNCHANGED ioVars
    BY DEF Detach
<1>2. IsActive(s) /\ flags[s] = {}
    <2>1. flags[s] \subseteq Flags
        BY SessionsType
    <2>. QED
        BY <1>1, <2>1 DEF ValidArgs, Incompatible
<1>3. s \in Holders /\ sock[s] \in watched
    BY <1>1, <1>2, IdleHolds DEF SInv, WatchedInv
<1>4. /\ free' = PushFree(s)
      /\ sock' = [sock EXCEPT ![s] = NoFd]
      /\ watched' = watched \ {sock[s]}
      /\ appFds' = appFds \cup {sock[s]}
      /\ CompleteShutdownIfIdle(free')
    BY <1>3 DEF Detach, ResetAfterClose
<1>5. /\ Operations' = Operations /\ Posted' = Posted
      /\ CompletedSqes' = CompletedSqes
    BY <1>1, PostedKept DEF ioVars, Operations, Outstanding, Unexecuted
<1>6. /\ sock'[s] = NoFd
      /\ \A t \in Sessions : t # s => sock'[t] = sock[t]
    BY <1>4, SessionsType
<1>7. Holders' = Holders \ {s} /\ Accepted' = Accepted
    BY <1>5, <1>6 DEF Holders, Accepted, CloseExecuted, IsActive
<1>8. FlagsInv'
    BY <1>1, <1>2, <1>4, <1>5, FlagsAfterSocket DEF SInv
<1>9. OwnersInv'
    <2>1. \A t \in Holders' : sock'[t] = sock[t]
        BY <1>6, <1>7, HoldersType
    <2>. QED
        BY <1>1, <1>3, <1>4, <1>7, <2>1, OwnersAfterDetach DEF SInv
<1>10. FreeStackExact'
    BY <1>2, <1>4, FreeAfterPush DEF SInv
<1>11. WatchedInv'
    <2>1. \A t \in Holders' : t \in Holders /\ t # s /\ sock'[t] = sock[t]
        BY <1>6, <1>7, HoldersType
    <2>. QED
        BY <1>1, <1>3, <1>4, <2>1 DEF SInv, WatchedInv, OwnersInv
<1>12. ModeInv'
    BY <1>4 DEF CompleteShutdownIfIdle, SInv, ModeInv, Started
<1>13. SocketsReleased
    BY <1>4, <1>6 DEF SocketsReleased
<1>. QED
    BY <1>8, <1>9, <1>10, <1>11, <1>12, <1>13 DEF SInv

-----------------------------------------------------------------------------
(* The kernel *)

LEMMA KernelSInv ==
    ASSUME IInv, SInv, NEW e \in kern,
           KernelAccept(e) \/ KernelTransfer(e) \/ KernelClose(e)
    PROVE  SInv' /\ SocketsReleased
<1>1. /\ UNCHANGED <<sock, flags, free, appFds, epollFd, isShuttingDown>>
      /\ \E r \in Fds \cup Codes : Complete(e, r)
    BY DEF KernelAccept, KernelTransfer, KernelClose, sessionVars, lifeVars,
           fdVars, Codes
<1>2. Operations' = Operations
    BY <1>1, CompleteOK DEF IInv, Operations
<1>3. FlagsInv' /\ FreeStackExact' /\ ModeInv' /\ SocketsReleased
    BY <1>1, <1>2, FlagsKept, FreeKept
    DEF SInv, ModeInv, Started, SocketsReleased
<1>4. \A r \in Codes : r \notin Fds
    BY FdAssumption
<1>5. CASE KernelClose(e)
    <2>1. /\ e.op = "CLOSE" /\ Complete(e, "DONE") /\ "DONE" \in Codes
          /\ open' = open \ {e.fd} /\ watched' = watched \ {e.fd}
        BY <1>5 DEF KernelClose, Codes
    <2>2. /\ e.session \in Holders /\ e.fd = sock[e.session]
          /\ Holders' = Holders \ {e.session} /\ Accepted' = Accepted
        BY <1>1, <1>4, <2>1, HoldersAfterComplete DEF SInv
    <2>3. OwnersInv'
        BY <1>1, <2>1, <2>2, OwnersAfterClose DEF SInv
    <2>4. WatchedInv'
        BY <1>1, <2>1, <2>2 DEF SInv, WatchedInv, OwnersInv
    <2>. QED
        BY <1>3, <2>3, <2>4 DEF SInv
<1>6. CASE \E r \in Codes : e.op # "CLOSE" /\ Complete(e, r) /\ UNCHANGED <<open, watched>>
    <2>1. Holders' = Holders /\ Accepted' = Accepted
        BY <1>1, <1>4, <1>6, HoldersAfterComplete DEF SInv
    <2>. QED
        BY <1>1, <1>3, <1>6, <2>1, OwnersKept DEF SInv, WatchedInv
<1>7. CASE \E fd \in Fds \ open : /\ e.op # "CLOSE" /\ Complete(e, fd)
                                 /\ open' = open \cup {fd} /\ UNCHANGED watched
    <2>1. PICK fd \in Fds \ open : /\ e.op # "CLOSE" /\ Complete(e, fd)
                                 /\ open' = open \cup {fd} /\ UNCHANGED watched
        BY <1>7
    <2>2. PICK c : c = [sqe |-> e, res |-> fd]
        OBVIOUS
    <2>3. /\ Holders' = Holders /\ Accepted' = Accepted \cup {c}
          /\ c.res = fd
        BY <1>1, <2>1, <2>2, HoldersAfterComplete DEF SInv
    <2>4. OwnersInv'
        BY <1>1, <2>1, <2>3, OwnersAfterOpen DEF SInv
    <2>5. WatchedInv'
        BY <1>1, <2>1, <2>3 DEF SInv, WatchedInv
    <2>. QED
        BY <1>3, <2>4, <2>5 DEF SInv
<1>8. CASE KernelTransfer(e)
    BY <1>6, <1>8 DEF KernelTransfer, fdVars, Codes
<1>9. CASE KernelAccept(e)
    BY <1>6, <1>7, <1>9 DEF KernelAccept, Codes
<1>. QED
    BY <1>5, <1>8, <1>9

-----------------------------------------------------------------------------
(* The completion loop *)

LEMMA ConsumeEffect ==
    ASSUME IInv, cq # <<>>, cq' = Tail(cq), UNCHANGED <<queued, ring, kern>>
    PROVE  /\ Cqe.sqe \in CompletedSqes
           /\ Operations' = Operations \ {Cqe.sqe}
<1>1. /\ Cqe \in Posted /\ CompletedSqes' = CompletedSqes \ {Cqe.sqe}
    BY PostedByConsume DEF IInv, Cqe
<1>2. Cqe.sqe \in CompletedSqes
    BY <1>1, PostedSqes DEF IInv
<1>3. Unexecuted' = Unexecuted /\ Cqe.sqe \notin Unexecuted
    BY <1>2 DEF Unexecuted, IInv, IoInv, StagesDisjoint
<1>. QED
    BY <1>1, <1>2, <1>3 DEF Operations, Outstanding

LEMMA AcceptEndsSInv ==
    ASSUME IInv, SInv, ProcessAcceptAgain \/ ProcessAcceptError
    PROVE  SInv' /\ SocketsReleased
<1>1. /\ Cqe.sqe.op = "ACCEPT" /\ Cqe.res \in Codes
      /\ cq # <<>> /\ cq' = Tail(cq) /\ UNCHANGED <<queued, ring, kern>>
      /\ UNCHANGED <<sock, flags, free, open, appFds, watched, epollFd, isShuttingDown>>
    BY DEF ProcessAcceptAgain, ProcessAcceptError, Peek, Cqe, Codes, Consume,
           sessionVars, lifeVars, fdVars
<1>2. Operations' = Operations
    BY <1>1, ConsumeEffect DEF Operations
<1>3. Cqe.res \notin Fds
    BY <1>1, FdAssumption
<1>4. Holders' = Holders /\ Accepted' = Accepted
    BY <1>1, <1>3, HoldersAfterConsume DEF Holders, IsActive
<1>5. FlagsInv' /\ OwnersInv' /\ FreeStackExact'
    BY <1>1, <1>2, <1>4, FlagsKept, OwnersKept, FreeKept DEF SInv
<1>6. WatchedInv' /\ ModeInv'
    BY <1>1, <1>4 DEF SInv, WatchedInv, ModeInv, Started
<1>. QED
    BY <1>1, <1>5, <1>6 DEF SInv, SocketsReleased

LEMMA AcceptConnectionSInv ==
    ASSUME IInv, SInv, ProcessAcceptConnection
    PROVE  SInv' /\ SocketsReleased
<1>1. /\ Cqe.sqe.op = "ACCEPT" /\ Cqe.res \in Fds
      /\ cq # <<>> /\ cq' = Tail(cq)
      /\ UNCHANGED <<queued, ring, kern, appFds, epollFd, isShuttingDown>>
      /\ acceptsLive' = acceptsLive - 1
    BY DEF ProcessAcceptConnection, Peek, Cqe, lifeVars, ConsumeAndBreak,
           ConsumeUncounted, Consume
<1>2. free # <<>>
    <2>1. OutstandingAccepts # {}
        BY <1>1, ConsumeEffect DEF OutstandingAccepts, Outstanding
    <2>2. Cardinality(OutstandingAccepts) # 0 /\ Cardinality(OutstandingAccepts) \in Nat
        <3>1. IsFiniteSet(OutstandingAccepts)
            BY FS_Subset DEF IInv, AcceptsInv, OutstandingAccepts
        <3>. QED
            BY <2>1, <3>1, FS_EmptySet, FS_CardinalityType
    <2>3. Len(free) # 0
        BY <2>2, SessionsType DEF IInv, AcceptsInv, AcceptsAreCovered
    <2>. QED
        BY <2>3
<1>3. Operations' = Operations
    BY <1>1, ConsumeEffect DEF Operations
<1>4. /\ \A s \in Sessions : CloseExecuted(s)' <=> CloseExecuted(s)
      /\ Cqe \in Accepted /\ Accepted' = Accepted \ {Cqe}
    BY <1>1, HoldersAfterConsume
<1>5. ModeInv'
    BY <1>1 DEF SInv, ModeInv, Started
<1>6. CASE CloseSocket(Cqe.res) /\ UNCHANGED <<sock, flags, free, watched>>
    <2>1. Holders' = Holders
        BY <1>4, <1>6 DEF Holders, IsActive
    <2>2. OwnersInv'
        BY <1>1, <1>4, <1>6, <2>1, OwnersAfterRefusal DEF CloseSocket, SInv
    <2>3. FlagsInv' /\ FreeStackExact' /\ WatchedInv'
        BY <1>3, <1>6, <2>1, FlagsKept, FreeKept DEF SInv, WatchedInv
    <2>. QED
        BY <1>5, <1>6, <2>2, <2>3 DEF SInv, SocketsReleased
<1>7. CASE /\ free' = Tail(free)
           /\ sock' = [sock EXCEPT ![Head(free)] = Cqe.res]
           /\ flags' = [flags EXCEPT ![Head(free)] = {}]
           /\ watched' = watched \cup {Cqe.res}
           /\ open' = open
    <2>1. PICK s : s = Head(free)
        OBVIOUS
    <2>2. s \in Sessions /\ ~IsActive(s) /\ FreeStackExact'
        BY <1>1, <1>2, <1>7, <2>1, FreeAfterPop DEF SInv
    <2>3. flags[s] = {} /\ flags' = flags
        BY <1>7, <2>1, <2>2, SessionsType DEF SInv, FlagsInv
    <2>4. FlagsInv'
        BY <1>3, <1>7, <2>1, <2>2, <2>3, FlagsAfterSocket DEF SInv
    <2>5. /\ sock'[s] = Cqe.res /\ sock'[s] # NoFd
          /\ \A t \in Sessions : t # s => sock'[t] = sock[t]
        BY <1>1, <1>7, <2>1, <2>2, SessionsType, FdAssumption
    <2>6. ~CloseExecuted(s)
        <3>1. \A e \in Operations : e.session # s
            BY <2>3 DEF SInv, FlagsInv
        <3>. QED
            BY <3>1 DEF CloseExecuted, Operations, Outstanding
    <2>7. s \notin Holders /\ Holders' = Holders \cup {s}
        BY <1>4, <2>2, <2>5, <2>6 DEF Holders, IsActive
    <2>8. \A t \in Holders : sock'[t] = sock[t]
        BY <2>5, <2>7, HoldersType
    <2>9. OwnersInv'
        BY <1>1, <1>4, <1>7, <2>5, <2>7, <2>8, OwnersAfterAccept DEF SInv
    <2>10. WatchedInv'
        BY <1>7, <2>5, <2>7, <2>8 DEF SInv, WatchedInv
    <2>11. SocketsReleased
        BY <2>2, <2>5 DEF SocketsReleased
    <2>. QED
        BY <1>5, <2>2, <2>4, <2>9, <2>10, <2>11 DEF SInv
<1>. QED
    BY <1>2, <1>6, <1>7 DEF ProcessAcceptConnection, sessionVars

LEMMA ProcessOpSInv ==
    ASSUME IInv, SInv, ProcessOp
    PROVE  SInv' /\ SocketsReleased
<1>. DEFINE e == Cqe.sqe
<1>1. /\ e.op \in {"READ", "WRITE", "DRAIN"} /\ Cqe.res \in Codes
      /\ cq # <<>> /\ cq' = Tail(cq) /\ UNCHANGED <<queued, ring, kern>>
      /\ flags' = [flags EXCEPT ![e.session] = @ \ {FlagOf[e.op]}]
      /\ UNCHANGED <<sock, free, open, appFds, watched, epollFd, isShuttingDown>>
    BY DEF ProcessOp, Peek, Cqe, Codes, Consume, lifeVars, fdVars
<1>2. e \in Operations /\ Operations' = Operations \ {e}
    BY <1>1, ConsumeEffect DEF Operations, Outstanding
<1>3. Cqe.res \notin Fds
    BY <1>1, FdAssumption
<1>4. Holders' = Holders /\ Accepted' = Accepted
    BY <1>1, <1>3, HoldersAfterConsume DEF Holders, IsActive
<1>. HIDE DEF e
<1>5. FlagsInv' /\ OwnersInv' /\ FreeStackExact'
    BY <1>1, <1>2, <1>4, FlagsAfterEnd, OwnersKept, FreeKept DEF SInv
<1>6. WatchedInv' /\ ModeInv'
    BY <1>1, <1>4 DEF SInv, WatchedInv, ModeInv, Started
<1>. QED
    BY <1>1, <1>5, <1>6 DEF SInv, SocketsReleased

LEMMA ProcessCloseSInv ==
    ASSUME IInv, SInv, ProcessClose
    PROVE  SInv' /\ SocketsReleased
<1>1. CASE StackFull
    <2>1. /\ UNCHANGED <<queued, ring, kern, cq, sock, flags, free, epollFd,
                         isShuttingDown, open, appFds, watched>>
        BY <1>1 DEF ProcessClose, ioVars, sessionVars, lifeVars, fdVars
    <2>2. Operations' = Operations
        BY <2>1, PostedKept DEF Operations, Outstanding, Unexecuted
    <2>3. ModeInv'
        BY <2>1 DEF SInv, ModeInv, Started
    <2>. QED
        BY <2>1, <2>2, <2>3, NeutralStep
<1>2. CASE ~StackFull
    <2>. DEFINE e == Cqe.sqe
                s == Cqe.sqe.session
    <2>1. /\ e.op = "CLOSE" /\ Cqe.res \in Codes /\ cq # <<>> /\ cq' = Tail(cq)
          /\ free' = PushFree(s)
          /\ sock' = [sock EXCEPT ![s] = NoFd]
          /\ flags' = [flags EXCEPT ![s] = @ \ {FlagOf[e.op]}]
          /\ CompleteShutdownIfIdle(free')
          /\ UNCHANGED <<queued, ring, kern, open, appFds, watched>>
        BY <1>2 DEF ProcessClose, Peek, Cqe, Codes, Consume, ResetAfterClose,
                    fdVars, FlagOf
    <2>2. /\ e \in CompletedSqes /\ e \in Operations /\ s \in Sessions
          /\ Operations' = Operations \ {e}
        BY <2>1, ConsumeEffect, OperationsType DEF Operations, Outstanding
    <2>3. IsActive(s) /\ CloseExecuted(s)
        BY <2>1, <2>2 DEF SInv, FlagsInv, CloseExecuted
    <2>4. /\ sock'[s] = NoFd
          /\ \A t \in Sessions : t # s => sock'[t] = sock[t]
        BY <2>1, <2>2, SessionsType
    <2>5. /\ Posted' = Posted \ {Cqe} /\ CompletedSqes' = CompletedSqes \ {e}
        BY <2>1, PostedByConsume DEF IInv, Cqe
    <2>6. Accepted' = Accepted
        BY <2>1, <2>5, FdAssumption DEF Accepted
    <2>7. \A t \in Sessions : t # s => (CloseExecuted(t)' <=> CloseExecuted(t))
        BY <2>5 DEF CloseExecuted
    <2>8. Holders' = Holders
        BY <2>3, <2>4, <2>7 DEF Holders, IsActive
    <2>9. \A t \in Holders : sock'[t] = sock[t]
        BY <2>3, <2>4 DEF Holders
    <2>. HIDE DEF e, s
    <2>10. FlagsInv'
        <3>1. /\ sock' = [sock EXCEPT ![e.session] = NoFd]
              /\ flags' = [flags EXCEPT ![e.session] = @ \ {FlagOf[e.op]}]
            BY <2>1 DEF e, s
        <3>. QED
            BY <2>1, <2>2, <3>1, FlagsAfterEnd DEF SInv
    <2>11. OwnersInv' /\ FreeStackExact'
        BY <2>1, <2>2, <2>3, <2>6, <2>8, <2>9, OwnersKept, FreeAfterPush DEF SInv
    <2>12. WatchedInv' /\ ModeInv'
        <3>1. WatchedInv'
            BY <2>1, <2>8, <2>9 DEF SInv, WatchedInv
        <3>2. ModeInv'
            BY <2>1 DEF CompleteShutdownIfIdle, SInv, ModeInv, Started
        <3>. QED
            BY <3>1, <3>2
    <2>13. SocketsReleased
        BY <2>3, <2>4 DEF SocketsReleased
    <2>. QED
        BY <2>10, <2>11, <2>12, <2>13 DEF SInv
<1>. QED
    BY <1>1, <1>2

-----------------------------------------------------------------------------
(* mcon_create leaves every session free and nothing outstanding. *)
LEMMA InitSInv ==
    Init => SInv
<1>. SUFFICES ASSUME Init PROVE SInv
    OBVIOUS
<1>1. Outstanding = {} /\ cq = <<>>
    BY IoInitOK DEF Init, IoInit
<1>2. Operations = {} /\ Posted = {}
    BY <1>1 DEF Operations, Posted
<1>3. \A s \in Sessions : ~IsActive(s) /\ flags[s] = {}
    BY DEF Init, IsActive
<1>4. Holders = {} /\ Accepted = {} /\ ActiveSessions = {}
    BY <1>2, <1>3 DEF Holders, Accepted, ActiveSessions
<1>5. FlagsInv
    BY <1>2, <1>3 DEF FlagsInv
<1>6. OwnersInv /\ WatchedInv /\ ModeInv
    BY <1>4 DEF Init, OwnersInv, WatchedInv, ModeInv
<1>7. FreeStackExact
    <2>1. SessionCount \in Nat
        BY ConfigAssumption DEF ConfigAssumption, NoSession
    <2>2. /\ DOMAIN free = 1 .. SessionCount
          /\ \A i \in 1 .. SessionCount : free[i] = i - 1
        BY DEF Init
    <2>3. \A s \in Sessions : s + 1 \in DOMAIN free /\ free[s + 1] = s
        BY <2>1, <2>2 DEF Sessions
    <2>4. \A i \in DOMAIN free : free[i] \in Sessions
        BY <2>1, <2>2 DEF Sessions
    <2>5. {free[i] : i \in DOMAIN free} = Sessions
        BY <2>3, <2>4
    <2>6. \A i, j \in DOMAIN free : free[i] = free[j] => i = j
        BY <2>1, <2>2
    <2>. QED
        BY <1>4, <2>5, <2>6 DEF FreeStackExact
<1>. QED
    BY <1>5, <1>6, <1>7 DEF SInv

(* Every step keeps it. *)
LEMMA NextSInv ==
    ASSUME DetachFindsSocket, IInv, SInv, [Next]_vars
    PROVE  SInv' /\ SocketsReleased
<1>1. CASE QuietAction
    BY <1>1, QuietSInv
<1>2. CASE \E s \in Sessions : Detach(s)
    BY <1>2, DetachSInv
<1>3. CASE \E e \in kern : KernelAccept(e) \/ KernelTransfer(e) \/ KernelClose(e)
    BY <1>3, KernelSInv
<1>4. CASE Submit
    BY <1>4, SubmitSInv
<1>5. CASE \E op \in SessionOps, s \in Sessions : SessionOp(op, s)
    BY <1>5, SessionOpSInv
<1>6. CASE ProcessAcceptAgain \/ ProcessAcceptError
    BY <1>6, AcceptEndsSInv
<1>7. CASE ProcessAcceptConnection
    BY <1>7, AcceptConnectionSInv
<1>8. CASE ProcessOp
    BY <1>8, ProcessOpSInv
<1>9. CASE ProcessClose
    BY <1>9, ProcessCloseSInv
<1>10. CASE UNCHANGED vars
    <2>1. UNCHANGED <<queued, ring, kern, cq, sock, flags, free, epollFd,
                      isShuttingDown, open, appFds, watched>>
        BY <1>10 DEF vars, ioVars, sessionVars, lifeVars, fdVars
    <2>2. Operations' = Operations
        BY <2>1, PostedKept DEF Operations, Outstanding, Unexecuted
    <2>3. ModeInv'
        BY <2>1 DEF SInv, ModeInv, Started
    <2>. QED
        BY <2>1, <2>2, <2>3, NeutralStep
<1>. QED
    BY <1>1, <1>2, <1>3, <1>4, <1>5, <1>6, <1>7, <1>8, <1>9, <1>10
    DEF Next, LibraryCall, CompletionLoop, Kernel, QuietAction

-----------------------------------------------------------------------------
(* From the quantified form to what the runs check. *)

LEMMA FlagsCounted ==
    ASSUME IInv, SInv
    PROVE  FlagsMatchPipeline
<1>1. SUFFICES ASSUME NEW s \in Sessions, NEW flag \in Flags
               PROVE  Cardinality(Behind(s, flag)) = IF flag \in flags[s] THEN 1 ELSE 0
    BY DEF SInv, FlagsInv, FlagsMatchPipeline
<1>2. Behind(s, flag) = {e \in Operations : e.session = s /\ FlagOf[e.op] = flag}
    BY OperationsType DEF Behind, Operations, SessionOps
<1>3. CASE flag \in flags[s]
    <2>1. PICK e \in Operations : e.session = s /\ FlagOf[e.op] = flag
        BY <1>3 DEF SInv, FlagsInv
    <2>2. Behind(s, flag) = {e}
        BY <1>2, <2>1 DEF SInv, FlagsInv
    <2>. QED
        BY <1>3, <2>2, FS_Singleton
<1>4. CASE flag \notin flags[s]
    <2>1. Behind(s, flag) = {}
        BY <1>2, <1>4 DEF SInv, FlagsInv
    <2>. QED
        BY <1>4, <2>1, FS_EmptySet
<1>. QED
    BY <1>3, <1>4

(* The owners of a descriptor, one kind at a time. *)
LEMMA OwnersAre ==
    ASSUME NEW fd
    PROVE  \A o : o \in Owners(fd) <=>
              \/ \E s \in Sessions : o = <<"session", s>> /\ sock[s] = fd /\ ~CloseExecuted(s)
              \/ \E i \in DOMAIN cq : o = <<"cqe", i>> /\ cq[i].res = fd
              \/ o = <<"application", 0>> /\ fd \in appFds
BY DEF Owners

(* An open descriptor has an owner, and nobody shares one. *)
LEMMA OwnersUnique ==
    ASSUME IInv, SInv, NEW fd \in Fds
    PROVE  /\ \A o, p \in Owners(fd) : o = p
           /\ fd \in open <=> \E o : o \in Owners(fd)
<1>1. \A s \in Sessions : sock[s] = fd /\ ~CloseExecuted(s) <=> s \in Holders /\ sock[s] = fd
    BY FdAssumption DEF Holders, IsActive
<1>2. /\ \A i \in DOMAIN cq : cq[i].res = fd => cq[i] \in Accepted
      /\ \A c \in Accepted : \E i \in DOMAIN cq : cq[i] = c
    BY DEF Accepted, Posted
<1>3. \A i, j \in DOMAIN cq : cq[i].res = fd /\ cq[j].res = fd => i = j
    <2>. SUFFICES ASSUME NEW i \in DOMAIN cq, NEW j \in DOMAIN cq,
                         cq[i].res = fd, cq[j].res = fd
                  PROVE  i = j
        OBVIOUS
    <2>1. cq[i] = cq[j]
        BY <1>2 DEF SInv, OwnersInv
    <2>. QED
        BY <2>1 DEF IInv, IoInv, StagesDisjoint
<1>4. \A s, t \in Holders : sock[s] = fd /\ sock[t] = fd => s = t
    BY DEF SInv, OwnersInv
<1>5. \A s \in Holders, i \in DOMAIN cq : ~ (sock[s] = fd /\ cq[i].res = fd)
    BY <1>2 DEF SInv, OwnersInv
<1>6. fd \in appFds => /\ \A s \in Holders : sock[s] # fd
                       /\ \A i \in DOMAIN cq : cq[i].res # fd
    BY <1>2 DEF SInv, OwnersInv
<1>7. \A o, p \in Owners(fd) : o = p
    BY <1>1, <1>3, <1>4, <1>5, <1>6, OwnersAre
<1>8. fd \in open <=> \E o : o \in Owners(fd)
    <2>1. ASSUME fd \in open PROVE \E o : o \in Owners(fd)
        <3>1. CASE fd \in appFds
            BY <3>1, OwnersAre
        <3>2. CASE \E s \in Holders : sock[s] = fd
            BY <1>1, <3>2, OwnersAre DEF Holders
        <3>3. CASE \E c \in Accepted : c.res = fd
            BY <1>2, <3>3, OwnersAre
        <3>. QED
            BY <2>1, <3>1, <3>2, <3>3 DEF SInv, OwnersInv
    <2>2. ASSUME NEW o \in Owners(fd) PROVE fd \in open
        BY <1>1, <1>2, OwnersAre DEF SInv, OwnersInv
    <2>. QED
        BY <2>1, <2>2
<1>. QED
    BY <1>7, <1>8

LEMMA OwnersCounted ==
    ASSUME IInv, SInv
    PROVE  DescriptorsHaveOneOwner
<1>1. SUFFICES ASSUME NEW fd \in Fds
               PROVE  Cardinality(Owners(fd)) = IF fd \in open THEN 1 ELSE 0
    BY DEF DescriptorsHaveOneOwner
<1>2. CASE fd \in open
    <2>1. PICK o : Owners(fd) = {o}
        BY <1>2, OwnersUnique
    <2>. QED
        BY <1>2, <2>1, FS_Singleton
<1>3. CASE fd \notin open
    <2>1. Owners(fd) = {}
        BY <1>3, OwnersUnique
    <2>. QED
        BY <1>3, <2>1, FS_EmptySet
<1>. QED
    BY <1>2, <1>3

LEMMA OperationsOwn ==
    ASSUME IInv, SInv
    PROVE  OperationsKeepTheirSocket
<1>1. SUFFICES ASSUME NEW e \in Unexecuted, e.op \in SessionOps
               PROVE  /\ e.fd = sock[e.session]
                      /\ e.fd \in open
                      /\ Owners(e.fd) = {<<"session", e.session>>}
    BY DEF OperationsKeepTheirSocket
<1>2. e \in Operations /\ e \notin CompletedSqes
    BY <1>1 DEF Operations, Outstanding, SessionOps, IInv, IoInv, StagesDisjoint
<1>3. e.session \in Holders /\ e.fd = sock[e.session]
    BY <1>2, OperationHolds DEF SInv, FlagsInv
<1>4. e.fd \in Fds /\ e.fd \in open
    BY <1>3, HoldersType DEF SInv, OwnersInv
<1>5. <<"session", e.session>> \in Owners(e.fd)
    BY <1>3, OwnersAre DEF Holders
<1>6. Owners(e.fd) = {<<"session", e.session>>}
    BY <1>4, <1>5, OwnersUnique
<1>. QED
    BY <1>3, <1>4, <1>6

-----------------------------------------------------------------------------
(* The theorems about sessions and descriptors. *)

(* SInv holds throughout every behaviour. *)
THEOREM SessionInvariance ==
    ASSUME DetachFindsSocket
    PROVE  Spec => []SInv
<1>1. Init => SInv
    BY InitSInv
<1>2. IInv /\ SInv /\ [Next]_vars => SInv'
    BY NextSInv
<1>. QED
    BY <1>1, <1>2, Invariance, PTL DEF Spec

(* VALIDATE_ARGS can rely on the flags: an operation is outstanding        *)
(* exactly as long as its flag is raised, and a close is alone.            *)
THEOREM FlagsTrue ==
    ASSUME DetachFindsSocket
    PROVE  Spec => []FlagsMatchPipeline
<1>1. IInv /\ SInv => FlagsMatchPipeline
    BY FlagsCounted
<1>. QED
    BY <1>1, Invariance, SessionInvariance, PTL

(* No SQE is executed on a descriptor that was closed and reused: it names *)
(* the open socket of its own session until it completes.                  *)
THEOREM NoStaleDescriptor ==
    ASSUME DetachFindsSocket
    PROVE  Spec => []OperationsKeepTheirSocket
<1>1. IInv /\ SInv => OperationsKeepTheirSocket
    BY OperationsOwn
<1>. QED
    BY <1>1, Invariance, SessionInvariance, PTL

(* No connection leaks and none is closed twice, whatever fails. *)
THEOREM NoDescriptorLeaks ==
    ASSUME DetachFindsSocket
    PROVE  Spec => []DescriptorsHaveOneOwner
<1>1. IInv /\ SInv => DescriptorsHaveOneOwner
    BY OwnersCounted
<1>. QED
    BY <1>1, Invariance, SessionInvariance, PTL

(* session_free_stack holds the sessions without a connection, each once.  *)
THEOREM FreeStackCorrect ==
    ASSUME DetachFindsSocket
    PROVE  Spec => []FreeStackExact
<1>1. SInv => FreeStackExact
    BY DEF SInv
<1>. QED
    BY <1>1, SessionInvariance, PTL

(* mcon_active_session_count, the limit on accepts and the end of a        *)
(* shutdown all read the number of free sessions off the stack's size.     *)
THEOREM StackCounted ==
    ASSUME DetachFindsSocket
    PROVE  Spec => []StackCountsFreeSessions
<1>1. IInv /\ SInv => StackCountsFreeSessions
    <2>. SUFFICES ASSUME IInv, SInv PROVE StackCountsFreeSessions
        OBVIOUS
    <2>1. ActiveSessions \subseteq Sessions
        BY DEF ActiveSessions
    <2>. QED
        BY <2>1, SessionsType, StackLength
        DEF SInv, FreeStackExact, StackCountsFreeSessions
<1>. QED
    BY <1>1, Invariance, SessionInvariance, PTL

(* What a closing session leaves to the others: two transfers each. *)
LEMMA TransfersOfOthers ==
    ASSUME IInv, SInv, NEW s \in Sessions, "CLOSING" \in flags[s]
    PROVE  Cardinality({e \in kern : e.op \in Transfers}) <= 2 * (SessionCount - 1)
<1>. DEFINE T == {e \in kern : e.op \in Transfers}
            Slots == (Sessions \ {s}) \X {"READING", "WRITING"}
            f == [e \in T |-> <<e.session, FlagOf[e.op]>>]
<1>1. \A e \in T : e \in Operations /\ FlagOf[e.op] \in {"READING", "WRITING"}
    BY DEF Operations, Outstanding, Unexecuted, Transfers, FlagOf
<1>2. \A e \in T : e.session \in Sessions \ {s}
    BY <1>1, OperationsType DEF SInv, FlagsInv
<1>3. f \in [T -> Slots]
    BY <1>1, <1>2
<1>4. \A d, e \in T : f[d] = f[e] => d = e
    BY <1>1 DEF SInv, FlagsInv
<1>5. f \in Injection(T, Slots)
    BY <1>3, <1>4 DEF Injection, IsInjective
<1>6. SessionCount \in Nat
    BY ConfigAssumption DEF ConfigAssumption, NoSession
<1>7. IsFiniteSet(Sessions \ {s}) /\ Cardinality(Sessions \ {s}) = SessionCount - 1
    <2>1. IsFiniteSet(Sessions) /\ Cardinality(Sessions) = SessionCount
        BY <1>6, FS_Interval DEF Sessions
    <2>. QED
        BY <2>1, FS_RemoveElement
<1>8. IsFiniteSet({"READING", "WRITING"}) /\ Cardinality({"READING", "WRITING"}) = 2
    <2>1. {"READING", "WRITING"} = {"READING"} \cup {"WRITING"}
        OBVIOUS
    <2>2. "WRITING" \notin {"READING"}
        OBVIOUS
    <2>3. IsFiniteSet({"READING"}) /\ Cardinality({"READING"}) = 1
        BY FS_Singleton
    <2>4. IsFiniteSet({"READING"} \cup {"WRITING"})
          /\ Cardinality({"READING"} \cup {"WRITING"}) = Cardinality({"READING"}) + 1
        BY <2>2, <2>3, FS_AddElement
    <2>. QED
        BY <2>1, <2>3, <2>4
<1>9. IsFiniteSet(Slots) /\ Cardinality(Slots) = (SessionCount - 1) * 2
    BY <1>7, <1>8, FS_Product
<1>10. Cardinality(T) <= Cardinality(Slots)
    BY <1>5, <1>9, FS_Injection
<1>11. (SessionCount - 1) * 2 = 2 * (SessionCount - 1)
    BY <1>6
<1>. QED
    BY <1>9, <1>10, <1>11

(* With a quota above two per other session, a close is never kept waiting *)
(* by transfers: the exception that ClosesComplete makes cannot arise.     *)
THEOREM CloseNotStarved ==
    ASSUME DetachFindsSocket, QueueSize > 2 * (SessionCount - 1)
    PROVE  Spec => [](\A s \in Sessions : "CLOSING" \in flags[s] => ~TransfersHoldQuota)
<1>1. IInv /\ SInv =>
          \A s \in Sessions : "CLOSING" \in flags[s] => ~TransfersHoldQuota
    <2>. SUFFICES ASSUME IInv, SInv, NEW s \in Sessions, "CLOSING" \in flags[s]
                  PROVE  ~TransfersHoldQuota
        OBVIOUS
    <2>1. Cardinality({e \in kern : e.op \in Transfers}) \in Nat
        <3>1. {e \in kern : e.op \in Transfers} \subseteq Unexecuted
            BY DEF Unexecuted
        <3>2. IsFiniteSet(Unexecuted)
            BY DEF IInv, IoInv, StagesDisjoint
        <3>. QED
            BY <3>1, <3>2, FS_Subset, FS_CardinalityType
    <2>2. QueueSize \in Nat /\ SessionCount \in Nat
        BY ConfigAssumption DEF ConfigAssumption, NoSession
    <2>. QED
        BY <2>1, <2>2, TransfersOfOthers DEF TransfersHoldQuota
<1>. QED
    BY <1>1, Invariance, SessionInvariance, PTL

(* A session loses its socket only when a close was executed or the        *)
(* application took the descriptor over, and never gets another instead.   *)
THEOREM SocketReleased ==
    ASSUME DetachFindsSocket
    PROVE  Spec => SocketReleasedOnce
<1>1. IInv /\ SInv /\ [Next]_vars => [SocketsReleased]_vars
    BY NextSInv
<1>. QED
    BY <1>1, Invariance, SessionInvariance, PTL DEF Spec, SocketReleasedOnce, SocketsReleased

-----------------------------------------------------------------------------
(* Demand for accepts.  It survives in one of four places; only a step     *)
(* that moves it from one to another has to be looked at.                  *)

(* An accept that will still run, and the result of one that goes on. *)
AcceptAhead == \E e \in Unexecuted : e.op = "ACCEPT"
AcceptGoesOn == \E c \in Posted : c.sqe.op = "ACCEPT" /\ c.res # "EAGAIN"

DemandInv ==
    (Listening /\ backlog > 0) =>
        serverEdge \/ acceptsRequested \/ AcceptAhead \/ AcceptGoesOn

LEMMA DemandIs ==
    DemandInv <=> AcceptDemandNotLost
BY DEF DemandInv, AcceptDemandNotLost, AcceptAhead, AcceptGoesOn, Posted

(* The handler consumes a CQE that is of no use to the accept cycle. *)
LEMMA ConsumeKeepsDemand ==
    ASSUME IInv, cq # <<>>, cq' = Tail(cq), UNCHANGED <<queued, ring, kern>>,
           Cqe.sqe.op # "ACCEPT" \/ Cqe.res = "EAGAIN"
    PROVE  (AcceptAhead => AcceptAhead') /\ (AcceptGoesOn => AcceptGoesOn')
<1>1. Posted' = Posted \ {Cqe} /\ Unexecuted' = Unexecuted
    BY PostedByConsume DEF IInv, Cqe, Unexecuted
<1>. QED
    BY <1>1 DEF AcceptAhead, AcceptGoesOn

(* A new connection is an edge, and mcon_start finds the ones that wait. *)
LEMMA QuietDemand ==
    ASSUME IInv, DemandInv, QuietAction
    PROVE  DemandInv'
<1>. USE DEF QuietAction, Start, Shutdown, ProcessServerSocketEvent, ProcessIo,
         LeaveLoop, Leave, ReadEventfd, RecheckCq, Recheck, KernelSignal, Signal,
         Environment, ClientConnects, AppClosesFd, AppDeregisters, AppRenewsEpoll,
         ioVars, sessionVars, lifeVars, acceptVars, callVars, fdVars, worldVars
<1>1. UNCHANGED <<queued, ring, kern, cq>>
    OBVIOUS
<1>2. UNCHANGED <<AcceptAhead, AcceptGoesOn>>
    BY <1>1 DEF AcceptAhead, AcceptGoesOn, Unexecuted, Posted
<1>3. CASE \E ep \in Epolls : Start(ep)
    BY <1>3 DEF DemandInv
<1>4. CASE Shutdown \/ ProcessServerSocketEvent
    BY <1>4 DEF DemandInv, Listening
<1>5. CASE ClientConnects
    BY <1>2, <1>5 DEF DemandInv, Listening, Started
<1>6. CASE UNCHANGED <<epollFd, isShuttingDown, backlog, serverEdge, acceptsRequested>>
    BY <1>2, <1>6 DEF DemandInv, Listening, Started
<1>. QED
    BY <1>3, <1>4, <1>5, <1>6

(* A request becomes the accepts it asked for. *)
LEMMA SubmitDemand ==
    ASSUME IInv, DemandInv, Submit
    PROVE  DemandInv'
<1>1. PICK new : /\ \A e \in new : e.op = "ACCEPT"
                 /\ Cardinality(new) = AcceptsToEnqueue
                 /\ Unexecuted' = Unexecuted \cup new
                 /\ cq' = cq
    BY SubmitEffect
<1>2. /\ AcceptAhead => AcceptAhead'
      /\ AcceptGoesOn' = AcceptGoesOn
      /\ AcceptsToEnqueue # 0 => AcceptAhead'
    <2>1. AcceptsToEnqueue # 0 => new # {}
        BY <1>1, FS_EmptySet
    <2>. QED
        BY <1>1, <2>1, PostedKept DEF AcceptAhead, AcceptGoesOn
<1>3. /\ acceptsRequested' = (acceptsRequested /\ AcceptsToEnqueue = 0)
      /\ UNCHANGED <<epollFd, isShuttingDown, serverEdge, backlog>>
    BY DEF Submit, lifeVars
<1>. QED
    BY <1>2, <1>3 DEF DemandInv, Listening, Started

(* Accepting says EAGAIN only when nobody waits. *)
LEMMA KernelDemand ==
    ASSUME IInv, DemandInv, NEW e \in kern,
           KernelAccept(e) \/ KernelTransfer(e) \/ KernelClose(e)
    PROVE  DemandInv'
<1>1. UNCHANGED <<epollFd, isShuttingDown, serverEdge, acceptsRequested>>
    BY DEF KernelAccept, KernelTransfer, KernelClose, lifeVars, acceptVars, worldVars
<1>2. PICK r \in Fds \cup Codes :
         /\ Complete(e, r)
         /\ \/ e.op # "ACCEPT" /\ backlog' = backlog
            \/ e.op = "ACCEPT" /\ (r = "EAGAIN" => backlog' = 0)
    BY FdAssumption
    DEF KernelAccept, KernelTransfer, KernelClose, Codes, worldVars
<1>3. PICK c : c = [sqe |-> e, res |-> r]
    OBVIOUS
<1>4. Posted' = Posted \cup {c} /\ Unexecuted' = Unexecuted \ {e}
    BY <1>2, <1>3, PostedByComplete DEF IInv
<1>5. /\ AcceptGoesOn => AcceptGoesOn'
      /\ e.op # "ACCEPT" => AcceptAhead' = AcceptAhead
      /\ e.op = "ACCEPT" /\ r # "EAGAIN" => AcceptGoesOn'
    BY <1>3, <1>4 DEF AcceptAhead, AcceptGoesOn
<1>6. CASE e.op # "ACCEPT"
    BY <1>1, <1>2, <1>5, <1>6 DEF DemandInv, Listening, Started
<1>7. CASE e.op = "ACCEPT"
    BY <1>2, <1>5, <1>7 DEF DemandInv
<1>. QED
    BY <1>6, <1>7

(* The operations of sessions leave the accept cycle alone, but the last   *)
(* session's end may stop the instance.                                    *)
LEMMA SessionDemand ==
    ASSUME IInv, DemandInv,
           \/ \E op \in SessionOps, s \in Sessions : SessionOp(op, s)
           \/ \E s \in Sessions : Detach(s)
           \/ ProcessOp \/ ProcessClose
    PROVE  DemandInv'
<1>1. UNCHANGED <<serverEdge, backlog, acceptsRequested>>
    BY DEF SessionOp, Detach, ProcessOp, ProcessClose, acceptVars, worldVars
<1>2. Listening' => Listening
    BY DEF SessionOp, Detach, ProcessOp, ProcessClose, lifeVars,
           CompleteShutdownIfIdle, Listening, Started
<1>3. (AcceptAhead => AcceptAhead') /\ (AcceptGoesOn => AcceptGoesOn')
    <2>1. CASE \E op \in SessionOps, s \in Sessions : SessionOp(op, s)
        <3>1. Unexecuted \subseteq Unexecuted' /\ cq' = cq
            BY <2>1, SessionOpEffect
        <3>. QED
            BY <3>1, PostedKept DEF AcceptAhead, AcceptGoesOn
    <2>2. CASE UNCHANGED ioVars
        BY <2>2, PostedKept DEF ioVars, AcceptAhead, AcceptGoesOn, Unexecuted
    <2>3. CASE /\ cq # <<>> /\ cq' = Tail(cq) /\ UNCHANGED <<queued, ring, kern>>
               /\ Cqe.sqe.op # "ACCEPT"
        BY <2>3, ConsumeKeepsDemand
    <2>. QED
        BY <2>1, <2>2, <2>3 DEF Detach, ProcessOp, ProcessClose, Peek, Consume
<1>. QED
    BY <1>1, <1>2, <1>3 DEF DemandInv

LEMMA AcceptDemand ==
    ASSUME IInv, DemandInv,
           ProcessAcceptAgain \/ ProcessAcceptError \/ ProcessAcceptConnection
    PROVE  DemandInv'
<1>1. CASE acceptsRequested'
    BY <1>1 DEF DemandInv
<1>2. CASE ProcessAcceptAgain
    <2>1. /\ cq # <<>> /\ cq' = Tail(cq) /\ UNCHANGED <<queued, ring, kern>>
          /\ Cqe.res = "EAGAIN"
          /\ UNCHANGED <<epollFd, isShuttingDown, backlog, serverEdge, acceptsRequested>>
        BY <1>2 DEF ProcessAcceptAgain, Peek, Cqe, Consume, lifeVars, worldVars
    <2>2. (AcceptAhead => AcceptAhead') /\ (AcceptGoesOn => AcceptGoesOn')
        BY <2>1, ConsumeKeepsDemand
    <2>. QED
        BY <2>1, <2>2 DEF DemandInv, Listening, Started
<1>. QED
    BY <1>1, <1>2
    DEF ProcessAcceptError, ProcessAcceptConnection, ContinueAcceptCycle

(* A waiting connection is never forgotten, whatever is shut down, started *)
(* again, fails or is exhausted: the edge-triggered listening socket is    *)
(* not reported twice, so one of the four must stand for it.               *)
THEOREM AcceptDemandKept ==
    Spec => []AcceptDemandNotLost
<1>1. Init => DemandInv
    BY DEF Init, DemandInv
<1>2. IInv /\ DemandInv /\ [Next]_vars => DemandInv'
    <2>1. SUFFICES ASSUME IInv, DemandInv, [Next]_vars PROVE DemandInv'
        OBVIOUS
    <2>2. CASE UNCHANGED vars
        <3>1. UNCHANGED <<queued, ring, kern, cq, epollFd, isShuttingDown, backlog,
                          serverEdge, acceptsRequested>>
            BY <2>2 DEF vars, ioVars, lifeVars, acceptVars, worldVars
        <3>. QED
            BY <2>1, <3>1, PostedKept
            DEF DemandInv, Listening, Started, AcceptAhead, AcceptGoesOn, Unexecuted
    <2>. QED
        BY <2>1, <2>2, QuietDemand, SubmitDemand, KernelDemand, SessionDemand, AcceptDemand
        DEF Next, LibraryCall, CompletionLoop, Kernel, QuietAction
<1>3. Spec => []DemandInv
    BY <1>1, <1>2, Invariance, PTL DEF Spec
<1>. QED
    BY <1>3, DemandIs, PTL
=============================================================================
