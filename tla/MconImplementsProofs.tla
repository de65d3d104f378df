------------------------- MODULE MconImplementsProofs -------------------------
(***************************************************************************)
(* Mcon implements SessionApi, for every value of the constants: each step *)
(* of an instance is a step of SessionApi or changes nothing an            *)
(* application can see.  What the pipeline does for a session is given by  *)
(* its flags (SInv), so a step is followed through the flags.              *)
(***************************************************************************)
EXTENDS MconImplements, MconSessionProofs

(* What a raised flag says the session is doing. *)
KindOfFlag == [READING |-> "receive", WRITING |-> "send", CLOSING |-> "close"]

LEMMA KindsOK ==
    /\ \A op \in SessionOps : KindOf[op] = KindOfFlag[FlagOf[op]]
    /\ \A f, g \in Flags : KindOfFlag[f] = KindOfFlag[g] => f = g
    /\ \A f \in Flags : KindOfFlag[f] = "close" <=> f = "CLOSING"
    /\ \A op \in SessionOps : KindOf[op] \in {"receive", "send", "close"}
BY DEF SessionOps, Flags, KindOf, KindOfFlag, FlagOf

(* The SQEs of a session and its flags tell the same. *)
Flagged == Doing = [s \in Sessions |-> {KindOfFlag[f] : f \in flags[s]}]

LEMMA DoingIs ==
    IInv /\ SInv => Flagged
<1>. SUFFICES ASSUME IInv, SInv, NEW s \in Sessions
              PROVE  {KindOf[e.op] : e \in {f \in Outstanding :
                                              f.op \in SessionOps /\ f.session = s}}
                     = {KindOfFlag[f] : f \in flags[s]}
    BY DEF Doing, Flagged
<1>1. {f \in Outstanding : f.op \in SessionOps /\ f.session = s}
         = {e \in Operations : e.session = s}
    BY OperationsType DEF Operations, SessionOps
<1>2. ASSUME NEW e \in Operations, e.session = s
      PROVE  KindOf[e.op] \in {KindOfFlag[f] : f \in flags[s]}
    <2>1. KindOf[e.op] = KindOfFlag[FlagOf[e.op]]
        BY OperationsType, KindsOK
    <2>. QED
        BY <1>2, <2>1 DEF SInv, FlagsInv
<1>3. ASSUME NEW f \in flags[s]
      PROVE  \E e \in Operations : e.session = s /\ KindOf[e.op] = KindOfFlag[f]
    <2>1. PICK e \in Operations : e.session = s /\ FlagOf[e.op] = f
        BY DEF SInv, FlagsInv
    <2>. QED
        BY <2>1, OperationsType, KindsOK
<1>. QED
    BY <1>1, <1>2, <1>3

LEMMA DoingIsNext ==
    IInv' /\ SInv' => Flagged'
BY DoingIs, PTL

(* mcon_active_session_count is zero exactly when no session has a socket. *)
LEMMA IdleIs ==
    ASSUME NEW stack \in Seq(Sessions), NEW active \in SUBSET Sessions,
           {stack[i] : i \in DOMAIN stack} = Sessions \ active,
           \A i, j \in DOMAIN stack : stack[i] = stack[j] => i = j
    PROVE  IdleWith(stack) <=> active = {}
<1>1. SessionCount \in Nat
    BY ConfigAssumption DEF ConfigAssumption, NoSession
<1>2. IsFiniteSet(Sessions) /\ Cardinality(Sessions) = SessionCount
    BY <1>1, FS_Interval DEF Sessions
<1>3. Len(stack) = Cardinality(Sessions \ active)
    BY StackLength
<1>4. Cardinality(Sessions \ active) = Cardinality(Sessions) => Sessions \ active = Sessions
    BY <1>2, FS_Subset
<1>5. Sessions \ active = Sessions <=> active = {}
    OBVIOUS
<1>6. Len(stack) = SessionCount <=> active = {}
    BY <1>2, <1>3, <1>4, <1>5
<1>. QED
    BY <1>1, <1>6 DEF IdleWith

-----------------------------------------------------------------------------
(* The steps.  Each is given IInv and SInv before and after it. *)

BothInv == IInv /\ SInv /\ IInv' /\ SInv'

(* Only what the session s is doing changes: to the set kinds. *)
LEMMA DoingChanges ==
    ASSUME BothInv, NEW s \in Sessions, NEW kinds,
           kinds = {KindOfFlag[f] : f \in flags'[s]},
           \A t \in Sessions : t # s => flags'[t] = flags[t]
    PROVE  Doing' = [Doing EXCEPT ![s] = kinds]
<1>1. /\ Doing = [t \in Sessions |-> Doing[t]]
      /\ Doing' = [t \in Sessions |-> Doing'[t]]
    BY DEF Doing
<1>2. /\ \A t \in Sessions : Doing[t] = {KindOfFlag[f] : f \in flags[t]}
      /\ \A t \in Sessions : Doing'[t] = {KindOfFlag[f] : f \in flags'[t]}
    BY DoingIs, DoingIsNext DEF BothInv, Flagged
<1>3. /\ Doing'[s] = kinds
      /\ \A t \in Sessions : t # s => Doing'[t] = Doing[t]
    BY <1>2
<1>. QED
    BY <1>1, <1>3

LEMMA NothingVisible ==
    ASSUME BothInv, UNCHANGED <<epollFd, isShuttingDown, sock, flags>>
    PROVE  UNCHANGED Api!apiVars
<1>1. Doing' = Doing
    BY DoingIs, DoingIsNext DEF BothInv, Flagged
<1>2. Mode' = Mode /\ ActiveSessions' = ActiveSessions
    BY DEF Mode, Started, ActiveSessions, IsActive
<1>. QED
    BY <1>1, <1>2 DEF Api!apiVars

LEMMA StartImplements ==
    ASSUME BothInv, NEW ep \in Epolls, Start(ep)
    PROVE  Api!Start
<1>1. UNCHANGED <<sock, flags, isShuttingDown>> /\ epollFd' = ep /\ ~Started
    BY DEF Start, sessionVars
<1>2. ep # NoEpoll /\ ~isShuttingDown
    BY <1>1, EnvironmentAssumption DEF EnvironmentAssumption, BothInv, SInv, ModeInv
<1>3. Mode = "stopped" /\ Mode' = "running"
    BY <1>1, <1>2 DEF Mode, Started
<1>4. Doing' = Doing /\ ActiveSessions' = ActiveSessions
    BY <1>1, DoingIs, DoingIsNext DEF BothInv, Flagged, ActiveSessions, IsActive
<1>. QED
    BY <1>3, <1>4 DEF Api!Start

LEMMA ShutdownImplements ==
    ASSUME BothInv, Shutdown
    PROVE  Api!Shutdown
<1>1. /\ UNCHANGED <<sock, flags, epollFd>> /\ Started
      /\ ~isShuttingDown /\ isShuttingDown'
    BY DEF Shutdown, sessionVars
<1>2. Mode = "running" /\ Mode' = "stopping"
    BY <1>1 DEF Mode, Started
<1>3. Doing' = Doing /\ ActiveSessions' = ActiveSessions
    BY <1>1, DoingIs, DoingIsNext DEF BothInv, Flagged, ActiveSessions, IsActive
<1>. QED
    BY <1>2, <1>3 DEF Api!Shutdown

LEMMA SessionOpImplements ==
    ASSUME BothInv, NEW op \in SessionOps, NEW s \in Sessions, SessionOp(op, s)
    PROVE  \E kind \in Api!Kinds : Api!Begin(s, kind)
<1>1. /\ ValidArgs(s, op)
      /\ flags' = [flags EXCEPT ![s] = @ \cup {FlagOf[op]}]
      /\ UNCHANGED <<sock, epollFd, isShuttingDown>>
    BY DEF SessionOp, lifeVars
<1>2. /\ IsActive(s) /\ FlagOf[op] \notin flags[s] /\ "CLOSING" \notin flags[s]
      /\ op = "CLOSE" => flags[s] = {}
    BY <1>1, ValidArgsOK DEF BothInv
<1>3. /\ flags[s] \subseteq Flags /\ FlagOf[op] \in Flags
      /\ flags \in [Sessions -> SUBSET Flags]
    BY SessionsType DEF BothInv, FlagOf, Flags, SessionOps
<1>. DEFINE kind == KindOf[op]
<1>4. kind = KindOfFlag[FlagOf[op]] /\ kind \in Api!Kinds
    BY KindsOK DEF Api!Kinds
<1>5. kind = "close" => op = "CLOSE"
    BY DEF SessionOps, KindOf
<1>. HIDE DEF kind
<1>6. Doing[s] \cap {kind, "close"} = {} /\ (kind = "close" => Doing[s] = {})
    <2>1. Doing[s] = {KindOfFlag[f] : f \in flags[s]}
        BY DoingIs DEF BothInv, Flagged
    <2>2. \A f \in flags[s] : KindOfFlag[f] # kind /\ KindOfFlag[f] # "close"
        BY <1>2, <1>3, <1>4, KindsOK
    <2>. QED
        BY <1>2, <1>5, <2>1, <2>2
<1>7. Doing' = [Doing EXCEPT ![s] = @ \cup {kind}]
    <2>1. {KindOfFlag[f] : f \in flags'[s]} = {KindOfFlag[f] : f \in flags[s]} \cup {kind}
        BY <1>1, <1>3, <1>4
    <2>2. \A t \in Sessions : t # s => flags'[t] = flags[t]
        BY <1>1, <1>3
    <2>3. Doing[s] = {KindOfFlag[f] : f \in flags[s]}
        BY DoingIs DEF BothInv, Flagged
    <2>. QED
        BY <2>1, <2>2, <2>3, DoingChanges
<1>8. Mode' = Mode /\ ActiveSessions' = ActiveSessions /\ s \in ActiveSessions
    BY <1>1, <1>2 DEF Mode, Started, ActiveSessions, IsActive
<1>. QED
    BY <1>4, <1>6, <1>7, <1>8 DEF Api!Begin

LEMMA ProcessOpImplements ==
    ASSUME BothInv, ProcessOp
    PROVE  \E s \in Sessions, kind \in Api!Kinds : Api!Finish(s, kind)
<1>. DEFINE e == Cqe.sqe
            s == Cqe.sqe.session
            kind == KindOf[Cqe.sqe.op]
<1>1. /\ e.op \in {"READ", "WRITE", "DRAIN"}
      /\ cq # <<>> /\ cq' = Tail(cq) /\ UNCHANGED <<queued, ring, kern>>
      /\ flags' = [flags EXCEPT ![s] = @ \ {FlagOf[e.op]}]
      /\ UNCHANGED <<sock, epollFd, isShuttingDown>>
    BY DEF ProcessOp, Peek, Consume, lifeVars
<1>2. e \in Operations
    BY <1>1, ConsumeEffect DEF BothInv, Operations, Outstanding
<1>3. /\ s \in Sessions /\ FlagOf[e.op] \in flags[s]
      /\ flags \in [Sessions -> SUBSET Flags]
    BY <1>2, OperationsType, SessionsType DEF BothInv, SInv, FlagsInv
<1>4. kind = KindOfFlag[FlagOf[e.op]] /\ kind \in Api!Kinds /\ kind # "close"
    <2>1. e.op \in SessionOps
        BY <1>1 DEF SessionOps
    <2>2. kind # "close"
        BY <1>1 DEF KindOf
    <2>. QED
        BY <2>1, <2>2, KindsOK DEF Api!Kinds
<1>. HIDE DEF e, s, kind
<1>5. kind \in Doing[s]
    <2>1. Doing[s] = {KindOfFlag[f] : f \in flags[s]}
        BY <1>3, DoingIs DEF BothInv, Flagged
    <2>. QED
        BY <1>3, <1>4, <2>1
<1>6. Doing' = [Doing EXCEPT ![s] = @ \ {kind}]
    <2>1. /\ flags'[s] = flags[s] \ {FlagOf[e.op]}
          /\ \A t \in Sessions : t # s => flags'[t] = flags[t]
        BY <1>1, <1>3
    <2>2. \A f \in flags[s] : KindOfFlag[f] = kind <=> f = FlagOf[e.op]
        BY <1>3, <1>4, KindsOK
    <2>3. {KindOfFlag[f] : f \in flags'[s]} = {KindOfFlag[f] : f \in flags[s]} \ {kind}
        BY <2>1, <2>2
    <2>4. Doing[s] = {KindOfFlag[f] : f \in flags[s]}
        BY <1>3, DoingIs DEF BothInv, Flagged
    <2>. QED
        BY <1>3, <2>1, <2>3, <2>4, DoingChanges
<1>7. Mode' = Mode /\ ActiveSessions' = ActiveSessions
    BY <1>1 DEF Mode, Started, ActiveSessions, IsActive
<1>8. Api!Finish(s, kind)
    BY <1>4, <1>5, <1>6, <1>7 DEF Api!Finish
<1>. QED
    BY <1>3, <1>4, <1>8

(* A session that is released: the instance stops if and only if it was    *)
(* the last one of an instance that is shutting down.                      *)
LEMMA ReleaseImplements ==
    ASSUME BothInv, NEW s \in Sessions, IsActive(s), flags[s] \subseteq {"CLOSING"},
           sock' = [sock EXCEPT ![s] = NoFd], flags' = [flags EXCEPT ![s] = {}],
           CompleteShutdownIfIdle(free')
    PROVE  Api!Release(s)
<1>1. /\ flags \in [Sessions -> SUBSET Flags]
      /\ sock \in [Sessions -> Fds \cup {NoFd}]
      /\ free' \in Seq(Sessions)
    <2>1. free' \in Seq(Sessions)
        BY DEF BothInv, IInv, TypeOK, SessionTypeOK
    <2>. QED
        BY <2>1, SessionsType DEF BothInv
<1>2. s \in ActiveSessions /\ ActiveSessions' = ActiveSessions \ {s}
    BY <1>1 DEF ActiveSessions, IsActive
<1>3. IdleWith(free') <=> ActiveSessions = {s}
    <2>1. /\ {free'[i] : i \in DOMAIN free'} = Sessions \ ActiveSessions'
          /\ \A i, j \in DOMAIN free' : free'[i] = free'[j] => i = j
        BY DEF BothInv, SInv, FreeStackExact
    <2>2. ActiveSessions' \subseteq Sessions
        BY <1>2 DEF ActiveSessions
    <2>3. IdleWith(free') <=> ActiveSessions' = {}
        BY <1>1, <2>1, <2>2, IdleIs
    <2>. QED
        BY <1>2, <2>3
<1>4. Mode' = IF Mode = "stopping" /\ ActiveSessions = {s} THEN "stopped" ELSE Mode
    <2>1. isShuttingDown => Started
        BY DEF BothInv, SInv, ModeInv
    <2>2. CASE isShuttingDown /\ ActiveSessions = {s}
        BY <1>3, <2>1, <2>2 DEF CompleteShutdownIfIdle, Mode, Started
    <2>3. CASE ~ (isShuttingDown /\ ActiveSessions = {s})
        <3>1. epollFd' = epollFd /\ isShuttingDown' = isShuttingDown
            BY <1>3, <2>3 DEF CompleteShutdownIfIdle, BothInv, IInv, TypeOK, StateTypeOK
        <3>. QED
            BY <2>3, <3>1 DEF Mode, Started
    <2>. QED
        BY <2>2, <2>3
<1>5. Doing[s] \subseteq {"close"}
    <2>1. Doing[s] = {KindOfFlag[f] : f \in flags[s]}
        BY DoingIs DEF BothInv, Flagged
    <2>. QED
        BY <2>1 DEF KindOfFlag
<1>6. Doing' = [Doing EXCEPT ![s] = {}]
    <2>1. flags'[s] = {} /\ \A t \in Sessions : t # s => flags'[t] = flags[t]
        BY <1>1
    <2>2. {} = {KindOfFlag[f] : f \in flags'[s]}
        BY <2>1
    <2>. QED
        BY <2>1, <2>2, DoingChanges
<1>. QED
    BY <1>2, <1>4, <1>5, <1>6 DEF Api!Release

LEMMA DetachImplements ==
    ASSUME DetachFindsSocket, BothInv, NEW s \in Sessions, Detach(s)
    PROVE  Api!Release(s)
<1>1. "DETACH" \in AppCalls /\ ValidArgs(s, "DETACH") /\ flags' = flags
    BY DEF Detach
<1>2. /\ flags \in [Sessions -> SUBSET Flags]
      /\ IsActive(s) /\ flags[s] = {}
    <2>1. flags \in [Sessions -> SUBSET Flags]
        BY SessionsType DEF BothInv
    <2>. QED
        BY <1>1, <2>1 DEF ValidArgs, Incompatible
<1>3. sock[s] \in watched
    BY <1>1, <1>2, IdleHolds DEF BothInv, SInv, WatchedInv
<1>4. sock' = [sock EXCEPT ![s] = NoFd] /\ CompleteShutdownIfIdle(free')
    BY <1>3 DEF Detach, ResetAfterClose
<1>5. flags' = [flags EXCEPT ![s] = {}]
    BY <1>1, <1>2
<1>. QED
    BY <1>2, <1>4, <1>5, ReleaseImplements

LEMMA ProcessCloseImplements ==
    ASSUME BothInv, ProcessClose
    PROVE  UNCHANGED Api!apiVars \/ \E s \in Sessions : Api!Release(s)
<1>1. CASE StackFull
    <2>1. UNCHANGED <<epollFd, isShuttingDown, sock, flags>>
        BY <1>1 DEF ProcessClose, sessionVars, lifeVars
    <2>. QED
        BY <2>1, NothingVisible
<1>2. CASE ~StackFull
    <2>. DEFINE s == Cqe.sqe.session
    <2>1. /\ Cqe.sqe.op = "CLOSE" /\ cq # <<>> /\ cq' = Tail(cq)
          /\ UNCHANGED <<queued, ring, kern>>
          /\ sock' = [sock EXCEPT ![s] = NoFd]
          /\ flags' = [flags EXCEPT ![s] = @ \ {"CLOSING"}]
          /\ CompleteShutdownIfIdle(free')
        BY <1>2 DEF ProcessClose, Peek, Consume, ResetAfterClose
    <2>2. Cqe.sqe \in Operations /\ FlagOf[Cqe.sqe.op] = "CLOSING"
        BY <2>1, ConsumeEffect DEF BothInv, Operations, Outstanding, FlagOf
    <2>3. s \in Sessions /\ flags[s] = {"CLOSING"} /\ IsActive(s)
        BY <2>2, OperationsType DEF BothInv, SInv, FlagsInv
    <2>. HIDE DEF s
    <2>4. flags' = [flags EXCEPT ![s] = {}]
        BY <2>1, <2>3, SessionsType DEF BothInv
    <2>5. Api!Release(s)
        BY <2>1, <2>3, <2>4, ReleaseImplements
    <2>. QED
        BY <2>3, <2>5
<1>. QED
    BY <1>1, <1>2

LEMMA AcceptImplements ==
    ASSUME BothInv, ProcessAcceptConnection
    PROVE  UNCHANGED Api!apiVars \/ \E s \in Sessions : Api!Accept(s)
<1>1. /\ Cqe.res \in Fds /\ UNCHANGED <<epollFd, isShuttingDown>>
    BY DEF ProcessAcceptConnection, Peek, Cqe, lifeVars
<1>2. CASE UNCHANGED <<sock, flags>>
    BY <1>1, <1>2, NothingVisible
<1>3. CASE /\ Started /\ free # <<>>
           /\ free' = Tail(free)
           /\ sock' = [sock EXCEPT ![Head(free)] = Cqe.res]
           /\ flags' = [flags EXCEPT ![Head(free)] = {}]
    <2>1. PICK s : s = Head(free)
        OBVIOUS
    <2>2. s \in Sessions /\ ~IsActive(s)
        BY <1>1, <1>3, <2>1, FreeAfterPop DEF BothInv, SInv
    <2>3. flags' = flags
        BY <1>3, <2>1, <2>2, SessionsType DEF BothInv, SInv, FlagsInv
    <2>4. Doing' = Doing
        BY <2>3, DoingIs, DoingIsNext DEF BothInv, Flagged
    <2>5. s \notin ActiveSessions /\ ActiveSessions' = ActiveSessions \cup {s}
        <3>1. /\ sock'[s] = Cqe.res /\ sock'[s] # NoFd
              /\ \A t \in Sessions : t # s => sock'[t] = sock[t]
            BY <1>1, <1>3, <2>1, <2>2, SessionsType, FdAssumption DEF BothInv
        <3>. QED
            BY <2>2, <3>1 DEF ActiveSessions, IsActive
    <2>6. Mode' = Mode /\ Mode # "stopped"
        BY <1>1, <1>3 DEF Mode, Started
    <2>7. Api!Accept(s)
        BY <2>4, <2>5, <2>6 DEF Api!Accept
    <2>. QED
        BY <2>2, <2>7
<1>. QED
    BY <1>2, <1>3 DEF ProcessAcceptConnection, sessionVars

(* All the other steps are invisible. *)
LEMMA OtherImplements ==
    ASSUME BothInv,
           \/ QuietAction /\ ~ (\E ep \in Epolls : Start(ep)) /\ ~Shutdown
           \/ \E e \in kern : KernelAccept(e) \/ KernelTransfer(e) \/ KernelClose(e)
           \/ Submit
           \/ ProcessAcceptAgain \/ ProcessAcceptError
           \/ UNCHANGED vars
    PROVE  UNCHANGED Api!apiVars
<1>1. UNCHANGED <<epollFd, isShuttingDown, sock, flags>>
    BY DEF QuietAction, ProcessServerSocketEvent, ProcessIo, LeaveLoop, ReadEventfd,
       RecheckCq, KernelSignal, Environment, ClientConnects, AppClosesFd,
       AppDeregisters, AppRenewsEpoll, KernelAccept, KernelTransfer, KernelClose,
       Submit, ProcessAcceptAgain, ProcessAcceptError, vars, sessionVars, lifeVars
<1>. QED
    BY <1>1, NothingVisible

-----------------------------------------------------------------------------
LEMMA InitImplements ==
    Init => Api!Init
<1>. SUFFICES ASSUME Init PROVE Api!Init
    OBVIOUS
<1>1. Mode = "stopped" /\ ActiveSessions = {}
    BY DEF Init, Mode, Started, ActiveSessions, IsActive
<1>2. Outstanding = {}
    BY IoInitOK DEF Init
<1>3. Doing = [s \in Sessions |-> {}]
    BY <1>2 DEF Doing
<1>. QED
    BY <1>1, <1>3 DEF Api!Init

LEMMA NextImplements ==
    ASSUME DetachFindsSocket, BothInv, [Next]_vars
    PROVE  [Api!Next]_Api!apiVars
<1>1. CASE \E ep \in Epolls : Start(ep)
    BY <1>1, StartImplements DEF Api!Next
<1>2. CASE Shutdown
    BY <1>2, ShutdownImplements DEF Api!Next
<1>3. CASE \E op \in SessionOps, s \in Sessions : SessionOp(op, s)
    BY <1>3, SessionOpImplements DEF Api!Next
<1>4. CASE \E s \in Sessions : Detach(s)
    BY <1>4, DetachImplements DEF Api!Next
<1>5. CASE ProcessAcceptConnection
    BY <1>5, AcceptImplements DEF Api!Next
<1>6. CASE ProcessOp
    BY <1>6, ProcessOpImplements DEF Api!Next
<1>7. CASE ProcessClose
    BY <1>7, ProcessCloseImplements DEF Api!Next
<1>8. CASE \/ QuietAction /\ ~ (\E ep \in Epolls : Start(ep)) /\ ~Shutdown
           \/ \E e \in kern : KernelAccept(e) \/ KernelTransfer(e) \/ KernelClose(e)
           \/ Submit
           \/ ProcessAcceptAgain \/ ProcessAcceptError
           \/ UNCHANGED vars
    BY <1>8, OtherImplements
<1>. QED
    BY <1>1, <1>2, <1>3, <1>4, <1>5, <1>6, <1>7, <1>8
    DEF Next, LibraryCall, CompletionLoop, Kernel, QuietAction

(* An instance does what SessionApi promises: one thing at a time in each  *)
(* direction, a close alone, a session served once it was released, and a  *)
(* shutdown that is over in the step that releases the last session.       *)
THEOREM Refinement ==
    ASSUME DetachFindsSocket
    PROVE  Spec => ImplementsApi
<1>1. Init => Api!Init
    BY InitImplements
<1>2. BothInv /\ [Next]_vars => [Api!Next]_Api!apiVars
    BY NextImplements
<1>3. Spec => [](IInv /\ SInv)
    BY Invariance, SessionInvariance, PTL
<1>. QED
    BY <1>1, <1>2, <1>3, PTL DEF Spec, BothInv, ImplementsApi, Api!Spec

-----------------------------------------------------------------------------
(* What SessionApi promises needs proving only there, and holds for an     *)
(* instance because it implements SessionApi.                              *)

LEMMA ApiInitOK ==
    Api!Init => Api!ApiTypeOK /\ Api!StoppedEmpty
BY DEF Api!Init, Api!ApiTypeOK, Api!StoppedEmpty

LEMMA ApiNextOK ==
    ASSUME Api!ApiTypeOK, Api!StoppedEmpty, [Api!Next]_Api!apiVars
    PROVE  Api!ApiTypeOK' /\ Api!StoppedEmpty'
<1>. USE DEF Api!ApiTypeOK, Api!StoppedEmpty
<1>1. CASE Api!Start \/ Api!Shutdown
    BY <1>1 DEF Api!Start, Api!Shutdown
<1>2. CASE \E s \in Sessions : Api!Accept(s)
    BY <1>2 DEF Api!Accept
<1>3. CASE \E s \in Sessions : Api!Release(s)
    BY <1>3 DEF Api!Release
<1>4. CASE \E s \in Sessions, kind \in Api!Kinds : Api!Begin(s, kind)
    BY <1>4 DEF Api!Begin
<1>5. CASE \E s \in Sessions, kind \in Api!Kinds : Api!Finish(s, kind)
    BY <1>5 DEF Api!Finish
<1>6. CASE UNCHANGED Api!apiVars
    BY <1>6 DEF Api!apiVars
<1>. QED
    BY <1>1, <1>2, <1>3, <1>4, <1>5, <1>6 DEF Api!Next

(* mcon_complete_shutdown comes too early for no connection, and no late   *)
(* accept opens one behind its back: a stopped instance serves nobody.     *)
THEOREM StoppedServesNobody ==
    ASSUME DetachFindsSocket
    PROVE  Spec => []StoppedIsIdle
<1>1. Api!Spec => []Api!StoppedEmpty
    <2>1. Api!ApiTypeOK /\ Api!StoppedEmpty /\ [Api!Next]_Api!apiVars
             => Api!ApiTypeOK' /\ Api!StoppedEmpty'
        BY ApiNextOK
    <2>. QED
        BY <2>1, ApiInitOK, PTL DEF Api!Spec
<1>2. Api!StoppedEmpty => StoppedIsIdle
    BY DEF Api!StoppedEmpty, StoppedIsIdle, Mode
<1>. QED
    BY <1>1, <1>2, Refinement, PTL DEF ImplementsApi
=============================================================================
