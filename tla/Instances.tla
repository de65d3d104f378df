----------------------------- MODULE Instances ------------------------------
(***************************************************************************)
(* Instances from mcon_create to mcon_destroy.  Each belongs to a thread;  *)
(* the threads share the counter instance ids are taken from, and an epoll *)
(* instance whose events they tell apart by mcon_owns_event.  What happens *)
(* inside an instance between start and shutdown is the subject of Mcon.   *)
(***************************************************************************)
EXTENDS EpollEntry, FiniteSets, Sequences

CONSTANTS
    Threads,
    Nobody,        \* stands for an instance that was destroyed
    MaxOvertakes,  \* bound: ids others take while one takes its second
    MaxLeftover    \* bound: events and entries that outlived their purpose

ASSUME InstancesAssumption ==
    /\ Nobody \notin Threads
    /\ MaxOvertakes \in Nat /\ MaxOvertakes + 1 < InstanceValues
    /\ MaxLeftover \in Nat

(* What mcon_create acquires, in this order, and what follows each of them.*)
Resources == {"ring", "eventfd", "io_queue", "sessions", "free_stack", "instance"}

Following ==
    [ring |-> "eventfd", eventfd |-> "io_queue", io_queue |-> "sessions",
     sessions |-> "free_stack", free_stack |-> "instance", instance |-> "fetch"]

(* The error labels from top to bottom, by what each of them releases, and *)
(* the label each failure jumps to; below the last one nothing is released.*)
Labels == <<"free_stack", "sessions", "io_queue", "eventfd", "ring">>

LabelOf_TooLow ==  \* mutant: io_queue_create jumps below the eventfd's label
    [instance |-> 1, free_stack |-> 2, sessions |-> 3, io_queue |-> 5,
     eventfd |-> 5, ring |-> 6]

LabelOf ==
    [instance |-> 1, free_stack |-> 2, sessions |-> 3, io_queue |-> 4,
     eventfd |-> 5, ring |-> 6]

ReleasedFrom(label) == {Labels[i] : i \in label .. Len(Labels)}

VARIABLES
    pc,         \* what the thread's instance is, or acquires next
    held,       \* what the thread has acquired and not released
    idCounter,  \* instance_id_counter
    id,         \* instance_id
    age,        \* ids fetched since id was, counted up to InstanceValues
    interest,   \* the interest list
    pending     \* fetched events, not yet processed, whose entry is gone

instanceVars == <<pc, held, idCounter, id, age, interest, pending>>

(* An entry of the interest list or an event: its data, the thread whose   *)
(* instance added it, and the age of the instance's id.                    *)
Datas == 0 .. InstanceValues * InstanceUnit - 1
Tagged == [data : Datas, of : Threads \cup {Nobody}, age : 0 .. InstanceValues]

Created == {"created", "running", "stopping"}
Instances == {t \in Threads : pc[t] \in Created}
HasId(t) == pc[t] \in Created \cup {"refetch"}

InstancesTypeOK ==
    /\ pc \in [Threads -> Resources \cup Created \cup {"idle", "fetch", "refetch"}]
    /\ held \in [Threads -> SUBSET Resources]
    /\ idCounter \in 0 .. InstanceValues - 1
    /\ id \in [Threads -> 0 .. InstanceValues - 1]
    /\ age \in [Threads -> 0 .. InstanceValues]
    /\ interest \subseteq Tagged
    /\ pending \subseteq Tagged

(* The counter starts at 1; 0 is no instance's id. *)
InstancesInit ==
    /\ pc = [t \in Threads |-> "idle"]
    /\ held = [t \in Threads |-> {}]
    /\ idCounter = 1 % InstanceValues
    /\ id = [t \in Threads |-> 0]
    /\ age = [t \in Threads |-> 0]
    /\ interest = {}
    /\ pending = {}

-----------------------------------------------------------------------------
(* mcon_create *)

Goto(t, label) == pc' = [pc EXCEPT ![t] = label]

CallCreate(t) ==
    /\ pc[t] = "idle"
    /\ Goto(t, "ring")
    /\ UNCHANGED <<held, idCounter, id, age, interest, pending>>

Acquire(t) ==
    /\ pc[t] \in Resources
    /\ held' = [held EXCEPT ![t] = @ \cup {pc[t]}]
    /\ Goto(t, Following[pc[t]])
    /\ UNCHANGED <<idCounter, id, age, interest, pending>>

AcquireFails(t) ==
    /\ pc[t] \in Resources
    /\ held' = [held EXCEPT ![t] = @ \ ReleasedFrom(LabelOf[pc[t]])]
    /\ Goto(t, "idle")
    /\ UNCHANGED <<idCounter, id, age, interest, pending>>

GrowOld(n) == IF n < InstanceValues THEN n + 1 ELSE n
AllOlder(S) == {[e EXCEPT !.age = GrowOld(@)] : e \in S}

Advance_Early(counter) == (counter + 1) % (InstanceValues - 1)  \* mutant

(* The counter has 16 bits. *)
Advance(counter) == (counter + 1) % InstanceValues

(* atomic_fetch_add *)
TakeId(t) ==
    /\ \A u \in Threads \ {t} : pc[u] = "refetch" => age[u] < MaxOvertakes
    /\ id' = [id EXCEPT ![t] = idCounter]
    /\ idCounter' = Advance(idCounter)
    /\ age' = [u \in Threads |-> IF u = t \/ ~HasId(u) THEN 0 ELSE GrowOld(age[u])]
    /\ interest' = AllOlder(interest)
    /\ pending' = AllOlder(pending)
    /\ UNCHANGED held

MustRefetch_Never(taken) == FALSE  \* mutant

MustRefetch(taken) == taken = 0

FetchId(t) ==
    /\ pc[t] = "fetch"
    /\ TakeId(t)
    /\ Goto(t, IF MustRefetch(idCounter) THEN "refetch" ELSE "created")

RefetchId(t) ==
    /\ pc[t] = "refetch"
    /\ TakeId(t)
    /\ Goto(t, "created")

-----------------------------------------------------------------------------
(* mcon_start, mcon_shutdown, accepting, mcon_destroy *)

(* What is added to the interest list. *)
EntryOf(t, source, session, generation) ==
    [data |-> Encode([instance_id |-> id[t], generation |-> generation,
                      source |-> source, session |-> session, reserved |-> 0]),
     of |-> t, age |-> age[t]]

ServerEntry(t) == EntryOf(t, SERVER_SOCKET, NO_SESSION, 0)
IoUringEntry(t) == EntryOf(t, IO_URING, NO_SESSION, 0)

(* The eventfd stays in the interest list until it is closed, and cannot   *)
(* be added twice: an instance starts once on one epoll instance.  A start *)
(* that fails half-way takes the listening socket out again.               *)
StartInstance(t) ==
    /\ pc[t] = "created"
    /\ IoUringEntry(t) \notin interest
    /\ interest' = interest \cup {ServerEntry(t), IoUringEntry(t)}
    /\ Goto(t, "running")
    /\ UNCHANGED <<held, idCounter, id, age, pending>>

(* Entries leave the interest list; an event may have been fetched before. *)
Unwatch(S) ==
    /\ interest' = interest \ S
    /\ \E fetched \in SUBSET S : pending' = pending \cup fetched

Leftover == pending \cup {e \in interest : e.of = Nobody}

ShutdownInstance(t) ==
    /\ pc[t] = "running"
    /\ Unwatch({ServerEntry(t)})
    /\ Cardinality(Leftover') <= MaxLeftover
    /\ Goto(t, "stopping")
    /\ UNCHANGED <<held, idCounter, id, age>>

(* mcon_complete_shutdown, when the last session is released. *)
ShutdownCompletes(t) ==
    /\ pc[t] = "stopping"
    /\ Goto(t, "created")
    /\ UNCHANGED <<held, idCounter, id, age, interest, pending>>

(* _process_accept adds a client's socket, a close or a detach removes it. *)
WatchSession(t, s, g) ==
    /\ pc[t] \in {"running", "stopping"}
    /\ interest' = interest \cup {EntryOf(t, SESSION, s, g)}
    /\ UNCHANGED <<pc, held, idCounter, id, age, pending>>

UnwatchSession(t, s, g) ==
    /\ EntryOf(t, SESSION, s, g) \in interest
    /\ Unwatch({EntryOf(t, SESSION, s, g)})
    /\ Cardinality(Leftover') <= MaxLeftover
    /\ UNCHANGED <<pc, held, idCounter, id, age>>

(* Whatever state the instance is in.  Closing the eventfd takes it out of *)
(* the interest list; a listening socket and clients that are still there  *)
(* stay, and the struct itself is not freed.                               *)
Destroy(t) ==
    /\ pc[t] \in Created
    /\ held' = [held EXCEPT ![t] = @ \ {Labels[i] : i \in DOMAIN Labels}]
    /\ LET Abandoned(S) ==
             {IF e.of = t THEN [e EXCEPT !.of = Nobody] ELSE e : e \in S}
       IN  /\ interest' = Abandoned(interest \ {IoUringEntry(t)})
           /\ \E fetched \in SUBSET (interest \cap {IoUringEntry(t)}) :
                pending' = Abandoned(pending \cup fetched)
    /\ Cardinality(Leftover') <= MaxLeftover
    /\ Goto(t, "idle")
    /\ id' = [id EXCEPT ![t] = 0]
    /\ age' = [age EXCEPT ![t] = 0]
    /\ UNCHANGED idCounter

-----------------------------------------------------------------------------
(* The application: its loop over the events, and the descriptors that     *)
(* destroyed instances left to it.                                         *)

ProcessEvent(e) ==
    /\ pending' = pending \ {e}
    /\ UNCHANGED <<pc, held, idCounter, id, age, interest>>

CloseAbandoned(e) ==
    /\ e.of = Nobody
    /\ interest' = interest \ {e}
    /\ UNCHANGED <<pc, held, idCounter, id, age, pending>>

CreateStep(t) ==
    CallCreate(t) \/ Acquire(t) \/ AcquireFails(t) \/ FetchId(t) \/ RefetchId(t)

LifeStep(t) ==
    \/ ShutdownInstance(t)
    \/ ShutdownCompletes(t)
    \/ \E s \in 0 .. NO_SESSION - 1, g \in 0 .. GenerationValues - 1 :
         WatchSession(t, s, g) \/ UnwatchSession(t, s, g)
    \/ Destroy(t)

EventStep ==
    \/ \E e \in interest : CloseAbandoned(e)
    \/ \E e \in pending : ProcessEvent(e)

-----------------------------------------------------------------------------
(* Properties *)

(* Whatever step of mcon_create fails, the label it jumps to releases      *)
(* exactly what was acquired, and an idle thread holds nothing but the     *)
(* struct of an instance it has destroyed.                                 *)
CleanupExact ==
    \A t \in Threads :
        /\ pc[t] \in Resources =>
             ReleasedFrom(LabelOf[pc[t]]) = held[t] \ {"instance"}
        /\ pc[t] = "idle" => held[t] \subseteq {"instance"}

(* Instances that exist at the same time differ in their ids, as long as   *)
(* the counter has not wrapped since the older id was taken.               *)
InstanceIdsDistinct ==
    \A t, u \in Instances :
        t # u /\ id[t] = id[u] => InstanceValues \in {age[t], age[u]}

(* An event of the shared epoll instance, fetched just now or long ago, is *)
(* owned by the instance that registered it and by no other one, and by    *)
(* none when that instance was destroyed, until the counter has wrapped.   *)
EventsHaveOneOwner ==
    \A e \in interest \cup pending :
        /\ e.of # Nobody => OwnsEvent(id[e.of], e.data)
        /\ \A t \in Instances \ {e.of} :
             OwnsEvent(id[t], e.data) => InstanceValues \in {e.age, age[t]}

(* No instance owns events of the application's own descriptors, although  *)
(* the id it fetched may have been 0 and others take ids in between.       *)
ForeignEventsNotOwned ==
    \A t \in Instances, data \in Datas : IsForeign(data) => ~OwnsEvent(id[t], data)
=============================================================================
