----------------------------- MODULE SetupProofs ----------------------------
(***************************************************************************)
(* Instance ids and the ownership of events, for any number of threads and *)
(* any width of the fields: until the counter has wrapped, ids are told    *)
(* apart by their ages.  Also: what mcon_create acquires is released, and  *)
(* mcon_create_listening_socket leaks no socket.                           *)
(***************************************************************************)
EXTENDS Setup, EpollEntryProofs, ListeningSocketProofs

(* An id taken a fetches ago is that far behind the counter. *)
Behind(x, a) ==
    a < InstanceValues =>
        idCounter = x + 1 + a \/ idCounter = x + 1 + a - InstanceValues

(* The ids of threads: behind the counter by their ages, no two ages the   *)
(* same; a second fetch is never so late that it gets 0 again.             *)
ThreadInv ==
    /\ \A t \in Threads : HasId(t) => Behind(id[t], age[t])
    /\ \A t, u \in Threads :
         t # u /\ HasId(t) /\ HasId(u) /\ age[t] = age[u] => age[t] = InstanceValues
    /\ \A t \in Threads : pc[t] = "refetch" => id[t] = 0 /\ age[t] <= MaxOvertakes
    /\ \A t \in Instances : id[t] # 0

(* Entries and events: they carry the id of their instance, or one with an *)
(* age of its own.                                                         *)
TagInv(e) ==
    /\ Decode(e.data).instance_id \in 0 .. InstanceValues - 1
    /\ IsValidSource(Decode(e.data).source)
    /\ Behind(Decode(e.data).instance_id, e.age)
    /\ e.of # Nobody =>
         /\ e.of \in Instances
         /\ Decode(e.data).instance_id = id[e.of]
         /\ e.age = age[e.of]
    /\ e.of = Nobody =>
         \A t \in Threads : HasId(t) /\ age[t] = e.age => e.age = InstanceValues

IdInv ==
    /\ InstancesTypeOK
    /\ ThreadInv
    /\ \A e \in interest \cup pending : TagInv(e)

-----------------------------------------------------------------------------
(* Encoded entries *)

(* What an instance adds to the interest list. *)
Added(t) ==
    {EntryOf(t, source, session, generation) :
        source \in UNKNOWN .. SESSION, session \in 0 .. NO_SESSION,
        generation \in 0 .. GenerationValues - 1}

LEMMA AddedTag ==
    ASSUME IdInv, NEW t \in Instances, NEW e \in Added(t)
    PROVE  /\ e \in Tagged /\ e.of = t /\ e.age = age[t]
           /\ Decode(e.data).instance_id = id[t]
           /\ IsValidSource(Decode(e.data).source)
<1>1. PICK source \in UNKNOWN .. SESSION, session \in 0 .. NO_SESSION,
           generation \in 0 .. GenerationValues - 1 :
        e = EntryOf(t, source, session, generation)
  BY DEF Added
<1> DEFINE entry == [instance_id |-> id[t], generation |-> generation,
                     source |-> source, session |-> session, reserved |-> 0]
<1>2. e = [data |-> Encode(entry), of |-> t, age |-> age[t]]
  BY <1>1 DEF EntryOf
<1>3. t \in Threads /\ id[t] \in 0 .. InstanceValues - 1 /\ age[t] \in 0 .. InstanceValues
  BY DEF IdInv, InstancesTypeOK, Instances
<1>4. source \in 0 .. SourceValues - 1 /\ IsValidSource(source)
  BY WidthAssumption DEF UNKNOWN, SESSION, IsValidSource
<1>5. session \in 0 .. SessionValues - 1 /\ 0 \in 0 .. ReservedValues - 1
  BY WidthAssumption DEF NO_SESSION
<1>6. entry \in EpollEntries
  BY <1>3, <1>4, <1>5 DEF EpollEntries
<1>7. Decode(Encode(entry)) = entry
  BY <1>6, DecodeEncode
<1>8. Encode(entry) \in Datas
  BY <1>6, EncodeRange DEF Datas
<1> HIDE DEF entry
<1>9. e \in Tagged /\ e.data = Encode(entry) /\ e.of = t /\ e.age = age[t]
  BY <1>2, <1>3, <1>8 DEF Tagged
<1> QED BY <1>4, <1>7, <1>9 DEF entry

LEMMA ServerAndIoUringAdded ==
    ASSUME NEW t
    PROVE  ServerEntry(t) \in Added(t) /\ IoUringEntry(t) \in Added(t)
<1>1. /\ NO_SESSION \in 0 .. NO_SESSION /\ 0 \in 0 .. GenerationValues - 1
      /\ {SERVER_SOCKET, IO_URING} \subseteq UNKNOWN .. SESSION
  BY WidthAssumption DEF NO_SESSION, SERVER_SOCKET, IO_URING, UNKNOWN, SESSION
<1> QED BY <1>1 DEF ServerEntry, IoUringEntry, Added

LEMMA SessionAdded ==
    ASSUME NEW t, NEW s \in 0 .. NO_SESSION - 1, NEW g \in 0 .. GenerationValues - 1
    PROVE  EntryOf(t, SESSION, s, g) \in Added(t)
<1>1. s \in 0 .. NO_SESSION /\ SESSION \in UNKNOWN .. SESSION
  BY WidthAssumption DEF NO_SESSION, UNKNOWN, SESSION
<1> QED BY <1>1 DEF Added

-----------------------------------------------------------------------------
(* Steps that leave the ids alone *)

LEMMA SameIds ==
    ASSUME IdInv, InstancesTypeOK', UNCHANGED <<idCounter, id, age>>,
           \A t \in Threads :
             /\ pc'[t] \in Created <=> pc[t] \in Created
             /\ pc'[t] = "refetch" <=> pc[t] = "refetch",
           \A e \in interest' \cup pending' :
             \/ e \in interest \cup pending
             \/ \E t \in Instances : e \in Added(t)
    PROVE  IdInv'
<1>1. Instances' = Instances /\ \A t \in Threads : HasId(t)' <=> HasId(t)
  BY DEF Instances, HasId
<1>2. ThreadInv'
  BY <1>1 DEF IdInv, ThreadInv, Behind
<1>3. ASSUME NEW e \in interest' \cup pending' PROVE TagInv(e)
  <2>1. CASE e \in interest \cup pending
    BY <2>1 DEF IdInv
  <2>2. ASSUME NEW t \in Instances, e \in Added(t) PROVE TagInv(e)
    <3>1. /\ e \in Tagged /\ e.of = t /\ e.age = age[t]
          /\ Decode(e.data).instance_id = id[t]
          /\ IsValidSource(Decode(e.data).source)
      BY <2>2, AddedTag
    <3>2. t \in Threads /\ t # Nobody /\ HasId(t) /\ id[t] \in 0 .. InstanceValues - 1
      BY InstancesAssumption DEF Instances, HasId, IdInv, InstancesTypeOK
    <3>3. Behind(id[t], age[t])
      BY <3>2 DEF IdInv, ThreadInv
    <3> QED BY <3>1, <3>2, <3>3 DEF TagInv
  <2> QED BY <2>1, <2>2
<1>4. ASSUME NEW e \in interest' \cup pending' PROVE TagInv(e)'
  <2>1. TagInv(e)
    BY <1>3
  <2> QED BY <1>1, <2>1 DEF TagInv, Behind
<1> QED BY <1>2, <1>4 DEF IdInv

LEMMA CallStep ==
    ASSUME IdInv, NEW t \in Threads, CallCreate(t) \/ Acquire(t) \/ AcquireFails(t)
    PROVE  IdInv'
<1>1. InstancesTypeOK
  BY DEF IdInv
<1>2. PICK label \in Resources \cup {"idle", "fetch"} :
        /\ Goto(t, label)
        /\ held' \in [Threads -> SUBSET Resources]
        /\ pc[t] \in Resources \cup {"idle"}
        /\ UNCHANGED <<idCounter, id, age, interest, pending>>
  <2>1. CASE CallCreate(t)
    BY <1>1, <2>1 DEF CallCreate, InstancesTypeOK, Resources
  <2>2. CASE Acquire(t)
    BY <1>1, <2>2 DEF Acquire, InstancesTypeOK, Resources, Following
  <2>3. CASE AcquireFails(t)
    BY <1>1, <2>3 DEF AcquireFails, InstancesTypeOK, Resources
  <2> QED BY <2>1, <2>2, <2>3
<1>3. InstancesTypeOK'
  BY <1>1, <1>2 DEF InstancesTypeOK, Goto
<1>4. \A u \in Threads :
        /\ pc'[u] \in Created <=> pc[u] \in Created
        /\ pc'[u] = "refetch" <=> pc[u] = "refetch"
  BY <1>1, <1>2 DEF InstancesTypeOK, Goto, Resources, Created
<1> QED BY <1>2, <1>3, <1>4, SameIds

LEMMA StartStep ==
    ASSUME IdInv, NEW t \in Threads, StartInstance(t)
    PROVE  IdInv'
<1>1. InstancesTypeOK
  BY DEF IdInv
<1>2. t \in Instances
  BY DEF StartInstance, Instances, Created
<1>3. ServerEntry(t) \in Added(t) /\ IoUringEntry(t) \in Added(t)
  BY ServerAndIoUringAdded
<1>4. ServerEntry(t) \in Tagged /\ IoUringEntry(t) \in Tagged
  BY <1>2, <1>3, AddedTag
<1>5. InstancesTypeOK'
  BY <1>1, <1>4 DEF InstancesTypeOK, StartInstance, Goto, Created
<1>6. \A u \in Threads :
        /\ pc'[u] \in Created <=> pc[u] \in Created
        /\ pc'[u] = "refetch" <=> pc[u] = "refetch"
  BY <1>1 DEF InstancesTypeOK, StartInstance, Goto, Created
<1>7. \A e \in interest' \cup pending' :
        e \in interest \cup pending \/ \E u \in Instances : e \in Added(u)
  BY <1>2, <1>3 DEF StartInstance
<1> QED BY <1>5, <1>6, <1>7, SameIds DEF StartInstance

LEMMA WatchStep ==
    ASSUME IdInv, NEW t \in Threads, NEW s \in 0 .. NO_SESSION - 1,
           NEW g \in 0 .. GenerationValues - 1,
           WatchSession(t, s, g) \/ UnwatchSession(t, s, g)
    PROVE  IdInv'
<1>1. InstancesTypeOK
  BY DEF IdInv
<1>2. CASE WatchSession(t, s, g)
  <2>1. t \in Instances
    BY <1>2 DEF WatchSession, Instances, Created
  <2>2. EntryOf(t, SESSION, s, g) \in Added(t)
    BY SessionAdded
  <2>3. EntryOf(t, SESSION, s, g) \in Tagged
    BY <2>1, <2>2, AddedTag
  <2>4. InstancesTypeOK'
    BY <1>1, <1>2, <2>3 DEF InstancesTypeOK, WatchSession
  <2>5. \A e \in interest' \cup pending' :
          e \in interest \cup pending \/ \E u \in Instances : e \in Added(u)
    BY <1>2, <2>1, <2>2 DEF WatchSession
  <2> QED BY <1>2, <2>4, <2>5, SameIds DEF WatchSession
<1>3. CASE UnwatchSession(t, s, g)
  <2>1. interest' \subseteq interest /\ pending' \subseteq interest \cup pending
    BY <1>3 DEF UnwatchSession, Unwatch
  <2>2. UNCHANGED <<pc, held, idCounter, id, age>>
    BY <1>3 DEF UnwatchSession
  <2>3. InstancesTypeOK'
    BY <1>1, <2>1, <2>2 DEF InstancesTypeOK
  <2> QED BY <2>1, <2>2, <2>3, SameIds
<1> QED BY <1>2, <1>3

LEMMA ShutdownStep ==
    ASSUME IdInv, NEW t \in Threads, ShutdownInstance(t) \/ ShutdownCompletes(t)
    PROVE  IdInv'
<1>1. InstancesTypeOK
  BY DEF IdInv
<1>2. PICK label \in Created :
        Goto(t, label) /\ pc[t] \in Created /\ UNCHANGED <<held, idCounter, id, age>>
  BY DEF ShutdownInstance, ShutdownCompletes, Created
<1>3. t \in Instances /\ ServerEntry(t) \in Added(t)
  BY <1>2, ServerAndIoUringAdded DEF Instances
<1>4. interest' \cup pending' \subseteq interest \cup pending \cup {ServerEntry(t)}
  <2>1. CASE ShutdownCompletes(t)
    BY <2>1 DEF ShutdownCompletes
  <2>2. CASE ShutdownInstance(t)
    BY <2>2 DEF ShutdownInstance, Unwatch
  <2> QED BY <2>1, <2>2
<1>5. ServerEntry(t) \in Tagged
  BY <1>3, AddedTag
<1>6. InstancesTypeOK'
  BY <1>1, <1>2, <1>4, <1>5 DEF InstancesTypeOK, Goto
<1>7. \A u \in Threads :
        /\ pc'[u] \in Created <=> pc[u] \in Created
        /\ pc'[u] = "refetch" <=> pc[u] = "refetch"
  BY <1>1, <1>2 DEF InstancesTypeOK, Goto, Created
<1> QED BY <1>2, <1>3, <1>4, <1>6, <1>7, SameIds

-----------------------------------------------------------------------------
(* Taking an id makes all others one older, and its own the only new one.  *)

LEMMA AdvanceCases ==
    ASSUME NEW c \in 0 .. InstanceValues - 1
    PROVE  Advance(c) = IF c = InstanceValues - 1 THEN 0 ELSE c + 1
<1>1. InstanceValues \in Nat \ {0}
  BY WidthAssumption
<1>2. CASE c = InstanceValues - 1
  BY <1>1, <1>2 DEF Advance
<1>3. CASE c # InstanceValues - 1
  BY <1>1, <1>3 DEF Advance
<1> QED BY <1>2, <1>3

LEMMA OneBehind ==
    ASSUME NEW x \in 0 .. InstanceValues - 1, NEW a \in 0 .. InstanceValues,
           idCounter \in 0 .. InstanceValues - 1, Behind(x, a),
           idCounter' = Advance(idCounter)
    PROVE  Behind(x, GrowOld(a))'
  BY WidthAssumption, AdvanceCases DEF Behind, GrowOld

LEMMA TakeStep ==
    ASSUME IdInv, NEW t \in Threads, FetchId(t) \/ RefetchId(t)
    PROVE  IdInv'
<1>1. InstancesTypeOK /\ ThreadInv /\ InstanceValues \in Nat \ {0}
  BY WidthAssumption DEF IdInv
<1>2. TakeId(t) /\ t \notin Instances
  BY DEF FetchId, RefetchId, Instances, Created
<1>3. PICK label \in {"refetch", "created"} :
        /\ Goto(t, label)
        /\ label = "refetch" <=> pc[t] = "fetch" /\ idCounter = 0
        /\ pc[t] \in {"fetch", "refetch"}
  BY DEF FetchId, RefetchId, MustRefetch
<1>4. InstancesTypeOK'
  <2>1. idCounter' \in 0 .. InstanceValues - 1
    BY <1>1, <1>2 DEF TakeId, Advance, InstancesTypeOK
  <2>2. age' \in [Threads -> 0 .. InstanceValues]
    BY <1>1, <1>2 DEF TakeId, GrowOld, InstancesTypeOK
  <2>3. id' \in [Threads -> 0 .. InstanceValues - 1]
    BY <1>1, <1>2 DEF TakeId, InstancesTypeOK
  <2>4. ASSUME NEW S \in SUBSET Tagged PROVE AllOlder(S) \subseteq Tagged
    BY <1>1 DEF AllOlder, Tagged, GrowOld
  <2>5. interest' \subseteq Tagged /\ pending' \subseteq Tagged
    BY <1>1, <1>2, <2>4 DEF TakeId, InstancesTypeOK
  <2>6. pc' \in [Threads -> Resources \cup Created \cup {"idle", "fetch", "refetch"}]
    BY <1>1, <1>3 DEF Goto, InstancesTypeOK, Created
  <2> QED BY <1>1, <1>2, <2>1, <2>2, <2>3, <2>5, <2>6 DEF TakeId, InstancesTypeOK
<1>5. /\ pc'[t] = label /\ id'[t] = idCounter /\ age'[t] = 0
      /\ \A u \in Threads \ {t} : pc'[u] = pc[u] /\ id'[u] = id[u]
      /\ \A u \in Threads \ {t} : HasId(u) => age'[u] = GrowOld(age[u])
  BY <1>1, <1>2, <1>3 DEF TakeId, Goto, InstancesTypeOK
<1>6. /\ HasId(t)'
      /\ \A u \in Threads \ {t} : HasId(u)' <=> HasId(u)
      /\ Instances' \subseteq Instances \cup {t} /\ Instances \subseteq Instances'
  BY <1>2, <1>3, <1>5 DEF HasId, Instances, Created
<1>7. /\ idCounter \in 0 .. InstanceValues - 1 /\ id \in [Threads -> 0 .. InstanceValues - 1]
      /\ age \in [Threads -> 0 .. InstanceValues] /\ idCounter' = Advance(idCounter)
  BY <1>1, <1>2 DEF InstancesTypeOK, TakeId
<1>8. PICK c \in 0 .. InstanceValues - 1 : c = idCounter
  BY <1>7
<1>9. Behind(c, 0)'
  BY <1>1, <1>7, <1>8, AdvanceCases DEF Behind
<1>10. \A u \in Threads \ {t} : HasId(u) => Behind(id[u], age[u])'
  <2> SUFFICES ASSUME NEW u \in Threads \ {t}, HasId(u)
               PROVE  Behind(id[u], age[u])'
    OBVIOUS
  <2>1. PICK x \in 0 .. InstanceValues - 1, a \in 0 .. InstanceValues :
          x = id[u] /\ a = age[u]
    BY <1>7
  <2>2. Behind(x, GrowOld(a))'
    BY <1>1, <1>7, <2>1, OneBehind DEF ThreadInv
  <2> QED BY <1>5, <2>1, <2>2 DEF Behind
<1>11. ThreadInv'
  <2>1. \A u \in Threads : HasId(u)' => Behind(id[u], age[u])'
    <3>1. Behind(id[t], age[t])'
      BY <1>5, <1>8, <1>9 DEF Behind
    <3> QED BY <1>6, <1>10, <3>1
  <2>2. \A u, v \in Threads :
          u # v /\ HasId(u)' /\ HasId(v)' /\ age'[u] = age'[v]
          => age'[u] = InstanceValues
    <3>1. \A u \in Threads \ {t} : HasId(u) => age'[u] # 0
      BY <1>1, <1>5, <1>7 DEF GrowOld
    <3>2. \A u, v \in Threads \ {t} :
            u # v /\ HasId(u) /\ HasId(v) /\ age'[u] = age'[v]
            => age'[u] = InstanceValues
      BY <1>1, <1>5, <1>7 DEF GrowOld, ThreadInv
    <3> QED BY <1>5, <1>6, <3>1, <3>2
  <2>3. \A u \in Threads : pc'[u] = "refetch" => id'[u] = 0 /\ age'[u] <= MaxOvertakes
    <3>1. ASSUME pc'[t] = "refetch" PROVE id'[t] = 0 /\ age'[t] <= MaxOvertakes
      BY <1>3, <1>5, <3>1, InstancesAssumption
    <3>2. ASSUME NEW u \in Threads \ {t}, pc'[u] = "refetch"
          PROVE  id'[u] = 0 /\ age'[u] <= MaxOvertakes
      BY <1>1, <1>2, <1>5, <1>7, <3>2, InstancesAssumption
         DEF TakeId, GrowOld, ThreadInv, HasId
    <3> QED BY <3>1, <3>2
  <2>4. \A u \in Instances' : id'[u] # 0
    <3>1. ASSUME t \in Instances' PROVE id'[t] # 0
      <4>1. label = "created"
        BY <1>5, <3>1 DEF Instances, Created
      <4>2. CASE pc[t] = "fetch"
        BY <1>3, <1>5, <4>1, <4>2
      <4>3. CASE pc[t] = "refetch"
        <5>1. id[t] = 0 /\ age[t] <= MaxOvertakes /\ Behind(id[t], age[t])
          BY <1>1, <4>3 DEF ThreadInv, HasId
        <5> QED BY <1>1, <1>5, <1>7, <5>1, InstancesAssumption DEF Behind
      <4> QED BY <1>3, <4>2, <4>3
    <3>2. \A u \in Instances : u # t /\ u \in Threads /\ id'[u] # 0
      BY <1>1, <1>2, <1>5 DEF ThreadInv, Instances
    <3> QED BY <1>6, <3>1, <3>2
  <2> QED BY <2>1, <2>2, <2>3, <2>4 DEF ThreadInv
<1>12. ASSUME NEW e \in interest' \cup pending' PROVE TagInv(e)'
  <2>1. PICK d \in interest \cup pending :
          d \in Tagged /\ e = [d EXCEPT !.age = GrowOld(@)]
    BY <1>1, <1>2 DEF TakeId, AllOlder, InstancesTypeOK
  <2>2. /\ e.data = d.data /\ e.of = d.of /\ e.age = GrowOld(d.age)
        /\ d.age \in 0 .. InstanceValues /\ TagInv(d)
    BY <2>1 DEF Tagged, IdInv
  <2>3. PICK x \in 0 .. InstanceValues - 1 : x = Decode(d.data).instance_id
    BY <2>2 DEF TagInv
  <2>4. Behind(x, GrowOld(d.age))'
    BY <1>7, <2>2, <2>3, OneBehind DEF TagInv
  <2>5. ASSUME d.of # Nobody
        PROVE  d.of \in Instances' /\ x = id'[d.of] /\ GrowOld(d.age) = age'[d.of]
    <3>1. /\ d.of \in Instances /\ x = id[d.of] /\ d.age = age[d.of]
          /\ d.of \in Threads \ {t} /\ HasId(d.of)
      BY <1>2, <2>2, <2>3, <2>5 DEF TagInv, Instances, HasId
    <3> QED BY <1>5, <1>6, <3>1
  <2>6. ASSUME d.of = Nobody, NEW u \in Threads, HasId(u)', age'[u] = GrowOld(d.age)
        PROVE  GrowOld(d.age) = InstanceValues
    <3>1. CASE u = t
      BY <1>1, <1>5, <2>2, <2>6, <3>1 DEF GrowOld
    <3>2. CASE u # t
      <4>1. HasId(u) /\ age'[u] = GrowOld(age[u]) /\ age[u] \in 0 .. InstanceValues
        BY <1>5, <1>6, <1>7, <2>6, <3>2
      <4>2. age[u] = d.age => d.age = InstanceValues
        BY <2>2, <2>6, <4>1 DEF TagInv
      <4> QED BY <1>1, <2>2, <2>6, <4>1, <4>2 DEF GrowOld
    <3> QED BY <3>1, <3>2
  <2> QED BY <2>2, <2>3, <2>4, <2>5, <2>6 DEF TagInv
<1> QED BY <1>4, <1>11, <1>12 DEF IdInv

-----------------------------------------------------------------------------
(* Destroying an instance leaves its entries to nobody, with its age.      *)

LEMMA DestroyStep ==
    ASSUME IdInv, NEW t \in Threads, Destroy(t)
    PROVE  IdInv'
<1>1. InstancesTypeOK /\ ThreadInv /\ Nobody \notin Threads
  BY InstancesAssumption DEF IdInv
<1>2. /\ pc[t] \in Created /\ Goto(t, "idle") /\ UNCHANGED idCounter
      /\ id' = [id EXCEPT ![t] = 0] /\ age' = [age EXCEPT ![t] = 0]
      /\ held' = [held EXCEPT ![t] = @ \ {Labels[i] : i \in DOMAIN Labels}]
  BY DEF Destroy
<1>3. \A e \in interest' \cup pending' : \E d \in interest \cup pending :
        \/ d.of # t /\ e = d
        \/ d.of = t /\ e = [d EXCEPT !.of = Nobody]
  BY DEF Destroy
<1>4. /\ t \in Instances /\ HasId(t)
      /\ Instances' = Instances \ {t}
      /\ \A u \in Threads : HasId(u)' <=> u # t /\ HasId(u)
      /\ \A u \in Threads \ {t} : pc'[u] = pc[u] /\ id'[u] = id[u] /\ age'[u] = age[u]
  BY <1>1, <1>2 DEF Instances, HasId, Goto, Created, InstancesTypeOK
<1>5. interest' \cup pending' \subseteq Tagged
  BY <1>1, <1>3 DEF InstancesTypeOK, Tagged
<1>6. InstancesTypeOK'
  BY <1>1, <1>2, <1>5, WidthAssumption DEF InstancesTypeOK, Goto
<1>7. ThreadInv'
  BY <1>1, <1>2, <1>4 DEF ThreadInv, Behind, Goto, InstancesTypeOK
<1>8. ASSUME NEW e \in interest' \cup pending' PROVE TagInv(e)'
  <2>1. PICK d \in interest \cup pending :
          /\ d \in Tagged /\ TagInv(d)
          /\ \/ d.of # t /\ e = d
             \/ d.of = t /\ e = [d EXCEPT !.of = Nobody]
    BY <1>1, <1>3 DEF IdInv, InstancesTypeOK
  <2>2. CASE d.of # t /\ e = d
    BY <1>2, <1>4, <2>1, <2>2 DEF TagInv, Behind, Instances
  <2>3. CASE d.of = t /\ e = [d EXCEPT !.of = Nobody]
    <3>1. e.data = d.data /\ e.age = age[t] /\ e.of = Nobody /\ d.age = e.age
      BY <1>1, <2>1, <2>3 DEF Tagged, TagInv
    <3>2. \A u \in Threads : HasId(u)' /\ age'[u] = e.age => e.age = InstanceValues
      BY <1>1, <1>4, <3>1 DEF ThreadInv
    <3> QED BY <1>2, <2>1, <3>1, <3>2 DEF TagInv, Behind
  <2> QED BY <2>1, <2>2, <2>3
<1> QED BY <1>6, <1>7, <1>8 DEF IdInv

-----------------------------------------------------------------------------
(* The invariant *)

LEMMA NothingNew ==
    ASSUME IdInv, UNCHANGED <<pc, held, idCounter, id, age>>,
           interest' \subseteq interest, pending' \subseteq pending
    PROVE  IdInv'
<1>1. InstancesTypeOK'
  BY DEF IdInv, InstancesTypeOK
<1> QED BY <1>1, SameIds

LEMMA InitIdInv == Init => IdInv
<1> SUFFICES ASSUME Init PROVE IdInv
  OBVIOUS
<1>1. InstancesInit /\ InstanceValues \in Nat \ {0, 1} /\ 1 % InstanceValues = 1
  BY WidthAssumption, InstancesAssumption DEF Init
<1>2. InstancesTypeOK
  BY <1>1 DEF InstancesInit, InstancesTypeOK
<1>3. \A t \in Threads : ~HasId(t) /\ t \notin Instances /\ pc[t] = "idle"
  BY <1>1 DEF InstancesInit, HasId, Instances, Created
<1>4. ThreadInv
  BY <1>3 DEF ThreadInv, Instances
<1>5. interest \cup pending = {}
  BY <1>1 DEF InstancesInit
<1> QED BY <1>2, <1>4, <1>5 DEF IdInv

LEMMA NextIdInv == IdInv /\ [Next]_vars => IdInv'
<1> SUFFICES ASSUME IdInv, [Next]_vars PROVE IdInv'
  OBVIOUS
<1>1. ASSUME NEW t \in Threads, CreateStep(t) PROVE IdInv'
  BY <1>1, CallStep, TakeStep DEF CreateStep
<1>2. ASSUME NEW t \in Threads, LifeStep(t) PROVE IdInv'
  BY <1>2, ShutdownStep, WatchStep, DestroyStep DEF LifeStep
<1>3. CASE EventStep
  <2>1. interest' \subseteq interest /\ pending' \subseteq pending
    BY <1>3 DEF EventStep, CloseAbandoned, ProcessEvent
  <2>2. UNCHANGED <<pc, held, idCounter, id, age>>
    BY <1>3 DEF EventStep, CloseAbandoned, ProcessEvent
  <2> QED BY <2>1, <2>2, NothingNew
<1>4. CASE UNCHANGED instanceVars
  BY <1>4, NothingNew DEF instanceVars
<1>5. ASSUME NEW t \in Threads, Start(t) PROVE IdInv'
  BY <1>5, StartStep DEF Start
<1>6. CASE UNCHANGED vars
  BY <1>4, <1>6 DEF vars
<1> QED
  BY <1>1, <1>2, <1>3, <1>4, <1>5, <1>6 DEF Next, InstanceStep, ListeningStep, GiveUp

(* The ages of ids never lie: how far the counter is ahead of an id is the *)
(* number of ids that were fetched since, and what is in the interest list *)
(* or was fetched from it carries the id of the instance that put it there.*)
THEOREM IdInvariance == Spec => []IdInv
<1>1. Init => IdInv
  BY InitIdInv
<1>2. IdInv /\ [Next]_vars => IdInv'
  BY NextIdInv
<1> QED BY <1>1, <1>2, PTL DEF Spec

-----------------------------------------------------------------------------
(* Instances that exist at the same time differ in their ids, for any      *)
(* number of threads, until the counter has wrapped.                       *)
THEOREM IdsDistinct == Spec => []InstanceIdsDistinct
<1>1. IdInv => InstanceIdsDistinct
  <2> SUFFICES ASSUME IdInv, NEW t \in Instances, NEW u \in Instances,
                      t # u, id[t] = id[u]
               PROVE  InstanceValues \in {age[t], age[u]}
    BY DEF InstanceIdsDistinct
  <2>1. /\ t \in Threads /\ u \in Threads /\ HasId(t) /\ HasId(u)
        /\ age[t] \in 0 .. InstanceValues /\ age[u] \in 0 .. InstanceValues
        /\ id[t] \in 0 .. InstanceValues - 1
    BY DEF IdInv, InstancesTypeOK, Instances, HasId
  <2>2. Behind(id[t], age[t]) /\ Behind(id[t], age[u])
    BY <2>1 DEF IdInv, ThreadInv
  <2>3. age[t] = age[u] => age[t] = InstanceValues
    BY <2>1 DEF IdInv, ThreadInv
  <2> QED BY <2>1, <2>2, <2>3, WidthAssumption DEF Behind
<1> QED BY <1>1, IdInvariance, PTL

(* Whatever was registered on the shared epoll instance, its events are    *)
(* owned by the instance that registered it and by no other, until the     *)
(* counter has wrapped.                                                    *)
THEOREM OneOwner == Spec => []EventsHaveOneOwner
<1>1. IdInv => EventsHaveOneOwner
  <2> SUFFICES ASSUME IdInv, NEW e \in interest \cup pending
               PROVE  /\ e.of # Nobody => OwnsEvent(id[e.of], e.data)
                      /\ \A t \in Instances \ {e.of} :
                           OwnsEvent(id[t], e.data) => InstanceValues \in {e.age, age[t]}
    BY DEF EventsHaveOneOwner
  <2>1. TagInv(e) /\ e \in Tagged
    BY DEF IdInv, InstancesTypeOK
  <2>2. e.of # Nobody => OwnsEvent(id[e.of], e.data)
    BY <2>1 DEF TagInv, OwnsEvent
  <2>3. ASSUME NEW t \in Instances \ {e.of}, OwnsEvent(id[t], e.data)
        PROVE  InstanceValues \in {e.age, age[t]}
    <3>1. PICK x \in 0 .. InstanceValues - 1 : x = Decode(e.data).instance_id
      BY <2>1 DEF TagInv
    <3>2. /\ id[t] = x /\ t \in Threads /\ HasId(t)
          /\ age[t] \in 0 .. InstanceValues /\ e.age \in 0 .. InstanceValues
      BY <2>1, <2>3, <3>1 DEF OwnsEvent, IdInv, InstancesTypeOK, Instances, HasId, Tagged
    <3>3. Behind(x, age[t]) /\ Behind(x, e.age)
      BY <2>1, <3>1, <3>2 DEF IdInv, ThreadInv, TagInv
    <3>4. age[t] = e.age => e.age = InstanceValues
      <4>1. CASE e.of = Nobody
        BY <2>1, <3>2, <4>1 DEF TagInv
      <4>2. CASE e.of # Nobody
        <5>1. e.of \in Threads /\ HasId(e.of) /\ e.age = age[e.of] /\ e.of # t
          BY <2>1, <2>3, <4>2 DEF TagInv, Instances, HasId
        <5> QED BY <3>2, <5>1 DEF IdInv, ThreadInv
      <4> QED BY <4>1, <4>2
    <3> QED BY <3>2, <3>3, <3>4, WidthAssumption DEF Behind
  <2> QED BY <2>2, <2>3
<1> QED BY <1>1, IdInvariance, PTL

(* No instance ever owns an event of the application's own descriptors.    *)
THEOREM ForeignEvents == Spec => []ForeignEventsNotOwned
<1>1. IdInv => ForeignEventsNotOwned
  <2> SUFFICES ASSUME IdInv, NEW t \in Instances, NEW data \in Datas, IsForeign(data)
               PROVE  ~OwnsEvent(id[t], data)
    BY DEF ForeignEventsNotOwned
  <2>1. id[t] # 0
    BY DEF IdInv, ThreadInv
  <2>2. data \in Nat
    BY DEF Datas
  <2> QED BY <2>1, <2>2, ForeignNotOwned
<1> QED BY <1>1, IdInvariance, PTL

-----------------------------------------------------------------------------
(* mcon_create's error labels *)

LEMMA Released ==
    /\ ReleasedFrom(LabelOf["ring"]) = {}
    /\ ReleasedFrom(LabelOf["eventfd"]) = {"ring"}
    /\ ReleasedFrom(LabelOf["io_queue"]) = {"ring", "eventfd"}
    /\ ReleasedFrom(LabelOf["sessions"]) = {"ring", "eventfd", "io_queue"}
    /\ ReleasedFrom(LabelOf["free_stack"]) = {"ring", "eventfd", "io_queue", "sessions"}
    /\ ReleasedFrom(LabelOf["instance"]) =
         {"ring", "eventfd", "io_queue", "sessions", "free_stack"}
    /\ {Labels[i] : i \in DOMAIN Labels} =
         {"ring", "eventfd", "io_queue", "sessions", "free_stack"}
<1>1. Len(Labels) = 5 /\ DOMAIN Labels = 1 .. 5
  BY DEF Labels
<1>2. /\ Labels[1] = "free_stack" /\ Labels[2] = "sessions" /\ Labels[3] = "io_queue"
      /\ Labels[4] = "eventfd" /\ Labels[5] = "ring"
  BY DEF Labels
<1>3. /\ 6 .. 5 = {} /\ 5 .. 5 = {5} /\ 4 .. 5 = {4, 5} /\ 3 .. 5 = {3, 4, 5}
      /\ 2 .. 5 = {2, 3, 4, 5} /\ 1 .. 5 = {1, 2, 3, 4, 5}
  OBVIOUS
<1>4. /\ LabelOf["ring"] = 6 /\ LabelOf["eventfd"] = 5 /\ LabelOf["io_queue"] = 4
      /\ LabelOf["sessions"] = 3 /\ LabelOf["free_stack"] = 2 /\ LabelOf["instance"] = 1
  BY DEF LabelOf
<1> QED BY <1>1, <1>2, <1>3, <1>4 DEF ReleasedFrom

LEMMA InitCleanup == Init => CleanupExact
  BY DEF Init, InstancesInit, CleanupExact, Resources

LEMMA NextCleanup ==
    ASSUME IdInv, CleanupExact, [Next]_vars
    PROVE  CleanupExact'
<1>1. pc \in [Threads -> Resources \cup Created \cup {"idle", "fetch", "refetch"}]
      /\ held \in [Threads -> SUBSET Resources]
  BY DEF IdInv, InstancesTypeOK
<1>2. ASSUME NEW t \in Threads, NEW label, Goto(t, label), label \notin Resources,
             label = "idle" => held'[t] \subseteq {"instance"},
             \A u \in Threads \ {t} : held'[u] = held[u]
      PROVE  CleanupExact'
  BY <1>1, <1>2 DEF CleanupExact, Goto
<1>3. ASSUME UNCHANGED <<pc, held>> PROVE CleanupExact'
  BY <1>3 DEF CleanupExact
<1>4. ASSUME NEW t \in Threads, CreateStep(t) PROVE CleanupExact'
  <2>1. CASE CallCreate(t)
    <3>1. pc'[t] = "ring" /\ held'[t] \subseteq {"instance"}
      BY <1>1, <2>1 DEF CallCreate, Goto, CleanupExact
    <3>2. \A u \in Threads \ {t} : pc'[u] = pc[u] /\ held'[u] = held[u]
      BY <1>1, <2>1 DEF CallCreate, Goto
    <3> QED BY <3>1, <3>2, Released DEF CleanupExact
  <2>2. CASE Acquire(t)
    <3>1. /\ pc[t] \in Resources /\ pc'[t] = Following[pc[t]]
          /\ held'[t] = held[t] \cup {pc[t]}
      BY <1>1, <2>2 DEF Acquire, Goto
    <3>2. \A u \in Threads \ {t} : pc'[u] = pc[u] /\ held'[u] = held[u]
      BY <1>1, <2>2 DEF Acquire, Goto
    <3>3. ReleasedFrom(LabelOf[pc[t]]) = held[t] \ {"instance"}
      BY <3>1 DEF CleanupExact
    <3>4. /\ pc'[t] # "idle"
          /\ pc'[t] \in Resources =>
               ReleasedFrom(LabelOf[pc'[t]]) = held'[t] \ {"instance"}
      BY <3>1, <3>3, Released DEF Resources, Following
    <3> QED BY <3>2, <3>4 DEF CleanupExact
  <2>3. CASE AcquireFails(t)
    <3>1. held'[t] \subseteq {"instance"} /\ pc[t] \in Resources
      BY <1>1, <2>3 DEF AcquireFails, CleanupExact
    <3>2. \A u \in Threads \ {t} : held'[u] = held[u]
      BY <1>1, <2>3 DEF AcquireFails
    <3> QED BY <1>2, <2>3, <3>1, <3>2 DEF AcquireFails, Resources
  <2>4. CASE FetchId(t) \/ RefetchId(t)
    BY <1>2, <2>4 DEF FetchId, RefetchId, TakeId, Resources
  <2> QED BY <1>4, <2>1, <2>2, <2>3, <2>4 DEF CreateStep
<1>5. ASSUME NEW t \in Threads, LifeStep(t) PROVE CleanupExact'
  <2>1. CASE ShutdownInstance(t) \/ ShutdownCompletes(t)
    BY <1>2, <2>1 DEF ShutdownInstance, ShutdownCompletes, Resources
  <2>2. CASE \E s \in 0 .. NO_SESSION - 1, g \in 0 .. GenerationValues - 1 :
               WatchSession(t, s, g) \/ UnwatchSession(t, s, g)
    BY <1>3, <2>2 DEF WatchSession, UnwatchSession
  <2>3. CASE Destroy(t)
    <3>1. held'[t] \subseteq {"instance"}
      BY <1>1, <2>3, Released DEF Destroy, Resources
    <3>2. \A u \in Threads \ {t} : held'[u] = held[u]
      BY <1>1, <2>3 DEF Destroy
    <3> QED BY <1>2, <2>3, <3>1, <3>2 DEF Destroy, Resources
  <2> QED BY <1>5, <2>1, <2>2, <2>3 DEF LifeStep
<1>6. CASE EventStep
  BY <1>3, <1>6 DEF EventStep, CloseAbandoned, ProcessEvent
<1>7. CASE UNCHANGED instanceVars
  BY <1>3, <1>7 DEF instanceVars
<1>8. ASSUME NEW t \in Threads, Start(t) PROVE CleanupExact'
  BY <1>2, <1>8 DEF Start, StartInstance, Resources
<1>9. CASE UNCHANGED vars
  BY <1>7, <1>9 DEF vars
<1> QED
  BY <1>4, <1>5, <1>6, <1>7, <1>8, <1>9
  DEF Next, InstanceStep, ListeningStep, GiveUp

(* Every label of mcon_create's error handling releases exactly what was   *)
(* acquired before the jump to it.                                         *)
THEOREM Cleanup == Spec => []CleanupExact
<1>1. Init => CleanupExact
  BY InitCleanup
<1>2. IdInv /\ CleanupExact /\ [Next]_vars => CleanupExact'
  BY NextCleanup
<1> QED BY <1>1, <1>2, IdInvariance, PTL DEF Spec

-----------------------------------------------------------------------------
(* The listening socket *)

(* Between any two system calls the open socket, its traits and the        *)
(* addresses tried are those of the place the call has got to.             *)
THEOREM ListenInvariance == Spec => []ListenInv
<1>1. Init => ListenInv
  BY InitListenInv DEF Init
<1>2. ListenInv /\ [Next]_vars => ListenInv'
  BY StepListenInv, HandListenInv, SameListenInv
  DEF Next, InstanceStep, ListeningStep, Start, GiveUp, vars
<1> QED BY <1>1, <1>2, PTL DEF Spec

(* Type correctness for any number of threads and addresses; in particular *)
(* the count of open sockets does not go below zero.                       *)
THEOREM TypeCorrect == Spec => []TypeOK
<1>1. IdInv /\ ListenInv => TypeOK
  BY DEF IdInv, ListenInv, TypeOK
<1> QED BY <1>1, IdInvariance, ListenInvariance, PTL

(* Whatever calls fail, mcon_create_listening_socket has at most the one   *)
(* socket open that it works on, and returns that one or none.             *)
THEOREM SocketsClosed == Spec => []NoSocketLeaked
<1>1. ListenInv => NoSocketLeaked
  BY ListenInvImplies
<1> QED BY <1>1, ListenInvariance, PTL

(* Every address is tried before the call fails, the dual-stack ones first.*)
THEOREM Fallback == Spec => []FallbackInOrder
<1>1. ListenInv => FallbackInOrder
  BY ListenInvImplies
<1> QED BY <1>1, ListenInvariance, PTL

(* The socket mcon_create_listening_socket returns is one that mcon_start  *)
(* accepts.                                                                *)
THEOREM ReturnedSocketValid == Spec => []CreatedIsValid
<1>1. ListenInv => CreatedIsValid
  BY ListenInvImplies
<1> QED BY <1>1, ListenInvariance, PTL
=============================================================================
