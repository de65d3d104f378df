------------------------- MODULE SessionEventsProofs ------------------------
(***************************************************************************)
(* Client events, for any number of sessions, descriptors, generations and *)
(* fetched events: stale ones are told from current ones, and a hang-up is *)
(* reported once, is real, and is not lost.                                *)
(***************************************************************************)
EXTENDS SessionEvents, TLAPS

(* A socket serves one session; a close is one of a connected session, and *)
(* one that was executed was asked for.                                    *)
SocketInv ==
    /\ executed \subseteq connected
    /\ \A s \in Sessions \ connected : doing[s] = {}
    /\ \A s \in executed : doing[s] = {"close"}
    /\ \A s \in Alive : sock[s] \in Fds \ arrived
    /\ \A s, u \in Alive : sock[s] = sock[u] => s = u

(* The interest list holds the open sockets with their sessions' current   *)
(* generations.                                                            *)
EntryInv ==
    /\ \A i \in interest :
         i.session \in Alive /\ i.fd = sock[i.session]
         /\ i.generation = generation[i.session]
    /\ \A s \in Alive : \E i \in interest : i.session = s

(* An event released a times since is that many generations behind.        *)
EventBehind(e) ==
    e.age < Generations =>
        \/ generation[e.session] = e.generation + e.age
        \/ generation[e.session] = e.generation + e.age - Generations

(* An event of the present connection tells the truth about a hang-up.     *)
EventTrue(e) ==
    e.age = 0 =>
        /\ e.session \in connected
        /\ e.session \in Alive /\ "RDHUP" \in e.conds => "RDHUP" \in conds[sock[e.session]]

EventInv == \A e \in fetched : EventBehind(e) /\ EventTrue(e)

(* The mark is set with the report, except when the socket is closed.      *)
HangupInv ==
    /\ \A s \in Sessions : hangups[s] \in {0, 1} /\ (hangups[s] = 1 => s \in rdhup)
    /\ \A s \in Alive : s \in rdhup => hangups[s] = 1

Inv ==
    /\ TypeOK /\ SocketInv /\ EntryInv /\ EventInv /\ HangupInv
    /\ HangupsAreReal /\ HangupNotLost

-----------------------------------------------------------------------------
(* Sessions *)

LEMMA ProcessAcceptInv ==
    ASSUME Inv, NEW s \in Sessions, NEW fd \in Fds, ProcessAccept(s, fd)
    PROVE  Inv'
<1>1. /\ fd \in arrived /\ s \notin connected /\ s \notin executed
      /\ connected' = connected \cup {s} /\ doing' = doing
      /\ arrived' = arrived \ {fd}
      /\ UNCHANGED <<generation, executed, conds, edgeTriggered, fetched>>
  BY DEF ProcessAccept, Api!Accept, PrepForNewClient, Inv, SocketInv
<1>2. /\ interest' = interest \cup
           {[fd |-> fd, session |-> s, generation |-> generation[s]]}
      /\ ready' = IF edgeTriggered /\ conds[fd] # {} THEN ready \cup {fd} ELSE ready
      /\ sock' = [sock EXCEPT ![s] = fd] /\ rdhup' = rdhup \ {s}
      /\ hangups' = [hangups EXCEPT ![s] = 0] /\ misled' = misled \ {s}
  BY DEF ProcessAccept, PrepForNewClient, ClearState
<1>3. TypeOK /\ SocketInv /\ EntryInv /\ EventInv /\ HangupInv /\ HangupsAreReal
      /\ HangupNotLost
  BY DEF Inv
<1>4. [fd |-> fd, session |-> s, generation |-> generation[s]] \in Entries
  BY <1>3 DEF TypeOK, Entries
<1>5. TypeOK'
  BY <1>1, <1>2, <1>3, <1>4 DEF TypeOK
<1>6. /\ Alive' = Alive \cup {s} /\ s \notin Alive
      /\ sock'[s] = fd /\ \A u \in Alive : sock'[u] = sock[u] /\ sock[u] # fd
  BY <1>1, <1>2, <1>3 DEF Alive, TypeOK, SocketInv
<1>7. SocketInv'
  BY <1>1, <1>3, <1>6 DEF SocketInv
<1>8. EntryInv'
  <2> DEFINE new == [fd |-> fd, session |-> s, generation |-> generation[s]]
  <2>1. new.fd = fd /\ new.session = s /\ new.generation = generation[s] /\ new \in interest'
    BY <1>2
  <2>2. interest' = interest \cup {new}
    BY <1>2
  <2> HIDE DEF new
  <2>3. ASSUME NEW i \in interest'
        PROVE  /\ i.session \in Alive' /\ i.fd = sock'[i.session]
               /\ i.generation = generation'[i.session]
    BY <1>1, <1>3, <1>6, <2>1, <2>2 DEF EntryInv
  <2>4. ASSUME NEW u \in Alive' PROVE \E i \in interest' : i.session = u
    BY <1>3, <1>6, <2>1, <2>2 DEF EntryInv
  <2> QED BY <2>3, <2>4 DEF EntryInv
<1>9. EventInv'
  BY <1>1, <1>3, <1>6 DEF EventInv, EventBehind, EventTrue
<1>10. HangupInv'
  BY <1>2, <1>3, <1>6 DEF HangupInv, TypeOK
<1>11. HangupsAreReal'
  BY <1>1, <1>2, <1>3, <1>6 DEF HangupsAreReal
<1>12. HangupNotLost'
  <2> SUFFICES ASSUME NEW u \in Alive', "RDHUP" \in conds[sock'[u]], hangups'[u] = 0,
                      edgeTriggered, sock'[u] \notin ready'
               PROVE  \E e \in fetched : e.session = u /\ ~IsStale(e) /\ "RDHUP" \in e.conds
    BY <1>1 DEF HangupNotLost, IsStale
  <2>1. u \in Alive
    BY <1>2, <1>6
  <2>2. sock'[u] = sock[u] /\ hangups[u] = 0 /\ sock[u] \notin ready
    BY <1>2, <1>3, <1>6, <2>1 DEF TypeOK
  <2> QED BY <1>3, <2>1, <2>2 DEF HangupNotLost
<1> QED BY <1>5, <1>7, <1>8, <1>9, <1>10, <1>11, <1>12 DEF Inv

LEMMA RequestCloseInv ==
    ASSUME Inv, NEW s \in Sessions, RequestClose(s)
    PROVE  Inv'
<1>1. /\ s \in connected /\ doing[s] = {} /\ connected' = connected
      /\ doing' = [doing EXCEPT ![s] = @ \cup {"close"}]
      /\ UNCHANGED <<sock, generation, rdhup, arrived, executed, conds, interest, ready,
                     edgeTriggered, fetched, hangups, misled>>
  BY DEF RequestClose, Api!Begin, sessionVars, kernelVars, historyVars
<1>2. TypeOK' /\ Alive' = Alive
  BY <1>1 DEF Inv, TypeOK, Alive
<1>3. SocketInv'
  BY <1>1, <1>2 DEF Inv, TypeOK, SocketInv
<1> QED
  BY <1>1, <1>2, <1>3
  DEF Inv, EntryInv, EventInv, EventBehind, EventTrue, HangupInv, HangupsAreReal,
      HangupNotLost, IsStale

LEMMA NextGenerationFacts ==
    ASSUME NEW g \in 0 .. Generations - 1
    PROVE  /\ NextGeneration(g) \in 0 .. Generations - 1
           /\ NextGeneration(g) \in {g + 1, g + 1 - Generations}
  BY SessionEventsAssumption DEF NextGeneration

(* A released session: its events grow older as its generation advances.   *)
LEMMA ReleasedEvents ==
    ASSUME Inv, NEW s \in Sessions, ResetAfterClose(s), connected' = connected \ {s},
           Alive' = Alive \ {s}, \A u \in Alive' : conds'[sock[u]] = conds[sock[u]]
    PROVE  /\ EventInv' /\ fetched' \subseteq Events
           /\ generation' \in [Sessions -> 0 .. Generations - 1]
           /\ \A u \in Sessions \ {s} :
                sock'[u] = sock[u] /\ generation'[u] = generation[u]
           /\ \A e \in fetched : e.session # s => e \in fetched'
<1>1. /\ sock' = [sock EXCEPT ![s] = NoFd] /\ fetched' = {Older(e, s) : e \in fetched}
      /\ generation' = [generation EXCEPT ![s] = NextGeneration(@)]
  BY DEF ResetAfterClose
<1>2. TypeOK /\ EventInv /\ Generations \in Nat \ {0}
  BY SessionEventsAssumption DEF Inv
<1>3. /\ generation' \in [Sessions -> 0 .. Generations - 1]
      /\ \A u \in Sessions \ {s} : sock'[u] = sock[u] /\ generation'[u] = generation[u]
      /\ generation'[s] = NextGeneration(generation[s])
  BY <1>1, <1>2, NextGenerationFacts DEF TypeOK
<1>4. ASSUME NEW f \in fetched' PROVE EventBehind(f)' /\ EventTrue(f)' /\ f \in Events
  <2>1. PICK e \in fetched : f = Older(e, s)
    BY <1>1
  <2>2. e \in Events /\ EventBehind(e) /\ EventTrue(e)
    BY <1>2 DEF TypeOK, EventInv
  <2>3. /\ e.session \in Sessions /\ e.generation \in 0 .. Generations - 1
        /\ e.age \in 0 .. Generations
    BY <2>2 DEF Events
  <2>4. CASE e.session # s
    <3>1. f = e
      BY <2>1, <2>4 DEF Older
    <3>2. EventBehind(f)'
      BY <1>3, <2>2, <2>3, <2>4, <3>1 DEF EventBehind
    <3>3. EventTrue(f)'
      BY <1>3, <2>2, <2>3, <2>4, <3>1 DEF EventTrue
    <3> QED BY <2>2, <3>1, <3>2, <3>3
  <2>5. CASE e.session = s
    <3>1. /\ f.session = s /\ f.generation = e.generation
          /\ f.age = IF e.age < Generations THEN e.age + 1 ELSE e.age
          /\ f \in Events
      BY <1>2, <2>1, <2>2, <2>3, <2>5 DEF Older, Events
    <3>2. EventBehind(f)'
      <4> SUFFICES ASSUME f.age < Generations
                   PROVE  \/ generation'[s] = e.generation + f.age
                          \/ generation'[s] = e.generation + f.age - Generations
        BY <3>1 DEF EventBehind
      <4>1. f.age = e.age + 1 /\ e.age < Generations
        BY <2>3, <3>1
      <4>2. \/ generation[s] = e.generation + e.age
            \/ generation[s] = e.generation + e.age - Generations
        BY <2>2, <2>5, <4>1 DEF EventBehind
      <4>3. generation[s] \in 0 .. Generations - 1
        BY <1>2 DEF TypeOK
      <4> QED BY <1>2, <1>3, <2>3, <4>1, <4>2, <4>3 DEF NextGeneration
    <3>3. f.age # 0
      BY <1>2, <2>3, <3>1
    <3> QED BY <3>1, <3>2, <3>3 DEF EventTrue
  <2> QED BY <2>4, <2>5
<1>5. \A e \in fetched : e.session # s => e \in fetched'
  BY <1>1 DEF Older
<1> QED BY <1>3, <1>4, <1>5 DEF EventInv

LEMMA ProcessCloseInv ==
    ASSUME Inv, NEW s \in Sessions, ProcessClose(s)
    PROVE  Inv'
<1>1. /\ s \in executed /\ s \in connected /\ connected' = connected \ {s}
      /\ doing' = [doing EXCEPT ![s] = {}] /\ executed' = executed \ {s}
      /\ ResetAfterClose(s)
      /\ UNCHANGED <<arrived, conds, interest, ready, edgeTriggered, hangups, misled, rdhup>>
  BY DEF ProcessClose, Api!Release, ResetAfterClose, historyVars
<1>2. TypeOK /\ SocketInv /\ EntryInv /\ EventInv /\ HangupInv /\ HangupsAreReal
      /\ HangupNotLost
  BY DEF Inv
<1>3. Alive' = Alive \ {s} /\ s \notin Alive /\ Alive \subseteq Sessions
  BY <1>1, <1>2 DEF Alive, TypeOK
<1>4. /\ EventInv' /\ fetched' \subseteq Events
      /\ generation' \in [Sessions -> 0 .. Generations - 1]
      /\ \A u \in Sessions \ {s} : sock'[u] = sock[u] /\ generation'[u] = generation[u]
      /\ \A e \in fetched : e.session # s => e \in fetched'
  BY <1>1, <1>3, ReleasedEvents
<1>5. sock' \in [Sessions -> Fds \cup {NoFd}]
  BY <1>1, <1>2 DEF ResetAfterClose, TypeOK
<1>6. TypeOK'
  BY <1>1, <1>2, <1>4, <1>5 DEF TypeOK
<1>7. SocketInv'
  BY <1>1, <1>2, <1>3, <1>4 DEF SocketInv, TypeOK
<1>8. EntryInv'
  BY <1>1, <1>2, <1>3, <1>4 DEF EntryInv
<1>9. HangupInv' /\ HangupsAreReal'
  BY <1>1, <1>2, <1>3, <1>4 DEF HangupInv, HangupsAreReal
<1>10. HangupNotLost'
  BY <1>1, <1>2, <1>3, <1>4 DEF HangupNotLost, IsStale
<1> QED BY <1>2, <1>4, <1>6, <1>7, <1>8, <1>9, <1>10 DEF Inv

(* The socket of s leaves the interest list. *)
LEMMA UnwatchFacts ==
    ASSUME Inv, NEW s \in Alive, Unwatch(sock[s])
    PROVE  /\ interest' \subseteq interest /\ ready' \subseteq ready
           /\ conds' \in [Fds -> SUBSET Conditions]
           /\ \A i \in interest : i \in interest' <=> i.session # s
           /\ \A u \in Alive \ {s} :
                /\ conds'[sock[u]] = conds[sock[u]]
                /\ sock[u] \in ready => sock[u] \in ready'
<1>1. TypeOK /\ SocketInv /\ EntryInv
  BY DEF Inv
<1>2. \A u \in Alive \ {s} : sock[u] # sock[s] /\ sock[u] \in Fds
  BY <1>1 DEF SocketInv
<1>3. \A i \in interest : i.fd = sock[s] <=> i.session = s
  BY <1>1, <1>2 DEF EntryInv
<1> QED BY <1>1, <1>2, <1>3 DEF Unwatch, TypeOK

LEMMA DetachInv ==
    ASSUME Inv, NEW s \in Sessions, Detach(s)
    PROVE  Inv'
<1>1. /\ doing[s] = {} /\ s \in connected /\ connected' = connected \ {s}
      /\ doing' = [doing EXCEPT ![s] = {}]
      /\ ResetAfterClose(s) /\ Unwatch(sock[s])
      /\ UNCHANGED <<arrived, executed, edgeTriggered, hangups, misled, rdhup>>
  BY DEF Detach, Api!Release, ResetAfterClose, historyVars
<1>2. TypeOK /\ SocketInv /\ EntryInv /\ EventInv /\ HangupInv /\ HangupsAreReal
      /\ HangupNotLost
  BY DEF Inv
<1>3. /\ s \in Alive /\ s \notin executed
      /\ Alive' = Alive \ {s} /\ Alive \subseteq Sessions
  BY <1>1, <1>2 DEF Alive, TypeOK, SocketInv
<1>4. /\ interest' \subseteq interest /\ ready' \subseteq ready
      /\ conds' \in [Fds -> SUBSET Conditions]
      /\ \A i \in interest : i \in interest' <=> i.session # s
      /\ \A u \in Alive \ {s} :
           /\ conds'[sock[u]] = conds[sock[u]]
           /\ sock[u] \in ready => sock[u] \in ready'
  BY <1>1, <1>3, UnwatchFacts
<1>5. /\ EventInv' /\ fetched' \subseteq Events
      /\ generation' \in [Sessions -> 0 .. Generations - 1]
      /\ \A u \in Sessions \ {s} : sock'[u] = sock[u] /\ generation'[u] = generation[u]
      /\ \A e \in fetched : e.session # s => e \in fetched'
  BY <1>1, <1>3, <1>4, ReleasedEvents
<1>6. sock' \in [Sessions -> Fds \cup {NoFd}]
  BY <1>1, <1>2 DEF ResetAfterClose, TypeOK
<1>7. TypeOK'
  BY <1>1, <1>2, <1>4, <1>5, <1>6 DEF TypeOK
<1>8. SocketInv'
  BY <1>1, <1>2, <1>3, <1>5 DEF SocketInv, TypeOK
<1>9. EntryInv'
  BY <1>2, <1>3, <1>4, <1>5 DEF EntryInv
<1>10. HangupInv' /\ HangupsAreReal'
  BY <1>1, <1>2, <1>3, <1>4, <1>5 DEF HangupInv, HangupsAreReal
<1>11. HangupNotLost'
  BY <1>1, <1>2, <1>3, <1>4, <1>5 DEF HangupNotLost, IsStale
<1> QED BY <1>2, <1>5, <1>7, <1>8, <1>9, <1>10, <1>11 DEF Inv

-----------------------------------------------------------------------------
(* The kernel and the clients *)

LEMMA KernelCloseInv ==
    ASSUME Inv, NEW s \in Sessions, KernelClose(s)
    PROVE  Inv'
<1>0. TypeOK /\ SocketInv /\ EntryInv /\ EventInv /\ HangupInv /\ HangupsAreReal
      /\ HangupNotLost
  BY DEF Inv
<1>1. /\ "close" \in doing[s] /\ s \notin executed /\ executed' = executed \cup {s}
      /\ Unwatch(sock[s])
      /\ UNCHANGED <<connected, doing, sock, generation, rdhup, arrived, edgeTriggered,
                     fetched, hangups, misled>>
  BY DEF KernelClose, apiVars, sessionVars, historyVars
<1>2. /\ s \in Alive /\ s \in connected /\ doing[s] = {"close"}
      /\ Alive' = Alive \ {s} /\ Alive \subseteq Sessions
  BY <1>0, <1>1 DEF Alive, TypeOK, SocketInv
<1>3. /\ interest' \subseteq interest /\ ready' \subseteq ready
      /\ conds' \in [Fds -> SUBSET Conditions]
      /\ \A i \in interest : i \in interest' <=> i.session # s
      /\ \A u \in Alive \ {s} :
           /\ conds'[sock[u]] = conds[sock[u]]
           /\ sock[u] \in ready => sock[u] \in ready'
  BY <1>1, <1>2, UnwatchFacts
<1>4. TypeOK' /\ SocketInv'
  BY <1>0, <1>1, <1>2, <1>3 DEF TypeOK, SocketInv
<1>5. EntryInv' /\ HangupInv' /\ HangupsAreReal'
  BY <1>0, <1>1, <1>2, <1>3 DEF EntryInv, HangupInv, HangupsAreReal
<1>6. EventInv'
  BY <1>0, <1>1, <1>2, <1>3 DEF EventInv, EventBehind, EventTrue
<1>7. HangupNotLost'
  BY <1>0, <1>1, <1>2, <1>3 DEF HangupNotLost, IsStale
<1> QED BY <1>4, <1>5, <1>6, <1>7 DEF Inv

LEMMA KernelAcceptInv ==
    ASSUME Inv, NEW fd \in Fds, KernelAccept(fd)
    PROVE  Inv'
<1>1. /\ fd \notin Open /\ arrived' = arrived \cup {fd}
      /\ UNCHANGED <<connected, doing, sock, generation, rdhup, executed, conds, interest,
                     ready, edgeTriggered, fetched, hangups, misled>>
  BY DEF KernelAccept, apiVars, sessionVars, historyVars
<1>2. Alive' = Alive /\ \A s \in Alive : sock[s] # fd
  BY <1>1 DEF Alive, Open
<1>3. TypeOK' /\ SocketInv'
  BY <1>1, <1>2 DEF Inv, TypeOK, SocketInv
<1> QED
  BY <1>1, <1>2, <1>3
  DEF Inv, EntryInv, EventInv, EventBehind, EventTrue, HangupInv, HangupsAreReal,
      HangupNotLost, IsStale

(* A condition is raised, or one other than RDHUP cleared. *)
LEMMA SameHangups ==
    ASSUME Inv, conds' \in [Fds -> SUBSET Conditions],
           \A fd \in Fds : "RDHUP" \in conds[fd] => "RDHUP" \in conds'[fd],
           UNCHANGED <<connected, doing, sock, generation, arrived, executed, interest,
                       edgeTriggered>>
    PROVE  /\ SocketInv' /\ EntryInv' /\ Alive' = Alive
           /\ \A s \in Alive :
                "RDHUP" \in conds[sock[s]] => "RDHUP" \in conds'[sock[s]]
           /\ \A e \in fetched : EventBehind(e)' /\ EventTrue(e)'
<1>1. TypeOK /\ SocketInv /\ EntryInv /\ EventInv /\ Alive' = Alive
  BY DEF Inv, Alive
<1>2. SocketInv' /\ EntryInv'
  BY <1>1 DEF SocketInv, EntryInv
<1>3. \A s \in Alive : "RDHUP" \in conds[sock[s]] => "RDHUP" \in conds'[sock[s]]
  BY <1>1 DEF SocketInv
<1>4. \A e \in fetched : EventBehind(e)' /\ EventTrue(e)'
  BY <1>1, <1>3 DEF EventInv, EventBehind, EventTrue
<1> QED BY <1>1, <1>2, <1>3, <1>4

LEMMA TransferInv ==
    ASSUME Inv, NEW s \in Sessions, NEW c \in Conditions, Transfer(s, c)
    PROVE  Inv'
<1>1. /\ s \in Alive /\ c # "RDHUP"
      /\ conds' = [conds EXCEPT ![sock[s]] = @ \ {c}]
      /\ UNCHANGED <<connected, doing, sock, generation, rdhup, arrived, executed,
                     interest, ready, edgeTriggered, fetched, hangups, misled>>
  BY DEF Transfer, apiVars, sessionVars, historyVars
<1>2. TypeOK /\ SocketInv /\ EventInv /\ HangupInv /\ HangupsAreReal /\ HangupNotLost
  BY DEF Inv
<1>3. /\ conds' \in [Fds -> SUBSET Conditions]
      /\ \A fd \in Fds : "RDHUP" \in conds'[fd] <=> "RDHUP" \in conds[fd]
  BY <1>1, <1>2 DEF TypeOK, SocketInv
<1>4. /\ SocketInv' /\ EntryInv' /\ Alive' = Alive
      /\ \A e \in fetched : EventBehind(e)' /\ EventTrue(e)'
  BY <1>1, <1>3, SameHangups
<1>5. TypeOK' /\ EventInv' /\ HangupInv'
  BY <1>1, <1>2, <1>3, <1>4 DEF TypeOK, EventInv, HangupInv
<1>6. HangupsAreReal' /\ HangupNotLost'
  BY <1>1, <1>2, <1>3, <1>4 DEF HangupsAreReal, HangupNotLost, SocketInv, IsStale
<1> QED BY <1>4, <1>5, <1>6 DEF Inv

LEMMA ClientActsInv ==
    ASSUME Inv, NEW fd \in Fds, NEW C \in ClientDoes, ClientActs(fd, C)
    PROVE  Inv'
<1>1. /\ conds' = [conds EXCEPT ![fd] = @ \cup C]
      /\ ready' = IF edgeTriggered /\ fd \in Watched THEN ready \cup {fd} ELSE ready
      /\ UNCHANGED <<connected, doing, sock, generation, rdhup, arrived, executed,
                     interest, edgeTriggered, fetched, hangups, misled>>
  BY DEF ClientActs, apiVars, sessionVars, historyVars
<1>2. /\ TypeOK /\ SocketInv /\ EntryInv /\ EventInv /\ HangupInv /\ HangupsAreReal
      /\ HangupNotLost
      /\ C \subseteq Conditions
  BY SessionEventsAssumption DEF Inv, AllClientActions, Conditions
<1>3. /\ conds' \in [Fds -> SUBSET Conditions]
      /\ \A f \in Fds : "RDHUP" \in conds[f] => "RDHUP" \in conds'[f]
      /\ \A f \in Fds \ {fd} : conds'[f] = conds[f]
  BY <1>1, <1>2 DEF TypeOK
<1>4. /\ SocketInv' /\ EntryInv' /\ Alive' = Alive
      /\ \A s \in Alive : "RDHUP" \in conds[sock[s]] => "RDHUP" \in conds'[sock[s]]
      /\ \A e \in fetched : EventBehind(e)' /\ EventTrue(e)'
  BY <1>1, <1>3, SameHangups
<1>5. TypeOK' /\ EventInv' /\ HangupInv'
  BY <1>1, <1>2, <1>3, <1>4 DEF TypeOK, EventInv, HangupInv
<1>6. HangupsAreReal'
  BY <1>1, <1>2, <1>4 DEF HangupsAreReal
<1>7. \A s \in Alive : sock[s] \in Watched /\ sock[s] \in Fds
  BY <1>2 DEF EntryInv, Watched, SocketInv
<1>8. HangupNotLost'
  <2> SUFFICES ASSUME NEW s \in Alive, "RDHUP" \in conds'[sock[s]], hangups[s] = 0,
                      edgeTriggered, sock[s] \notin ready'
               PROVE  \E e \in fetched : e.session = s /\ ~IsStale(e) /\ "RDHUP" \in e.conds
    BY <1>1, <1>4 DEF HangupNotLost, IsStale
  <2>1. sock[s] # fd /\ sock[s] \notin ready
    BY <1>1, <1>7
  <2> QED BY <1>2, <1>3, <1>7, <2>1 DEF HangupNotLost
<1> QED BY <1>4, <1>5, <1>6, <1>8 DEF Inv

LEMMA EpollWaitInv ==
    ASSUME Inv, NEW fd \in Fds, EpollWait(fd)
    PROVE  Inv'
<1>1. PICK i \in interest :
        /\ i.fd = fd
        /\ fetched' = fetched \cup
             {[session |-> i.session, generation |-> i.generation,
               conds |-> conds[fd], age |-> 0]}
  BY DEF EpollWait
<1>2. /\ ready' = ready \ {fd}
      /\ UNCHANGED <<connected, doing, sock, generation, rdhup, arrived, executed, conds,
                     interest, edgeTriggered, hangups, misled>>
  BY DEF EpollWait, apiVars, sessionVars, historyVars
<1>3. /\ TypeOK /\ SocketInv /\ EntryInv /\ EventInv /\ HangupInv /\ HangupsAreReal
      /\ HangupNotLost
  BY DEF Inv
<1>4. PICK e : e = [session |-> i.session, generation |-> i.generation,
                    conds |-> conds[fd], age |-> 0]
  OBVIOUS
<1>5. /\ e.session = i.session /\ e.generation = i.generation /\ e.conds = conds[fd]
      /\ e.age = 0 /\ e \in Events /\ fetched' = fetched \cup {e}
  BY <1>1, <1>3, <1>4, SessionEventsAssumption DEF TypeOK, Entries, Events
<1>6. /\ e.session \in Alive /\ sock[e.session] = fd /\ e.generation = generation[e.session]
      /\ e.generation \in 0 .. Generations - 1
  BY <1>1, <1>3, <1>5 DEF EntryInv, Events
<1>7. SocketInv' /\ EntryInv' /\ Alive' = Alive
      /\ \A f \in fetched : EventBehind(f)' /\ EventTrue(f)'
  BY <1>2, <1>3, SameHangups DEF TypeOK
<1>8. EventBehind(e)' /\ EventTrue(e)'
  BY <1>2, <1>5, <1>6, <1>7 DEF EventBehind, EventTrue, Alive
<1>9. TypeOK' /\ EventInv' /\ HangupInv' /\ HangupsAreReal'
  BY <1>2, <1>3, <1>5, <1>7, <1>8 DEF TypeOK, EventInv, HangupInv, HangupsAreReal
<1>10. HangupNotLost'
  <2> SUFFICES ASSUME NEW s \in Alive, "RDHUP" \in conds[sock[s]], hangups[s] = 0,
                      edgeTriggered, sock[s] \notin ready'
               PROVE  \E f \in fetched' :
                        f.session = s /\ f.generation = generation[f.session]
                        /\ "RDHUP" \in f.conds
    BY <1>2, <1>7 DEF HangupNotLost, IsStale
  <2>1. CASE sock[s] = fd
    <3>1. e.session = s
      BY <1>3, <1>6, <2>1 DEF SocketInv
    <3> QED BY <1>5, <1>6, <2>1, <3>1
  <2>2. CASE sock[s] # fd
    BY <1>2, <1>3, <1>5, <2>2 DEF HangupNotLost, IsStale
  <2> QED BY <2>1, <2>2
<1> QED BY <1>7, <1>9, <1>10 DEF Inv

-----------------------------------------------------------------------------
(* mcon_process_session_event *)

LEMMA StaleInv ==
    ASSUME Inv, NEW e \in fetched, ProcessSessionEvent(e), IsStale(e)
    PROVE  Inv'
<1>1. /\ fetched' = fetched \ {e}
      /\ UNCHANGED <<connected, doing, sock, generation, rdhup, arrived, executed, conds,
                     interest, ready, edgeTriggered, hangups, misled>>
  BY DEF ProcessSessionEvent, apiVars
<1>2. /\ TypeOK /\ SocketInv /\ EntryInv /\ EventInv /\ HangupInv /\ HangupsAreReal
      /\ HangupNotLost
  BY DEF Inv
<1>3. /\ SocketInv' /\ EntryInv' /\ Alive' = Alive
      /\ \A f \in fetched : EventBehind(f)' /\ EventTrue(f)'
  BY <1>1, <1>2, SameHangups DEF TypeOK
<1>4. TypeOK' /\ EventInv' /\ HangupInv' /\ HangupsAreReal'
  BY <1>1, <1>2, <1>3 DEF TypeOK, EventInv, HangupInv, HangupsAreReal
<1>5. HangupNotLost'
  BY <1>1, <1>2, <1>3 DEF HangupNotLost, IsStale
<1> QED BY <1>3, <1>4, <1>5 DEF Inv

LEMMA CurrentInv ==
    ASSUME Inv, NEW e \in fetched, ProcessSessionEvent(e), ~IsStale(e)
    PROVE  Inv'
<1>0. /\ TypeOK /\ SocketInv /\ EntryInv /\ EventInv /\ HangupInv /\ HangupsAreReal
      /\ HangupNotLost
  BY DEF Inv
<1>1. /\ fetched' = fetched \ {e} /\ MarkHangup(e) /\ ReadError(e)
      /\ hangups' = [hangups EXCEPT ![e.session] = @ + IF ReportsHangup(e) THEN 1 ELSE 0]
      /\ misled' = IF e.age = Generations THEN misled \cup {e.session} ELSE misled
      /\ UNCHANGED <<connected, doing, sock, generation, arrived, executed, interest,
                     ready, edgeTriggered>>
  BY DEF ProcessSessionEvent, apiVars
<1>2. PICK s \in Sessions :
        /\ s = e.session /\ e.generation = generation[s]
        /\ e.conds \in SUBSET Conditions /\ e.age \in 0 .. Generations
  BY <1>0 DEF TypeOK, Events, IsStale
<1>3. /\ conds' \in [Fds -> SUBSET Conditions]
      /\ \A fd \in Fds : "RDHUP" \in conds[fd] <=> "RDHUP" \in conds'[fd]
  BY <1>0, <1>1 DEF ReadError, TypeOK
<1>4. /\ SocketInv' /\ EntryInv' /\ Alive' = Alive
      /\ \A u \in Alive : "RDHUP" \in conds[sock[u]] => "RDHUP" \in conds'[sock[u]]
      /\ \A f \in fetched : EventBehind(f)' /\ EventTrue(f)'
  BY <1>1, <1>3, SameHangups
<1>5. /\ rdhup' = IF "RDHUP" \in e.conds THEN rdhup \cup {s} ELSE rdhup
      /\ hangups'[s] = hangups[s] + IF ReportsHangup(e) THEN 1 ELSE 0
      /\ \A u \in Sessions \ {s} : hangups'[u] = hangups[u]
      /\ hangups[s] \in {0, 1}
  BY <1>0, <1>1, <1>2 DEF MarkHangup, TypeOK, HangupInv
<1>6. ReportsHangup(e) => "RDHUP" \in e.conds /\ s \notin rdhup
  BY <1>2 DEF ReportsHangup
<1>7. s \in Alive /\ "RDHUP" \in e.conds /\ s \notin rdhup => ReportsHangup(e)
  BY <1>2 DEF ReportsHangup, GetsockoptFails, Open
<1>8. TypeOK'
  BY <1>0, <1>1, <1>2, <1>3, <1>5 DEF TypeOK
<1>9. EventInv'
  BY <1>1, <1>4 DEF EventInv
<1>10. HangupInv'
  <2>1. ASSUME NEW u \in Sessions
        PROVE  hangups'[u] \in {0, 1} /\ (hangups'[u] = 1 => u \in rdhup')
    <3>1. CASE u # s
      BY <1>0, <1>5, <3>1 DEF HangupInv
    <3>2. CASE u = s
      BY <1>0, <1>2, <1>5, <1>6, <3>2 DEF HangupInv
    <3> QED BY <3>1, <3>2
  <2>2. ASSUME NEW u \in Alive, u \in rdhup' PROVE hangups'[u] = 1
    <3>1. u \in Sessions
      BY <1>0 DEF Alive, TypeOK
    <3>2. CASE u # s
      BY <1>0, <1>5, <2>2, <3>1, <3>2 DEF HangupInv
    <3>3. CASE u = s /\ s \in rdhup
      <4>1. hangups[s] = 1 /\ ~ReportsHangup(e)
        BY <1>0, <1>6, <2>2, <3>3 DEF HangupInv
      <4> QED BY <1>5, <3>3, <4>1
    <3>4. CASE u = s /\ s \notin rdhup
      <4>1. ReportsHangup(e)
        BY <1>5, <1>7, <2>2, <3>4
      <4>2. hangups[s] = 0
        BY <1>0, <1>2, <1>5, <3>4 DEF HangupInv
      <4> QED BY <1>5, <3>4, <4>1, <4>2
    <3> QED BY <3>2, <3>3, <3>4
  <2> QED BY <1>4, <2>1, <2>2 DEF HangupInv
<1>11. HangupsAreReal'
  <2> SUFFICES ASSUME NEW u \in Alive, u \in rdhup' \ misled'
               PROVE  "RDHUP" \in conds'[sock[u]]
    BY <1>1, <1>4 DEF HangupsAreReal
  <2>1. CASE u \in rdhup
    BY <1>0, <1>1, <1>4, <2>1 DEF HangupsAreReal
  <2>2. CASE u \notin rdhup
    <3>1. u = s /\ "RDHUP" \in e.conds
      BY <1>5, <2>2
    <3>2. e.age # Generations
      BY <1>1, <1>2, <3>1
    <3>3. e.age = 0
      <4>1. generation[s] \in 0 .. Generations - 1 /\ EventBehind(e)
        BY <1>0, <1>2 DEF TypeOK, EventInv
      <4> QED BY <1>2, <3>2, <4>1, SessionEventsAssumption DEF EventBehind
    <3> QED BY <1>0, <1>2, <1>4, <3>1, <3>3 DEF EventInv, EventTrue
  <2> QED BY <2>1, <2>2
<1>12. HangupNotLost'
  <2> SUFFICES ASSUME NEW u \in Alive, "RDHUP" \in conds'[sock[u]], hangups'[u] = 0,
                      edgeTriggered, sock[u] \notin ready
               PROVE  \E f \in fetched' :
                        f.session = u /\ ~IsStale(f) /\ "RDHUP" \in f.conds
    BY <1>1, <1>4 DEF HangupNotLost, IsStale
  <2>1. u \in Sessions /\ sock[u] \in Fds
    BY <1>0 DEF Alive, TypeOK, SocketInv
  <2>2. hangups[u] = 0 /\ "RDHUP" \in conds[sock[u]]
    BY <1>0, <1>3, <1>5, <2>1 DEF HangupInv
  <2>3. PICK f \in fetched : f.session = u /\ ~IsStale(f) /\ "RDHUP" \in f.conds
    BY <1>0, <2>2 DEF HangupNotLost
  <2>4. f # e
    <3> SUFFICES ASSUME f = e PROVE FALSE
      OBVIOUS
    <3>1. u = s /\ u \in rdhup'
      BY <1>2, <1>5, <2>3
    <3> QED BY <1>4, <1>10, <3>1 DEF HangupInv
  <2> QED BY <1>1, <2>3, <2>4
<1> QED BY <1>4, <1>8, <1>9, <1>10, <1>11, <1>12 DEF Inv

-----------------------------------------------------------------------------
(* The invariant *)

LEMMA InitInv == Init => Inv
<1> SUFFICES ASSUME Init PROVE Inv
  OBVIOUS
<1>1. /\ connected = {} /\ executed = {} /\ arrived = {} /\ interest = {} /\ fetched = {}
      /\ rdhup = {} /\ hangups = [s \in Sessions |-> 0] /\ Alive = {}
      /\ doing = [s \in Sessions |-> {}]
  BY DEF Init, Alive
<1>2. TypeOK
  BY SessionEventsAssumption DEF Init, TypeOK
<1>3. SocketInv /\ EntryInv /\ EventInv /\ HangupInv
  BY <1>1 DEF SocketInv, EntryInv, EventInv, HangupInv
<1>4. HangupsAreReal /\ HangupNotLost
  BY <1>1 DEF HangupsAreReal, HangupNotLost
<1> QED BY <1>2, <1>3, <1>4 DEF Inv

LEMMA StutterInv ==
    ASSUME Inv, UNCHANGED vars
    PROVE  Inv'
<1>1. UNCHANGED <<connected, doing, sock, generation, rdhup, arrived, executed, conds,
                  interest, ready, edgeTriggered, fetched, hangups, misled>>
  BY DEF vars, apiVars, sessionVars, kernelVars, historyVars
<1>2. Alive' = Alive
  BY <1>1 DEF Alive
<1> QED
  BY <1>1, <1>2
  DEF Inv, TypeOK, SocketInv, EntryInv, EventInv, EventBehind, EventTrue, HangupInv,
      HangupsAreReal, HangupNotLost, IsStale

(* All of the invariant, whatever the constants: an event that was not     *)
(* overtaken by a release tells the truth about the present connection.    *)
THEOREM Invariance == Spec => []Inv
<1>1. Init => Inv
  BY InitInv
<1>2. Inv /\ [Next]_vars => Inv'
  <2> SUFFICES ASSUME Inv, [Next]_vars PROVE Inv'
    OBVIOUS
  <2>1. CASE SessionStep
    BY <2>1, ProcessAcceptInv, RequestCloseInv, ProcessCloseInv, DetachInv DEF SessionStep
  <2>2. ASSUME NEW e \in fetched, ProcessSessionEvent(e)
        PROVE  Inv'
    BY <2>2, StaleInv, CurrentInv
  <2>3. CASE Environment
    BY <2>3, KernelAcceptInv, KernelCloseInv, EpollWaitInv, ClientActsInv, TransferInv
    DEF Environment
  <2>4. CASE UNCHANGED vars
    BY <2>4, StutterInv
  <2> QED BY <2>1, <2>2, <2>3, <2>4 DEF Next
<1> QED BY <1>1, <1>2, PTL DEF Spec

-----------------------------------------------------------------------------
(* Type correctness for every number of sessions, descriptors, generations *)
(* and fetched events; in particular the generation stays in its byte.     *)
THEOREM TypeCorrect == Spec => []TypeOK
<1>1. Inv => TypeOK
  BY DEF Inv
<1> QED BY <1>1, Invariance, PTL

(* The generation tells the events of earlier connections from those of    *)
(* the present one, exactly, unless it has wrapped in between.             *)
THEOREM StaleMarked == Spec => []StaleEventsMarked
<1>1. Inv => StaleEventsMarked
  <2> SUFFICES ASSUME Inv, NEW e \in fetched, e.age < Generations
               PROVE  IsStale(e) <=> e.age > 0
    BY DEF StaleEventsMarked
  <2>1. /\ e.session \in Sessions /\ e.generation \in 0 .. Generations - 1
        /\ e.age \in 0 .. Generations /\ generation[e.session] \in 0 .. Generations - 1
        /\ EventBehind(e) /\ Generations \in Nat \ {0}
    BY SessionEventsAssumption DEF Inv, TypeOK, Events, EventInv
  <2> QED BY <2>1 DEF IsStale, EventBehind
<1> QED BY <1>1, Invariance, PTL

(* REMOTE_HANGUP is reported at most once per connection, however often    *)
(* epoll reports RDHUP.                                                    *)
THEOREM ReportedOnce == Spec => []HangupReportedOnce
<1>1. Inv => HangupReportedOnce
  BY DEF Inv, HangupInv, HangupReportedOnce
<1> QED BY <1>1, Invariance, PTL

(* The mark of a hang-up is never one of an earlier connection, unless an  *)
(* event as old as all generations set it.                                 *)
THEOREM MarksAreReal == Spec => []HangupsAreReal
<1>1. Inv => HangupsAreReal
  BY DEF Inv
<1> QED BY <1>1, Invariance, PTL

(* Until a hang-up is reported there is always an edge or a current event  *)
(* left that will report it.                                               *)
THEOREM NotLost == Spec => []HangupNotLost
<1>1. Inv => HangupNotLost
  BY DEF Inv
<1> QED BY <1>1, Invariance, PTL

(* A session is marked without a report only while it is being closed: no  *)
(* failing getsockopt silences a connection that goes on.                  *)
THEOREM NotSilenced == Spec => []MarkedIsReported
<1>1. Inv => MarkedIsReported
  <2> SUFFICES ASSUME Inv, NEW s \in connected, s \in rdhup
               PROVE  hangups[s] > 0 \/ "close" \in doing[s]
    BY DEF MarkedIsReported
  <2>1. CASE s \in executed
    BY <2>1 DEF Inv, SocketInv
  <2>2. CASE s \notin executed
    BY <2>2 DEF Inv, HangupInv, Alive
  <2> QED BY <2>1, <2>2
<1> QED BY <1>1, Invariance, PTL
=============================================================================
