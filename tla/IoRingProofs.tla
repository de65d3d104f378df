---------------------------- MODULE IoRingProofs ----------------------------
(***************************************************************************)
(* What each operator of the I/O pipeline does to its invariants and to    *)
(* the set of outstanding SQEs.  MconProofs cites these lemmas.            *)
(***************************************************************************)
EXTENDS IoRing, FiniteSetTheorems, TLAPS

IoInv == IoTypeOK /\ StagesDisjoint /\ InFlightCounted

(* The CQEs in the completion ring, for what does not depend on their order. *)
Posted == {cq[i] : i \in DOMAIN cq}

(* The bound on sqe_in_flight is a number. *)
LEMMA CounterMaxType ==
    CounterMax \in Nat /\ QueueSize \in Nat /\ QueueSize <= CounterMax
<1>1. QueueSize \in Nat /\ CounterMax \in QueueSize .. 2^16 - 1
    BY ConfigAssumption DEF ConfigAssumption
<1>. QED
    BY <1>1

(* The pipeline starts empty. *)
LEMMA IoInitOK ==
    IoInit => IoInv /\ Outstanding = {}
<1>1. SUFFICES ASSUME IoInit PROVE IoInv /\ Outstanding = {}
    OBVIOUS
<1>2. Unexecuted = {} /\ CompletedSqes = {}
    BY <1>1 DEF IoInit, Unexecuted, CompletedSqes
<1>3. IsFiniteSet({}) /\ Cardinality({}) = 0
    BY FS_EmptySet
<1>4. IoTypeOK
    <2>1. <<>> \in Seq(Cqes)
        OBVIOUS
    <2>2. eventfd \in BOOLEAN /\ owed \in BOOLEAN
        BY <1>1 DEF IoInit
    <2>. QED
        BY <1>1, <2>1, <2>2, CounterMaxType DEF IoInit, IoTypeOK
<1>5. DOMAIN cq = {} /\ Len(cq) = 0
    BY <1>1 DEF IoInit
<1>6. StagesDisjoint
    BY <1>1, <1>2, <1>3, <1>5 DEF IoInit, StagesDisjoint
<1>7. InFlightCounted
    BY <1>1, <1>3, <1>5 DEF IoInit, InFlightCounted
<1>. QED
    BY <1>2, <1>4, <1>6, <1>7 DEF IoInv, Outstanding

(* Nothing but the eventfd changes. *)
LEMMA IoUnchanged ==
    ASSUME IoInv, UNCHANGED <<queued, ring, kern, cq, sqeInFlight>>,
           eventfd' \in BOOLEAN, owed' \in BOOLEAN
    PROVE  IoInv' /\ Outstanding' = Outstanding
BY DEF IoInv, IoTypeOK, StagesDisjoint, InFlightCounted, Outstanding,
       Unexecuted, CompletedSqes

(* A pushed SQE that was not outstanding is outstanding. *)
LEMMA PushOK ==
    ASSUME IoInv, NEW e \in Sqes, e \notin Outstanding, Push(e),
           UNCHANGED <<ring, kern, cq, eventfd, owed, sqeInFlight>>
    PROVE  IoInv' /\ Outstanding' = Outstanding \cup {e}
<1>1. Unexecuted' = Unexecuted \cup {e} /\ CompletedSqes' = CompletedSqes
    BY DEF Push, Unexecuted, CompletedSqes
<1>2. IsFiniteSet(Unexecuted')
    BY <1>1, FS_AddElement DEF IoInv, StagesDisjoint
<1>3. StagesDisjoint'
    BY <1>1, <1>2 DEF IoInv, StagesDisjoint, Push, Outstanding, Unexecuted
<1>. QED
    BY <1>1, <1>3 DEF IoInv, IoTypeOK, InFlightCounted, Push, Outstanding

(* Popping and submitting moves SQEs, none is lost; the count grows by     *)
(* what the kernel took.                                                   *)
LEMMA PopAndSubmitOK ==
    ASSUME IoInv, NEW new, new \subseteq Sqes, IsFiniteSet(new),
           new \cap Outstanding = {},
           NEW P \in SUBSET (queued \cup new), NEW S \in SUBSET (ring \cup P),
           PopAndSubmit(queued \cup new, P, S)
    PROVE  /\ IoInv'
           /\ Outstanding' = Outstanding \cup new
           /\ sqeInFlight' = sqeInFlight + Cardinality(S)
<1>1. Unexecuted' = Unexecuted \cup new /\ CompletedSqes' = CompletedSqes
    BY DEF PopAndSubmit, Unexecuted, CompletedSqes
<1>2. IsFiniteSet(Unexecuted')
    BY <1>1, FS_Union DEF IoInv, StagesDisjoint
<1>3. StagesDisjoint'
    BY <1>1, <1>2 DEF IoInv, StagesDisjoint, PopAndSubmit, Outstanding, Unexecuted
<1>4. IsFiniteSet(S) /\ IsFiniteSet(kern) /\ kern \cap S = {}
    <2>1. S \subseteq Unexecuted \cup new /\ kern \subseteq Unexecuted
        BY DEF Unexecuted
    <2>2. IsFiniteSet(Unexecuted \cup new)
        BY FS_Union DEF IoInv, StagesDisjoint
    <2>. QED
        BY <2>1, <2>2, FS_Subset DEF IoInv, StagesDisjoint, Outstanding, Unexecuted
<1>5. Cardinality(kern \cup S) = Cardinality(kern) + Cardinality(S)
    <2>1. Cardinality(kern \cup S) =
             Cardinality(kern) + Cardinality(S) - Cardinality(kern \cap S)
        BY <1>4, FS_Union
    <2>2. Cardinality(kern \cap S) = 0
        BY <1>4, FS_EmptySet
    <2>3. Cardinality(kern) \in Nat /\ Cardinality(S) \in Nat
        BY <1>4, FS_CardinalityType
    <2>. QED
        BY <2>1, <2>2, <2>3
<1>6. Cardinality(kern) \in Nat /\ Cardinality(S) \in Nat /\ Len(cq) \in Nat
    BY <1>4, FS_CardinalityType DEF IoInv, IoTypeOK
<1>7. InFlightCounted' /\ sqeInFlight' = sqeInFlight + Cardinality(S)
    BY <1>5, <1>6 DEF IoInv, IoTypeOK, InFlightCounted, PopAndSubmit, CountSubmitted
<1>8. IoTypeOK'
    BY <1>6, <1>7 DEF IoInv, IoTypeOK, PopAndSubmit
<1>. QED
    BY <1>1, <1>3, <1>7, <1>8 DEF IoInv, Outstanding

(* The kernel completes an SQE: it stays outstanding, as a CQE. *)
LEMMA CompleteOK ==
    ASSUME IoInv, NEW e, NEW r \in Fds \cup Codes, Complete(e, r)
    PROVE  IoInv' /\ Outstanding' = Outstanding
<1>. DEFINE cqe == [sqe |-> e, res |-> r]
<1>1. e \in kern /\ e \in Sqes /\ cqe \in Cqes /\ cq \in Seq(Cqes)
    BY DEF IoInv, IoTypeOK, Complete, Cqes
<1>2. /\ cq' \in Seq(Cqes)
      /\ Len(cq') = Len(cq) + 1 /\ DOMAIN cq' = 1 .. Len(cq) + 1
      /\ \A i \in 1 .. Len(cq) : cq'[i] = cq[i]
      /\ cq'[Len(cq) + 1] = cqe
    BY <1>1 DEF Complete
<1>3. CompletedSqes' = CompletedSqes \cup {e}
    BY <1>1, <1>2 DEF CompletedSqes
<1>4. Unexecuted' = Unexecuted \ {e}
    BY <1>1 DEF Complete, Unexecuted, IoInv, StagesDisjoint
<1>5. IsFiniteSet(Unexecuted') /\ IsFiniteSet(kern)
    <2>1. kern \subseteq Unexecuted
        BY DEF Unexecuted
    <2>. QED
        BY <2>1, <1>4, FS_Subset DEF IoInv, StagesDisjoint
<1>6. e \notin CompletedSqes
    BY <1>1 DEF IoInv, StagesDisjoint, Unexecuted
<1>7. \A i, j \in DOMAIN cq' : cq'[i].sqe = cq'[j].sqe => i = j
    BY <1>1, <1>2, <1>6 DEF IoInv, StagesDisjoint, CompletedSqes
<1>8. StagesDisjoint'
    BY <1>3, <1>4, <1>5, <1>7 DEF IoInv, StagesDisjoint, Complete, Unexecuted
<1>9. InFlightCounted'
    <2>1. Cardinality(kern') = Cardinality(kern) - 1 /\ Cardinality(kern) \in Nat
        BY <1>1, <1>5, FS_RemoveElement, FS_CardinalityType DEF Complete
    <2>. QED
        BY <2>1, <1>2 DEF IoInv, IoTypeOK, InFlightCounted, Complete
<1>10. IoTypeOK'
    BY <1>2 DEF IoInv, IoTypeOK, Complete
<1>11. Outstanding' = Outstanding
    BY <1>1, <1>3, <1>4 DEF Outstanding, Unexecuted
<1>. QED
    BY <1>8, <1>9, <1>10, <1>11 DEF IoInv

(* The handler consumes the CQE at the head: its SQE was outstanding and   *)
(* no longer is.  The count may only be left alone or decremented.         *)
LEMMA ConsumeOK ==
    ASSUME IoInv, cq # <<>>, cq' = Tail(cq),
           sqeInFlight' \in {sqeInFlight - 1, sqeInFlight},
           UNCHANGED <<queued, ring, kern, eventfd, owed>>
    PROVE  /\ IoInv'
           /\ Head(cq).sqe \in Outstanding
           /\ Outstanding' = Outstanding \ {Head(cq).sqe}
<1>1. /\ cq \in Seq(Cqes) /\ Len(cq) > 0 /\ Head(cq) = cq[1]
      /\ cq' \in Seq(Cqes) /\ Len(cq') = Len(cq) - 1
      /\ DOMAIN cq' = 1 .. Len(cq) - 1 /\ DOMAIN cq = 1 .. Len(cq)
      /\ \A i \in DOMAIN cq' : cq'[i] = cq[i + 1]
    BY DEF IoInv, IoTypeOK
<1>2. Head(cq).sqe \in CompletedSqes
    BY <1>1 DEF CompletedSqes
<1>3. CompletedSqes' = CompletedSqes \ {Head(cq).sqe}
    <2>. DEFINE rest == {cq[i].sqe : i \in 2 .. Len(cq)}
    <2>1. ASSUME NEW x PROVE x \in CompletedSqes' <=> x \in rest
        <3>1. x \in CompletedSqes' => x \in rest
            BY <1>1 DEF CompletedSqes
        <3>2. ASSUME NEW i \in 2 .. Len(cq), x = cq[i].sqe PROVE x \in CompletedSqes'
            <4>1. i - 1 \in DOMAIN cq' /\ cq'[i - 1] = cq[i]
                BY <1>1
            <4>. QED
                BY <3>2, <4>1 DEF CompletedSqes
        <3>. QED
            BY <3>1, <3>2
    <2>2. \A i \in 2 .. Len(cq) : cq[i].sqe # cq[1].sqe
        BY <1>1 DEF IoInv, StagesDisjoint
    <2>3. rest = CompletedSqes \ {cq[1].sqe}
        BY <1>1, <2>2 DEF CompletedSqes
    <2>. QED
        BY <1>1, <2>1, <2>3
<1>4. Unexecuted' = Unexecuted /\ Head(cq).sqe \notin Unexecuted
    BY <1>2 DEF Unexecuted, IoInv, StagesDisjoint
<1>5. \A i, j \in DOMAIN cq' : cq'[i].sqe = cq'[j].sqe => i = j
    BY <1>1 DEF IoInv, StagesDisjoint
<1>6. StagesDisjoint'
    BY <1>3, <1>4, <1>5 DEF IoInv, StagesDisjoint
<1>7. Cardinality(kern) \in Nat
    <2>1. kern \subseteq Unexecuted
        BY DEF Unexecuted
    <2>. QED
        BY <2>1, FS_Subset, FS_CardinalityType DEF IoInv, StagesDisjoint
<1>8. InFlightCounted' /\ IoTypeOK'
    BY <1>1, <1>7, CounterMaxType DEF IoInv, IoTypeOK, InFlightCounted
<1>. QED
    BY <1>2, <1>3, <1>4, <1>6, <1>8 DEF IoInv, Outstanding

-----------------------------------------------------------------------------
(* The completion ring as a set.  An SQE is behind one CQE at most, so     *)
(* posting and consuming add and remove exactly one.                       *)

LEMMA PostedSqes ==
    ASSUME IoInv
    PROVE  /\ Posted \subseteq Cqes
           /\ CompletedSqes = {c.sqe : c \in Posted}
           /\ \A c, d \in Posted : c.sqe = d.sqe => c = d
BY DEF IoInv, IoTypeOK, StagesDisjoint, Posted, CompletedSqes

(* Nothing is posted or consumed. *)
LEMMA PostedKept ==
    ASSUME cq' = cq
    PROVE  Posted' = Posted /\ CompletedSqes' = CompletedSqes
BY DEF Posted, CompletedSqes

(* The kernel moves an SQE from its own stage to the completion ring. *)
LEMMA PostedByComplete ==
    ASSUME IoInv, NEW e, NEW r \in Fds \cup Codes, Complete(e, r)
    PROVE  /\ e \in Unexecuted /\ e \notin CompletedSqes
           /\ Posted' = Posted \cup {[sqe |-> e, res |-> r]}
           /\ CompletedSqes' = CompletedSqes \cup {e}
           /\ Unexecuted' = Unexecuted \ {e}
<1>. DEFINE cqe == [sqe |-> e, res |-> r]
<1>1. e \in kern /\ cq \in Seq(Cqes) /\ cqe \in Cqes
    BY DEF IoInv, IoTypeOK, Complete, Cqes
<1>2. /\ DOMAIN cq = 1 .. Len(cq) /\ DOMAIN cq' = 1 .. Len(cq) + 1 /\ Len(cq) \in Nat
      /\ \A i \in 1 .. Len(cq) : cq'[i] = cq[i]
      /\ cq'[Len(cq) + 1] = cqe
    BY <1>1 DEF Complete
<1>. HIDE DEF cqe
<1>3. Posted' = Posted \cup {cqe}
    BY <1>2 DEF Posted
<1>4. CompletedSqes' = CompletedSqes \cup {e}
    BY <1>2 DEF CompletedSqes, cqe
<1>5. e \in Unexecuted /\ e \notin CompletedSqes
    BY <1>1 DEF IoInv, StagesDisjoint, Unexecuted
<1>6. Unexecuted' = Unexecuted \ {e}
    BY <1>1 DEF Complete, Unexecuted, IoInv, StagesDisjoint
<1>. QED
    BY <1>3, <1>4, <1>5, <1>6 DEF cqe

(* The handler takes the CQE at the head out of the completion ring. *)
LEMMA PostedByConsume ==
    ASSUME IoInv, cq # <<>>, cq' = Tail(cq)
    PROVE  /\ Head(cq) \in Posted
           /\ Posted' = Posted \ {Head(cq)}
           /\ CompletedSqes' = CompletedSqes \ {Head(cq).sqe}
<1>1. /\ cq \in Seq(Cqes) /\ Len(cq) > 0 /\ Len(cq) \in Nat /\ Head(cq) = cq[1]
      /\ DOMAIN cq' = 1 .. Len(cq) - 1 /\ DOMAIN cq = 1 .. Len(cq)
      /\ \A i \in DOMAIN cq' : cq'[i] = cq[i + 1]
    BY DEF IoInv, IoTypeOK
<1>2. \A i \in 2 .. Len(cq) : i - 1 \in DOMAIN cq' /\ cq'[i - 1] = cq[i]
    BY <1>1
<1>3. \A i \in 2 .. Len(cq) : cq[i].sqe # cq[1].sqe
    BY <1>1 DEF IoInv, StagesDisjoint
<1>4. Posted' = {cq[i] : i \in 2 .. Len(cq)}
    <2>1. \A x \in Posted' : \E i \in 2 .. Len(cq) : x = cq[i]
        BY <1>1 DEF Posted
    <2>2. \A i \in 2 .. Len(cq) : cq[i] \in Posted'
        BY <1>2 DEF Posted
    <2>. QED
        BY <2>1, <2>2
<1>5. Head(cq) \in Posted /\ Posted' = Posted \ {Head(cq)}
    <2>1. Posted = {cq[i] : i \in 2 .. Len(cq)} \cup {cq[1]}
        BY <1>1 DEF Posted
    <2>2. cq[1] \notin {cq[i] : i \in 2 .. Len(cq)}
        BY <1>3
    <2>. QED
        BY <1>1, <1>4, <2>1, <2>2
<1>6. CompletedSqes' = {cq[i].sqe : i \in 2 .. Len(cq)}
    <2>1. \A x \in CompletedSqes' : \E i \in 2 .. Len(cq) : x = cq[i].sqe
        BY <1>1 DEF CompletedSqes
    <2>2. \A i \in 2 .. Len(cq) : cq[i].sqe \in CompletedSqes'
        BY <1>2 DEF CompletedSqes
    <2>. QED
        BY <2>1, <2>2
<1>7. CompletedSqes' = CompletedSqes \ {Head(cq).sqe}
    <2>1. CompletedSqes = {cq[i].sqe : i \in 2 .. Len(cq)} \cup {cq[1].sqe}
        BY <1>1 DEF CompletedSqes
    <2>2. cq[1].sqe \notin {cq[i].sqe : i \in 2 .. Len(cq)}
        BY <1>3
    <2>. QED
        BY <1>1, <1>6, <2>1, <2>2
<1>. QED
    BY <1>5, <1>7
=============================================================================
