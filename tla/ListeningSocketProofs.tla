------------------------ MODULE ListeningSocketProofs -----------------------
(***************************************************************************)
(* mcon_create_listening_socket, for any number of addresses and whatever  *)
(* call fails: an inductive invariant, and what each step does to it.      *)
(***************************************************************************)
EXTENDS ListeningSocket, WellFoundedInduction, TLAPS

Working == PrepCalls \cup {"created"}

(* The loop of a pass has tried what it has passed, and the second one     *)
(* runs when the first has tried everything.                               *)
ProgressInv ==
    /\ call \in Working =>
         /\ rp \in Eligible(addresses, pass)
         /\ \A j \in Eligible(addresses, pass) : j < rp => j \in tried
         /\ pass = 2 => Eligible(addresses, 1) \subseteq tried
    /\ call = "failed" => DOMAIN addresses \subseteq tried
    /\ call = "none" => tried = {}
    /\ tried \subseteq DOMAIN addresses
    /\ Len(addresses) <= MaxAddresses

(* What the socket has been given when a call is reached. *)
TraitsInv ==
    /\ call \in Working \ {"socket"} => {"stream", "nonblocking"} \subseteq traits
    /\ call \in {"bind", "listen", "created"} /\ addresses[rp] = "dual_stack" =>
         "both_families" \in traits
    /\ call = "created" => "listening" \in traits

ListenInv == ListenTypeOK /\ ProgressInv /\ TraitsInv /\ NoSocketLeaked

-----------------------------------------------------------------------------
LEMMA Least ==
    ASSUME NEW S \in SUBSET Nat, S # {}
    PROVE  /\ (CHOOSE j \in S : \A k \in S : j <= k) \in S
           /\ \A i \in S : (CHOOSE j \in S : \A k \in S : j <= k) <= i
<1> DEFINE R == {ss \in Nat \X Nat : ss[1] < ss[2]}
<1>1. IsWellFoundedOn(R, Nat)
  BY NatLessThanWellFounded DEF OpToRel
<1>2. PICK x \in S : \A y \in S : ~(<<y, x>> \in R)
  <2> HIDE DEF R
  <2> QED BY <1>1, WFMin, Zenon
<1>3. \A y \in S : x <= y
  <2> SUFFICES ASSUME NEW y \in S PROVE x <= y
    OBVIOUS
  <2>1. <<y, x>> \in Nat \X Nat /\ <<y, x>> \notin R
    BY <1>2
  <2> QED BY <2>1
<1> QED BY <1>3

(* Where TryAfter goes. *)
LEMMA NextAddress ==
    ASSUME NEW list \in Seq(AddressKinds), NEW p \in {1, 2}, NEW i \in Nat,
           TryAfter(list, p, i)
    PROVE  \/ /\ pass' = p /\ call' = "socket"
              /\ rp' \in Eligible(list, p)
              /\ \A j \in Eligible(list, p) : j < rp' => j <= i
           \/ /\ pass' = 2 /\ call' = "socket" /\ p = 1
              /\ rp' \in Eligible(list, 2)
              /\ \A j \in Eligible(list, 2) : rp' <= j
              /\ \A j \in Eligible(list, 1) : j <= i
           \/ /\ pass' = 2 /\ call' = "failed" /\ rp' = 0
              /\ \A j \in Eligible(list, p) : j <= i
              /\ p = 1 => Eligible(list, 2) = {}
<1> DEFINE Rest(q, from) == {j \in Eligible(list, q) : j > from}
           First(S) == CHOOSE j \in S : \A k \in S : j <= k
<1>1. \A q \in {1, 2} : Eligible(list, q) \subseteq Nat \ {0}
  BY DEF Eligible
<1>2. \A q \in {1, 2}, from \in Nat :
        Rest(q, from) # {} =>
          /\ First(Rest(q, from)) \in Rest(q, from)
          /\ \A j \in Rest(q, from) : First(Rest(q, from)) <= j
  <2> SUFFICES ASSUME NEW q \in {1, 2}, NEW from \in Nat, Rest(q, from) # {}
               PROVE  /\ First(Rest(q, from)) \in Rest(q, from)
                      /\ \A j \in Rest(q, from) : First(Rest(q, from)) <= j
    OBVIOUS
  <2>1. Rest(q, from) \in SUBSET Nat
    BY <1>1
  <2> HIDE DEF Rest
  <2> QED BY <2>1, Least
<1>3. CASE Rest(p, i) # {}
  <2>1. pass' = p /\ rp' = First(Rest(p, i)) /\ call' = "socket"
    BY <1>3 DEF TryAfter
  <2>2. rp' \in Rest(p, i) /\ \A j \in Rest(p, i) : rp' <= j
    BY <1>2, <1>3, <2>1
  <2> QED BY <1>1, <2>1, <2>2
<1>4. CASE Rest(p, i) = {} /\ p = 1 /\ Rest(2, 0) # {}
  <2>1. pass' = 2 /\ rp' = First(Rest(2, 0)) /\ call' = "socket"
    BY <1>4 DEF TryAfter
  <2>2. rp' \in Rest(2, 0) /\ \A j \in Rest(2, 0) : rp' <= j
    BY <1>2, <1>4, <2>1
  <2> QED BY <1>1, <1>4, <2>1, <2>2
<1>5. CASE Rest(p, i) = {} /\ ~(p = 1 /\ Rest(2, 0) # {})
  <2>1. pass' = 2 /\ rp' = 0 /\ call' = "failed"
    BY <1>5 DEF TryAfter
  <2> QED BY <1>1, <1>5, <2>1
<1> QED BY <1>3, <1>4, <1>5

-----------------------------------------------------------------------------
LEMMA InitListenInv == ListenInit => ListenInv
  BY ListeningAssumption
  DEF ListenInit, ListenInv, ListenTypeOK, ProgressInv, TraitsInv, NoSocketLeaked,
      Working, PrepCalls

LEMMA HandListenInv ==
    ASSUME ListenInv, Hand
    PROVE  ListenInv'
  BY ListeningAssumption
  DEF Hand, ListenInv, ListenTypeOK, ProgressInv, TraitsInv, NoSocketLeaked,
      Working, PrepCalls

LEMMA SameListenInv ==
    ASSUME ListenInv, UNCHANGED listenVars
    PROVE  ListenInv'
  BY DEF listenVars, ListenInv, ListenTypeOK, ProgressInv, TraitsInv, NoSocketLeaked

LEMMA CreateListenInv ==
    ASSUME ListenInv, CreateListeningSocket
    PROVE  ListenInv'
<1>0. PICK n \in 0 .. MaxAddresses :
        \E list \in [1 .. n -> AddressKinds] :
          addresses' = list /\ TryAfter(list, 1, 0)
  BY DEF CreateListeningSocket
<1>1. PICK list \in [1 .. n -> AddressKinds] :
        addresses' = list /\ TryAfter(list, 1, 0)
  BY <1>0
<1>2. /\ call = "none" /\ UNCHANGED <<traits, opened, tried>>
      /\ n \in Nat /\ MaxAddresses \in Nat
  BY ListeningAssumption DEF CreateListeningSocket
<1>3. list \in Seq(AddressKinds) /\ Len(list) = n /\ DOMAIN list = 1 .. n
  BY <1>2
<1>4. tried' = {} /\ traits' \subseteq Traits /\ opened' = 0 /\ 0 \in Nat
  BY <1>2 DEF ListenInv, ListenTypeOK, ProgressInv, NoSocketLeaked, PrepCalls
<1>5. \A q : Eligible(list, q) \subseteq 1 .. n
  BY <1>3 DEF Eligible
<1>6. DOMAIN list = Eligible(list, 1) \cup Eligible(list, 2)
  BY DEF Eligible
<1>7. \/ /\ pass' \in {1, 2} /\ call' = "socket"
         /\ rp' \in Eligible(list, pass')
         /\ \A j \in Eligible(list, pass') : ~(j < rp')
         /\ pass' = 2 => Eligible(list, 1) = {}
      \/ pass' = 2 /\ call' = "failed" /\ rp' = 0 /\ DOMAIN list = {}
  <2>1. \A q, j : j \in Eligible(list, q) => ~(j <= 0) /\ j \in Nat
    BY <1>5
  <2>2. 1 \in {1, 2} /\ 0 \in Nat /\ TryAfter(list, 1, 0)
    BY <1>1
  <2>3. \/ /\ pass' = 1 /\ call' = "socket"
            /\ rp' \in Eligible(list, 1)
            /\ \A j \in Eligible(list, 1) : j < rp' => j <= 0
         \/ /\ pass' = 2 /\ call' = "socket"
            /\ rp' \in Eligible(list, 2)
            /\ \A j \in Eligible(list, 2) : rp' <= j
            /\ \A j \in Eligible(list, 1) : j <= 0
         \/ /\ pass' = 2 /\ call' = "failed" /\ rp' = 0
            /\ \A j \in Eligible(list, 1) : j <= 0
            /\ Eligible(list, 2) = {}
    BY <1>3, <2>2, NextAddress
  <2> QED BY <1>6, <2>1, <2>3
<1>8. ListenTypeOK'
  BY <1>1, <1>2, <1>3, <1>4, <1>5, <1>7 DEF ListenTypeOK, PrepCalls
<1>9. ProgressInv'
  BY <1>1, <1>2, <1>3, <1>4, <1>7 DEF ProgressInv, Working, PrepCalls
<1>10. TraitsInv' /\ NoSocketLeaked'
  BY <1>4, <1>7 DEF TraitsInv, NoSocketLeaked, Working, PrepCalls
<1> QED BY <1>8, <1>9, <1>10 DEF ListenInv

LEMMA SucceedsListenInv ==
    ASSUME ListenInv, CallSucceeds
    PROVE  ListenInv'
<1>1. /\ call \in PrepCalls /\ call' = After(call) /\ traits' = traits \cup Given(call)
      /\ opened' = IF call = "socket" THEN opened + 1 ELSE opened
      /\ tried' = tried \cup {rp} /\ UNCHANGED <<addresses, pass, rp>>
  BY DEF CallSucceeds
<1>2. call' \in Working \ {"socket"} /\ Given(call) \subseteq Traits
  BY <1>1 DEF After, Given, Working, PrepCalls, Traits
<1>3. rp \in DOMAIN addresses /\ rp \in 1 .. MaxAddresses
  BY <1>1, ListeningAssumption
  DEF ListenInv, ListenTypeOK, ProgressInv, Working, Eligible
<1>4. ListenTypeOK'
  BY <1>1, <1>2, <1>3 DEF ListenInv, ListenTypeOK, Working
<1>5. ProgressInv'
  BY <1>1, <1>2, <1>3 DEF ListenInv, ProgressInv, Working, PrepCalls
<1>6. TraitsInv'
  BY <1>1, <1>2 DEF ListenInv, TraitsInv, Working, PrepCalls, After, Given
<1>7. NoSocketLeaked'
  BY <1>1, <1>2 DEF ListenInv, ListenTypeOK, NoSocketLeaked, Working, PrepCalls
<1> QED BY <1>4, <1>5, <1>6, <1>7 DEF ListenInv

LEMMA FailsListenInv ==
    ASSUME ListenInv, CallFails
    PROVE  ListenInv'
<1>1. /\ call \in PrepCalls /\ TryAfter(addresses, pass, rp) /\ traits' = {}
      /\ opened' = opened - ClosedOnFailure(call)
      /\ tried' = tried \cup {rp} /\ UNCHANGED addresses
  BY DEF CallFails
<1>2. /\ addresses \in Seq(AddressKinds) /\ pass \in {1, 2}
      /\ rp \in DOMAIN addresses /\ rp \in 1 .. MaxAddresses
      /\ MaxAddresses \in Nat /\ DOMAIN addresses \subseteq 1 .. MaxAddresses
  BY <1>1, ListeningAssumption
  DEF ListenInv, ListenTypeOK, ProgressInv, Working, Eligible
<1>3. \A j \in Eligible(addresses, pass) : j <= rp => j \in tried'
  <2>1. \A j \in Eligible(addresses, pass) : j < rp => j \in tried
    BY <1>1 DEF ListenInv, ProgressInv, Working
  <2>2. Eligible(addresses, pass) \subseteq 1 .. MaxAddresses
    BY <1>2 DEF Eligible
  <2> QED BY <1>1, <1>2, <2>1, <2>2
<1>4. pass = 2 => Eligible(addresses, 1) \subseteq tried'
  BY <1>1 DEF ListenInv, ProgressInv, Working
<1>5. DOMAIN addresses = Eligible(addresses, 1) \cup Eligible(addresses, 2)
  BY DEF Eligible
<1>6. \/ /\ pass' \in {1, 2} /\ call' = "socket"
         /\ rp' \in Eligible(addresses, pass')
         /\ \A j \in Eligible(addresses, pass') : j < rp' => j \in tried'
         /\ pass' = 2 => Eligible(addresses, 1) \subseteq tried'
      \/ /\ pass' = 2 /\ call' = "failed" /\ rp' = 0
         /\ DOMAIN addresses \subseteq tried'
  <2>1. \A q, j : j \in Eligible(addresses, q) => j \in Nat
    BY <1>2 DEF Eligible
  <2>2. \/ /\ pass' = pass /\ call' = "socket"
            /\ rp' \in Eligible(addresses, pass)
            /\ \A j \in Eligible(addresses, pass) : j < rp' => j <= rp
         \/ /\ pass' = 2 /\ call' = "socket" /\ pass = 1
            /\ rp' \in Eligible(addresses, 2)
            /\ \A j \in Eligible(addresses, 2) : rp' <= j
            /\ \A j \in Eligible(addresses, 1) : j <= rp
         \/ /\ pass' = 2 /\ call' = "failed" /\ rp' = 0
            /\ \A j \in Eligible(addresses, pass) : j <= rp
            /\ pass = 1 => Eligible(addresses, 2) = {}
    BY <1>1, <1>2, NextAddress
  <2> QED BY <1>2, <1>3, <1>4, <1>5, <2>1, <2>2
<1>7. ListenTypeOK'
  <2>1. opened' \in Nat
    BY <1>1 DEF ListenInv, NoSocketLeaked, ClosedOnFailure, PrepCalls
  <2>2. rp' \in 0 .. MaxAddresses
    BY <1>2, <1>5, <1>6
  <2> QED BY <1>1, <1>2, <1>6, <2>1, <2>2 DEF ListenInv, ListenTypeOK, PrepCalls
<1>8. ProgressInv'
  BY <1>1, <1>2, <1>6 DEF ListenInv, ProgressInv, Working, PrepCalls
<1>9. TraitsInv' /\ NoSocketLeaked'
  BY <1>1, <1>6 DEF ListenInv, TraitsInv, NoSocketLeaked, Working, PrepCalls, ClosedOnFailure
<1> QED BY <1>7, <1>8, <1>9 DEF ListenInv

LEMMA StepListenInv ==
    ASSUME ListenInv, ListenStep
    PROVE  ListenInv'
  BY CreateListenInv, SucceedsListenInv, FailsListenInv DEF ListenStep

LEMMA ListenInvImplies ==
    ASSUME ListenInv
    PROVE  ListenTypeOK /\ NoSocketLeaked /\ FallbackInOrder /\ CreatedIsValid
<1>1. FallbackInOrder
  <2>1. call = "failed" => tried = DOMAIN addresses
    BY DEF ListenInv, ProgressInv
  <2>2. ASSUME call \in Working, addresses[rp] = "other"
        PROVE  Eligible(addresses, 1) \subseteq tried
    <3>1. pass # 1
      BY <2>2 DEF ListenInv, ProgressInv, Eligible
    <3> QED BY <2>2, <3>1 DEF ListenInv, ListenTypeOK, ProgressInv
  <2>3. call = "created" /\ addresses[rp] = "dual_stack" => "both_families" \in traits
    BY DEF ListenInv, TraitsInv
  <2> QED BY <2>1, <2>2, <2>3 DEF FallbackInOrder, Working
<1>2. CreatedIsValid
  BY DEF CreatedIsValid, ValidListener, ListenInv, TraitsInv, NoSocketLeaked, Working,
         PrepCalls
<1> QED BY <1>1, <1>2 DEF ListenInv
=============================================================================
