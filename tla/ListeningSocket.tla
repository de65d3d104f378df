--------------------------- MODULE ListeningSocket --------------------------
(***************************************************************************)
(* mcon_create_listening_socket: two passes over what getaddrinfo found,   *)
(* the first for dual-stack wildcard addresses, the second for the others, *)
(* until one can be prepared; and mcon_listening_socket_valid.  The states *)
(* are those between its system calls, each of which may fail.             *)
(***************************************************************************)
EXTENDS Integers, Sequences

CONSTANT
    MaxAddresses  \* bound: length of getaddrinfo's result

ASSUME ListeningAssumption == MaxAddresses \in Nat

(* _can_try_dual_stack *)
AddressKinds == {"dual_stack", "other"}

(* What a socket has been given on its way to a listener. *)
Traits == {"stream", "nonblocking", "reuseport", "both_families", "bound", "listening"}

PrepCalls == {"socket", "reuseport", "v6only", "bind", "listen"}

VARIABLES
    addresses,  \* address_info_result
    pass,       \* which of the two loops runs
    rp,         \* the position in addresses
    call,       \* the system call to make next, or where the caller is
    traits,     \* of the open socket
    opened,     \* sockets open
    tried       \* the positions that were tried

listenVars == <<addresses, pass, rp, call, traits, opened, tried>>

ListenTypeOK ==
    /\ addresses \in Seq(AddressKinds)
    /\ pass \in {1, 2}
    /\ rp \in 0 .. MaxAddresses
    /\ call \in PrepCalls \cup {"none", "created", "failed"}
    /\ traits \subseteq Traits
    /\ opened \in Nat
    /\ tried \subseteq 1 .. MaxAddresses

ListenInit ==
    /\ addresses = <<>>
    /\ pass = 1
    /\ rp = 0
    /\ call = "none"
    /\ traits = {}
    /\ opened = 0
    /\ tried = {}

Eligible_DualOnly(list, p) == {i \in DOMAIN list : list[i] = "dual_stack"}  \* mutant

(* The addresses that the loop of this pass does not skip. *)
Eligible(list, p) == {i \in DOMAIN list : (list[i] = "dual_stack") = (p = 1)}

(* The loops go on to the next address, or are over. *)
TryAfter(list, p, i) ==
    LET Rest(q, from) == {j \in Eligible(list, q) : j > from}
        First(S) == CHOOSE j \in S : \A k \in S : j <= k
    IN  IF Rest(p, i) # {}
          THEN /\ pass' = p /\ rp' = First(Rest(p, i)) /\ call' = "socket"
        ELSE IF p = 1 /\ Rest(2, 0) # {}
          THEN /\ pass' = 2 /\ rp' = First(Rest(2, 0)) /\ call' = "socket"
          ELSE /\ pass' = 2 /\ rp' = 0 /\ call' = "failed"

(* getaddrinfo fails, or finds some addresses. *)
CreateListeningSocket ==
    /\ call = "none"
    /\ \E n \in 0 .. MaxAddresses : \E list \in [1 .. n -> AddressKinds] :
         /\ addresses' = list
         /\ TryAfter(list, 1, 0)
    /\ UNCHANGED <<traits, opened, tried>>

Given_Blocking(c) ==  \* mutant: SOCK_NONBLOCK is left out
    CASE c = "socket"    -> {"stream"}
      [] c = "reuseport" -> {"reuseport"}
      [] c = "v6only"    -> {"both_families"}
      [] c = "bind"      -> {"bound"}
      [] c = "listen"    -> {"listening"}

(* _prep_server_socket: what a call that succeeds gives the socket, and    *)
(* the call after it.                                                      *)
Given(c) ==
    CASE c = "socket"    -> {"stream", "nonblocking"}
      [] c = "reuseport" -> {"reuseport"}
      [] c = "v6only"    -> {"both_families"}
      [] c = "bind"      -> {"bound"}
      [] c = "listen"    -> {"listening"}

After(c) ==
    CASE c = "socket"    -> "reuseport"
      [] c = "reuseport" -> IF addresses[rp] = "dual_stack" THEN "v6only" ELSE "bind"
      [] c = "v6only"    -> "bind"
      [] c = "bind"      -> "listen"
      [] c = "listen"    -> "created"

CallSucceeds ==
    /\ call \in PrepCalls
    /\ call' = After(call)
    /\ traits' = traits \cup Given(call)
    /\ opened' = IF call = "socket" THEN opened + 1 ELSE opened
    /\ tried' = tried \cup {rp}
    /\ UNCHANGED <<addresses, pass, rp>>

ClosedOnFailure_Always(c) == 1  \* mutant: also when there is no socket
ClosedOnFailure_NotListen(c) ==  \* mutant: the last error path forgets it
    IF c \in {"socket", "listen"} THEN 0 ELSE 1

(* A socket that was opened is closed by every error path. *)
ClosedOnFailure(c) == IF c = "socket" THEN 0 ELSE 1

CallFails ==
    /\ call \in PrepCalls
    /\ TryAfter(addresses, pass, rp)
    /\ traits' = {}
    /\ opened' = opened - ClosedOnFailure(call)
    /\ tried' = tried \cup {rp}
    /\ UNCHANGED addresses

(* mcon_listening_socket_valid returns MCON_SOCKET_OK. *)
ValidListener == opened > 0 /\ {"stream", "listening", "nonblocking"} \subseteq traits

(* The caller passes the socket on to an instance, or gives up. *)
Hand ==
    /\ call \in {"created", "failed"}
    /\ call' = "none"
    /\ traits' = {}
    /\ opened' = IF call = "created" THEN opened - 1 ELSE opened
    /\ pass' = 1 /\ rp' = 0
    /\ addresses' = <<>> /\ tried' = {}

ListenStep == CreateListeningSocket \/ CallSucceeds \/ CallFails

-----------------------------------------------------------------------------
(* Properties *)

(* At any moment the call has at most the one socket open that it works on,*)
(* and it returns with that socket or with none: no address that could not *)
(* be used leaves a descriptor behind.                                     *)
NoSocketLeaked ==
    opened = IF call \in (PrepCalls \ {"socket"}) \cup {"created"} THEN 1 ELSE 0

(* A socket for one family is only used when no dual-stack one could be    *)
(* prepared, and the call fails only when every address failed; what it    *)
(* returns then serves both families if the address allows it.             *)
FallbackInOrder ==
    /\ call = "failed" => tried = DOMAIN addresses
    /\ call \in PrepCalls \cup {"created"} =>
         /\ addresses[rp] = "other" => Eligible(addresses, 1) \subseteq tried
         /\ call = "created" /\ addresses[rp] = "dual_stack" =>
              "both_families" \in traits

(* mcon_start finds the socket of mcon_create_listening_socket valid. *)
CreatedIsValid == call = "created" => ValidListener
=============================================================================
