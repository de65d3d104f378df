----------------------------- MODULE EpollEntry -----------------------------
(***************************************************************************)
(* The 64 bits of epoll_data: five fields side by side.  A width of n bits *)
(* is given as the number of its values, 2^n, and a shift as a division or *)
(* a multiplication.                                                       *)
(***************************************************************************)
EXTENDS Integers

CONSTANTS
    InstanceValues,    \* 2^MCON_EPOLL_ENTRY_INSTANCE_SIZE
    GenerationValues,  \* 2^MCON_EPOLL_ENTRY_GENERATION_SIZE
    SourceValues,      \* 2^MCON_EPOLL_ENTRY_SOURCE_SIZE
    SessionValues,     \* 2^MCON_EPOLL_ENTRY_SESSION_SIZE
    ReservedValues     \* 2^MCON_EPOLL_ENTRY_RESERVED_SIZE

ASSUME WidthAssumption ==
    /\ InstanceValues \in Nat \ {0}
    /\ GenerationValues \in Nat \ {0}
    /\ SourceValues \in Nat \ {0, 1, 2, 3}
    /\ SessionValues \in Nat \ {0}
    /\ ReservedValues \in Nat \ {0}

(* mcon_epoll_source *)
UNKNOWN == 0
SERVER_SOCKET == 1
IO_URING == 2
SESSION == 3

(* MCON_NO_SESSION *)
NO_SESSION == SessionValues - 1

(* struct mcon_epoll_entry *)
EpollEntries ==
    [instance_id : 0 .. InstanceValues - 1, generation : 0 .. GenerationValues - 1,
     source : 0 .. SourceValues - 1, session : 0 .. SessionValues - 1,
     reserved : 0 .. ReservedValues - 1]

(* The _SHIFT macros; reserved is shifted by 0. *)
SessionUnit == ReservedValues
SourceUnit == SessionValues * SessionUnit
GenerationUnit == SourceValues * SourceUnit
InstanceUnit == GenerationValues * GenerationUnit

(* mcon_encode_epoll_entry.  The fields are not masked, but those of       *)
(* EpollEntries fit side by side: the bitwise or is a sum.                 *)
Encode(entry) ==
    entry.instance_id * InstanceUnit + entry.generation * GenerationUnit
    + entry.source * SourceUnit + entry.session * SessionUnit + entry.reserved

(* mcon_decode_epoll_entry *)
Decode(data) ==
    [instance_id |-> (data \div InstanceUnit) % InstanceValues,
     generation  |-> (data \div GenerationUnit) % GenerationValues,
     source      |-> (data \div SourceUnit) % SourceValues,
     session     |-> (data \div SessionUnit) % SessionValues,
     reserved    |-> data % ReservedValues]

(* mcon_is_valid_source *)
IsValidSource(source) == source \in UNKNOWN .. SESSION

OwnsEvent_AnyInstance(instance_id, data) ==  \* mutant
    IsValidSource(Decode(data).source)

(* mcon_owns_event of an instance with this id. *)
OwnsEvent(instance_id, data) ==
    /\ Decode(data).instance_id = instance_id
    /\ IsValidSource(Decode(data).source)

(* What an application puts there for descriptors of its own, a descriptor *)
(* or an address: the upper bits are zero.                                 *)
IsForeign(data) == data \div InstanceUnit = 0
=============================================================================
