-------------------------- MODULE EpollEntryProofs --------------------------
(***************************************************************************)
(* Decoding an epoll entry is the inverse of encoding it, whatever the     *)
(* widths of the fields, and so are the events of an instance told from    *)
(* those of another one and from the application's own.                    *)
(***************************************************************************)
EXTENDS EpollEntry, TLAPS

(* The lower field is split off the higher ones: what is above it ...      *)
LEMMA Quotient ==
    ASSUME NEW a \in Nat, NEW b \in Nat \ {0}, NEW c \in 0 .. b - 1
    PROVE  (a * b + c) \div b = a
  OBVIOUS

(* ... and what is left of it. *)
LEMMA Remainder ==
    ASSUME NEW a \in Nat, NEW b \in Nat \ {0}, NEW c \in 0 .. b - 1
    PROVE  (a * b + c) % b = c
  OBVIOUS

(* A field with n values next to one with u values: n * u values in all. *)
LEMMA SideBySide ==
    ASSUME NEW n \in Nat \ {0}, NEW u \in Nat \ {0},
           NEW x \in 0 .. n - 1, NEW r \in 0 .. u - 1
    PROVE  n * u \in Nat \ {0} /\ x * u + r \in 0 .. n * u - 1
<1>1. x * u <= (n - 1) * u
  OBVIOUS
<1>2. (n - 1) * u = n * u - u
  OBVIOUS
<1>3. x * u \in Nat /\ n * u \in Nat /\ n * u >= u
  OBVIOUS
<1> QED BY <1>1, <1>2, <1>3

(* The sum of the shifted fields, with its parts below and above a field.  *)
LEMMA Layout ==
    ASSUME NEW i \in 0 .. InstanceValues - 1, NEW g \in 0 .. GenerationValues - 1,
           NEW s \in 0 .. SourceValues - 1, NEW x \in 0 .. SessionValues - 1,
           NEW r \in 0 .. ReservedValues - 1,
           NEW data, data = i * InstanceUnit + g * GenerationUnit + s * SourceUnit
                            + x * SessionUnit + r
    PROVE  /\ (data \div InstanceUnit) % InstanceValues = i
           /\ (data \div GenerationUnit) % GenerationValues = g
           /\ (data \div SourceUnit) % SourceValues = s
           /\ (data \div SessionUnit) % SessionValues = x
           /\ data % ReservedValues = r
<1>0. /\ InstanceValues \in Nat \ {0} /\ GenerationValues \in Nat \ {0}
      /\ SourceValues \in Nat \ {0} /\ SessionValues \in Nat \ {0}
      /\ ReservedValues \in Nat \ {0}
      /\ i \in Nat /\ g \in Nat /\ s \in Nat /\ x \in Nat /\ r \in Nat
  BY WidthAssumption
<1>1. SessionUnit \in Nat \ {0} /\ r \in 0 .. SessionUnit - 1
  BY <1>0 DEF SessionUnit
<1>2. PICK lowS : lowS = x * SessionUnit + r
  OBVIOUS
<1>3. SourceUnit \in Nat \ {0} /\ lowS \in 0 .. SourceUnit - 1
  BY <1>0, <1>1, <1>2, SideBySide DEF SourceUnit
<1>4. PICK lowG : lowG = s * SourceUnit + lowS
  OBVIOUS
<1>5. GenerationUnit \in Nat \ {0} /\ lowG \in 0 .. GenerationUnit - 1
  BY <1>0, <1>3, <1>4, SideBySide DEF GenerationUnit
<1>6. PICK lowI : lowI = g * GenerationUnit + lowG
  OBVIOUS
<1>7. InstanceUnit \in Nat \ {0} /\ lowI \in 0 .. InstanceUnit - 1
  BY <1>0, <1>5, <1>6, SideBySide DEF InstanceUnit
<1>8. /\ i * InstanceUnit \in Nat /\ g * GenerationUnit \in Nat
      /\ s * SourceUnit \in Nat /\ x * SessionUnit \in Nat
  BY <1>0, <1>1, <1>3, <1>5, <1>7
<1>9. (data \div InstanceUnit) % InstanceValues = i
  <2>1. data = i * InstanceUnit + lowI
    BY <1>2, <1>4, <1>6, <1>8
  <2>2. (i * InstanceUnit + lowI) \div InstanceUnit = i
    <3>1. i \in Nat /\ InstanceUnit \in Nat \ {0} /\ lowI \in 0 .. InstanceUnit - 1
      BY <1>0, <1>7
    <3> QED BY <3>1, Quotient, Zenon
  <2> QED BY <1>0, <2>1, <2>2
<1>10. PICK upToG : upToG = i * GenerationValues + g
  OBVIOUS
<1>11. /\ upToG \in Nat
       /\ i * InstanceUnit + g * GenerationUnit = upToG * GenerationUnit
  BY <1>0, <1>5, <1>10 DEF InstanceUnit
<1>12. (data \div GenerationUnit) % GenerationValues = g
  <2>1. data = upToG * GenerationUnit + lowG
    BY <1>2, <1>4, <1>8, <1>11
  <2>2. (upToG * GenerationUnit + lowG) \div GenerationUnit = upToG
    <3>1. /\ upToG \in Nat /\ GenerationUnit \in Nat \ {0}
          /\ lowG \in 0 .. GenerationUnit - 1
      BY <1>5, <1>11
    <3> QED BY <3>1, Quotient, Zenon
  <2>3. (i * GenerationValues + g) % GenerationValues = g
    <3>1. i \in Nat /\ GenerationValues \in Nat \ {0} /\ g \in 0 .. GenerationValues - 1
      BY <1>0
    <3> QED BY <3>1, Remainder, Zenon
  <2> QED BY <1>10, <2>1, <2>2, <2>3
<1>13. PICK upToS : upToS = upToG * SourceValues + s
  OBVIOUS
<1>14. /\ upToS \in Nat
       /\ upToG * GenerationUnit + s * SourceUnit = upToS * SourceUnit
  BY <1>0, <1>3, <1>11, <1>13 DEF GenerationUnit
<1>15. (data \div SourceUnit) % SourceValues = s
  <2>1. data = upToS * SourceUnit + lowS
    BY <1>2, <1>8, <1>11, <1>14
  <2>2. (upToS * SourceUnit + lowS) \div SourceUnit = upToS
    <3>1. upToS \in Nat /\ SourceUnit \in Nat \ {0} /\ lowS \in 0 .. SourceUnit - 1
      BY <1>3, <1>14
    <3> QED BY <3>1, Quotient, Zenon
  <2>3. (upToG * SourceValues + s) % SourceValues = s
    <3>1. upToG \in Nat /\ SourceValues \in Nat \ {0} /\ s \in 0 .. SourceValues - 1
      BY <1>0, <1>11
    <3> QED BY <3>1, Remainder, Zenon
  <2> QED BY <1>13, <2>1, <2>2, <2>3
<1>16. PICK upToX : upToX = upToS * SessionValues + x
  OBVIOUS
<1>17. /\ upToX \in Nat
       /\ upToS * SourceUnit + x * SessionUnit = upToX * SessionUnit
  BY <1>0, <1>1, <1>14, <1>16 DEF SourceUnit
<1>18. data = upToX * SessionUnit + r
  BY <1>8, <1>11, <1>14, <1>17
<1>19. (data \div SessionUnit) % SessionValues = x
  <2>1. (upToX * SessionUnit + r) \div SessionUnit = upToX
    <3>1. upToX \in Nat /\ SessionUnit \in Nat \ {0} /\ r \in 0 .. SessionUnit - 1
      BY <1>1, <1>17
    <3> QED BY <3>1, Quotient, Zenon
  <2>2. (upToS * SessionValues + x) % SessionValues = x
    <3>1. upToS \in Nat /\ SessionValues \in Nat \ {0} /\ x \in 0 .. SessionValues - 1
      BY <1>0, <1>14
    <3> QED BY <3>1, Remainder, Zenon
  <2> QED BY <1>16, <1>18, <2>1, <2>2
<1>20. data % ReservedValues = r
  <2>1. (upToX * SessionUnit + r) % SessionUnit = r
    <3>1. upToX \in Nat /\ SessionUnit \in Nat \ {0} /\ r \in 0 .. SessionUnit - 1
      BY <1>1, <1>17
    <3> QED BY <3>1, Remainder, Zenon
  <2> QED BY <1>18, <2>1 DEF SessionUnit
<1> QED BY <1>9, <1>12, <1>15, <1>19, <1>20

(* An encoded entry fits into the bits there are. *)
LEMMA EncodeRange ==
    ASSUME NEW entry \in EpollEntries
    PROVE  Encode(entry) \in 0 .. InstanceValues * InstanceUnit - 1
<1>0. /\ InstanceValues \in Nat \ {0} /\ GenerationValues \in Nat \ {0}
      /\ SourceValues \in Nat \ {0} /\ SessionValues \in Nat \ {0}
      /\ ReservedValues \in Nat \ {0}
  BY WidthAssumption
<1>1. PICK i \in 0 .. InstanceValues - 1, g \in 0 .. GenerationValues - 1,
           s \in 0 .. SourceValues - 1, x \in 0 .. SessionValues - 1,
           r \in 0 .. ReservedValues - 1 :
        /\ i = entry.instance_id /\ g = entry.generation /\ s = entry.source
        /\ x = entry.session /\ r = entry.reserved
  BY DEF EpollEntries
<1>2. SessionUnit \in Nat \ {0} /\ r \in 0 .. SessionUnit - 1
  BY <1>0 DEF SessionUnit
<1>3. PICK lowS : lowS = x * SessionUnit + r
  OBVIOUS
<1>4. SourceUnit \in Nat \ {0} /\ lowS \in 0 .. SourceUnit - 1
  BY <1>0, <1>2, <1>3, SideBySide DEF SourceUnit
<1>5. PICK lowG : lowG = s * SourceUnit + lowS
  OBVIOUS
<1>6. GenerationUnit \in Nat \ {0} /\ lowG \in 0 .. GenerationUnit - 1
  BY <1>0, <1>4, <1>5, SideBySide DEF GenerationUnit
<1>7. PICK lowI : lowI = g * GenerationUnit + lowG
  OBVIOUS
<1>8. InstanceUnit \in Nat \ {0} /\ lowI \in 0 .. InstanceUnit - 1
  BY <1>0, <1>6, <1>7, SideBySide DEF InstanceUnit
<1>9. i * InstanceUnit + lowI \in 0 .. InstanceValues * InstanceUnit - 1
  BY <1>0, <1>8, SideBySide
<1>10. Encode(entry) = i * InstanceUnit + lowI
  <2>1. /\ i * InstanceUnit \in Nat /\ g * GenerationUnit \in Nat
        /\ s * SourceUnit \in Nat /\ x * SessionUnit \in Nat /\ r \in Nat
    BY <1>0, <1>2, <1>4, <1>6, <1>8
  <2>2. Encode(entry) = i * InstanceUnit + g * GenerationUnit + s * SourceUnit
                        + x * SessionUnit + r
    BY <1>1 DEF Encode
  <2> QED BY <1>3, <1>5, <1>7, <2>1, <2>2
<1> QED BY <1>9, <1>10

-----------------------------------------------------------------------------
(* Every field of an entry comes back from epoll_wait as it was put into   *)
(* the interest list: no field spills into another one.                    *)
THEOREM DecodeEncode ==
    ASSUME NEW entry \in EpollEntries
    PROVE  Decode(Encode(entry)) = entry
<1>1. /\ entry.instance_id \in 0 .. InstanceValues - 1
      /\ entry.generation \in 0 .. GenerationValues - 1
      /\ entry.source \in 0 .. SourceValues - 1
      /\ entry.session \in 0 .. SessionValues - 1
      /\ entry.reserved \in 0 .. ReservedValues - 1
  BY DEF EpollEntries
<1>2. PICK data : data = Encode(entry)
  OBVIOUS
<1>3. /\ (data \div InstanceUnit) % InstanceValues = entry.instance_id
      /\ (data \div GenerationUnit) % GenerationValues = entry.generation
      /\ (data \div SourceUnit) % SourceValues = entry.source
      /\ (data \div SessionUnit) % SessionValues = entry.session
      /\ data % ReservedValues = entry.reserved
  BY <1>1, <1>2, Layout DEF Encode
<1> QED
  BY <1>2, <1>3 DEF Decode, EpollEntries

(* An instance owns the events it encoded, and no instance with another id *)
(* owns them.                                                              *)
THEOREM OwnershipExact ==
    ASSUME NEW entry \in EpollEntries, IsValidSource(entry.source), NEW id
    PROVE  OwnsEvent(id, Encode(entry)) <=> id = entry.instance_id
  BY DecodeEncode DEF OwnsEvent

(* An instance whose id is not 0 owns none of the application's own events.*)
THEOREM ForeignNotOwned ==
    ASSUME NEW data \in Nat, IsForeign(data), NEW id, id # 0
    PROVE  ~OwnsEvent(id, data)
<1>1. Decode(data).instance_id = 0 % InstanceValues
  BY DEF Decode, IsForeign
<1>2. 0 % InstanceValues = 0
  BY WidthAssumption
<1> QED BY <1>1, <1>2 DEF OwnsEvent
=============================================================================
