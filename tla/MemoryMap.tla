------------------------------ MODULE MemoryMap ------------------------------
(***************************************************************************)
(* The fixed synthetic address space: src/memory_map.cpp.                  *)
(*                                                                         *)
(* memory is MemoryMap::bytes_.  read() is const and write() replaces the  *)
(* array, so both are operators of the array's value.                      *)
(***************************************************************************)
EXTENDS Frames

CONSTANTS
    memory_capacity,   \* 4096
    read_only_last,    \* 0x00FF: last address of the read-only region
    read_write_last,   \* 0x07FF: last address of the read/write region
    identity,          \* the bytes of the identity text, stored from address 0
    version_address    \* 0x40: holds protocol_version

ASSUME MemoryConstants ==
    /\ memory_capacity \in Nat /\ memory_capacity > 0
    /\ memory_capacity <= AddressSpace
    /\ read_only_last \in Nat /\ read_write_last \in Nat
    /\ read_only_last <= read_write_last
    /\ read_write_last < memory_capacity
    /\ identity \in Seq(Byte) /\ Len(identity) <= memory_capacity
    /\ version_address \in 0 .. memory_capacity - 1

Location == 0 .. memory_capacity - 1
Memory == [Location -> Byte]

\* Mutant: the array has one byte too many.
InitialMemory_OneTooMany == [a \in 0 .. memory_capacity |-> 0]

\* MemoryMap::MemoryMap()
InitialMemory ==
    [a \in Location |->
        IF a = version_address THEN protocol_version
        ELSE IF a < Len(identity) THEN identity[a + 1]
        ELSE 0]

\* No address + length is evaluated: the sum could wrap, the difference cannot.
range_fits(address, length) ==
    /\ length # 0 /\ length <= memory_capacity
    /\ address < memory_capacity /\ length <= memory_capacity - address

access_for(address) ==
    IF address <= read_only_last THEN "read_only"
    ELSE IF address <= read_write_last THEN "read_write"
    ELSE "denied"

RangeAccepted(address, length) ==
    range_fits(address, length) /\ length <= maximum_payload_size

\* MemoryMap::read(): its status, and the bytes it copies out when that is ok.
ReadStatus(address, length) ==
    IF ~RangeAccepted(address, length) THEN "out_of_range"
    ELSE IF \E offset \in 0 .. length - 1 :
                access_for(address + offset) = "denied" THEN "access_denied"
    ELSE "ok"

ReadBytes(memory, address, length) ==
    [i \in 1 .. length |-> memory[address + i - 1]]

\* Mutant: only the first byte of the interval is looked at.
WriteStatus_FirstByteOnly(address, data) ==
    IF ~RangeAccepted(address, Len(data)) THEN "out_of_range"
    ELSE IF access_for(address) # "read_write" THEN "access_denied"
    ELSE "ok"

\* MemoryMap::write(): its status, and the array after the copy.
WriteStatus(address, data) ==
    IF ~RangeAccepted(address, Len(data)) THEN "out_of_range"
    ELSE IF \E offset \in 0 .. Len(data) - 1 :
                access_for(address + offset) # "read_write" THEN "access_denied"
    ELSE "ok"

Written(memory, address, data) ==
    [a \in Location |->
        IF a >= address /\ a < address + Len(data) THEN data[a - address + 1]
        ELSE memory[a]]
=============================================================================
