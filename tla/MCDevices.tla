----------------------------- MODULE MCDevices ------------------------------
(* An instance of Devices for TLC. *)
EXTENDS DeviceInvariant, TLC

CONSTANTS t1, t2

TasksSymmetry == Permutations({t1, t2})

File(size) == [size |-> size, slot |-> 0]
KeyValue(slots, capacity) == [size |-> slots * capacity, slot |-> capacity]

(* Two slots of two bytes mirrored by a file of three, and one slot. *)
MirrorAndSlot ==
  <<[width |-> 2, replicas |-> <<KeyValue(2, 2), File(3)>>],
    [width |-> 1, replicas |-> <<KeyValue(1, 2)>>]>>

TheLast == {<<2, 1>>}

Range(at, len) == [at |-> at, len |-> len]
(* One byte, and beside it in its slot a range over two slots and devices. *)
ShortRanges == {Range(0, 1), Range(1, 3)}
=============================================================================
