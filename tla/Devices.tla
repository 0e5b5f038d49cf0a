------------------------------ MODULE Devices -------------------------------
(***************************************************************************)
(* The storage under XHFS (xhfs-core/src/device): a Controller pins        *)
(* logical devices one after the other, a logical device writes to all its *)
(* replicas and reads from the first that answers, and a replica is a file *)
(* behind a mutex or a key-value store of slots, which are read, changed   *)
(* and stored again.  Bytes pass a cipher that depends on their address.   *)
(*                                                                         *)
(* Tasks call Controller::read and write at the same time.  An action is   *)
(* one access to one replica.  An access may fail, with or without having  *)
(* its effect, and the process may die between any two.                    *)
(***************************************************************************)
EXTENDS Integers, Sequences, FiniteSets

CONSTANTS
  Tasks,      \* callers of one Controller
  Layout,     \* the logical devices in their order, each with its
              \* max_concurrent and its replicas
  EmptyWhenMissing,  \* stores that answer for a missing key with no bytes
                     \* instead of with nothing, as kv_handler.ts does
  Ranges,     \* what a caller may read or write
  MaxWrites,  \* bound on the number of writes
  MaxReaders, \* bound on the reads at a time, which change nothing
  MaxFaults,  \* bound on the accesses that fail
  MaxCrashes  \* bound on the number of crashes

Devices == DOMAIN Layout
Replicas(d) == DOMAIN Layout[d].replicas
Size(d, r) == Layout[d].replicas[r].size
SlotSize(d, r) == Layout[d].replicas[r].slot   \* 0 for a file
IsFile(d, r) == SlotSize(d, r) = 0
Stores == UNION {{d} \X Replicas(d) : d \in Devices}

ASSUME LayoutAssumption ==
  /\ Layout \in Seq([width : Nat \ {0},
                     replicas : Seq([size : Nat \ {0}, slot : Nat])])
  /\ \A d \in Devices : Replicas(d) # {}
  /\ EmptyWhenMissing \subseteq Stores
ASSUME CallAssumption ==
  /\ Ranges \subseteq [at : Nat, len : Nat \ {0}]
  /\ MaxWrites \in Nat /\ MaxReaders \in Nat
  /\ MaxFaults \in Nat /\ MaxCrashes \in Nat

(* The n-th write writes n in all its bytes.  On a device a byte is what   *)
(* was written, enciphered for an address, or what it held before.         *)
Blank == [byte |-> 0, for |-> -1]
Garbage == -1
Raw == [byte : 0 .. MaxWrites, for : Int]
Enciphered(byte, addr) == [byte |-> byte, for |-> addr]
Deciphered(raw, addr) ==
  IF raw = Blank THEN 0 ELSE IF raw.for = addr THEN raw.byte ELSE Garbage

SumTo(sizes, n) ==
  LET sum[i \in 0 .. n] == IF i = 0 THEN 0 ELSE sum[i - 1] + sizes[i]
  IN  sum[n]
Addresses == 0 .. (SumTo([d \in Devices |-> Size(d, 1)], Len(Layout)) - 1)

-----------------------------------------------------------------------------
VARIABLES
  store,    \* bytes of each replica
  (* in memory *)
  open,     \* whether the Controller is made
  cap,      \* what validate_layout returned for each logical device
  call,     \* what each task is in: a read, a write or nothing
  range,    \* its bytes
  value,    \* the byte it writes
  plan,     \* its chunks not yet done; the first is under way
  answer,   \* of each replica of the device of that chunk
  pos,      \* the next address of the access to each replica
  buf,      \* slot_buf of each replica, between get and set
  got,      \* the bytes read
  (* history *)
  held,     \* values a read that starts now may return
  seen,     \* values the read under way may return
  excused,  \* addresses it read where a replica had missed or lost a write
  missed,   \* bytes of writes that a replica failed
  raced,    \* bytes stored in a slot while another write held a copy of it
  writes, faults, crashes

calls == <<call, range, value, plan, answer, pos, buf, got>>
tracks == <<held, seen, excused, missed, raced>>
bounds == <<writes, faults, crashes>>
vars == <<store, open, cap, calls, tracks, bounds>>

Start(d) == SumTo(cap, d - 1)
End(d) == SumTo(cap, d)

(* The loop of raw_write and raw_read: one chunk for each device that the  *)
(* range meets, in the order of their addresses.                           *)
Greater(a, b) == IF a < b THEN b ELSE a
Lesser(a, b) == IF a < b THEN a ELSE b
ChunkWhole(d, want) ==     \* defect: a chunk begins where its device does
  [dev |-> d, first |-> Start(d),
   last |-> Lesser(want.at + want.len, End(d)) - 1]
Chunk(d, want) ==
  [dev |-> d, first |-> Greater(want.at, Start(d)),
   last |-> Lesser(want.at + want.len, End(d)) - 1]
Chunks(want) ==
  LET met[d \in 0 .. Len(Layout)] ==
        IF d = 0 THEN <<>>
        ELSE IF Chunk(d, want).first <= Chunk(d, want).last
          THEN Append(met[d - 1], Chunk(d, want)) ELSE met[d - 1]
  IN  met[Len(Layout)]

(* A range not covered is an error, of a write before its first access.    *)
Covered(want) == want.at + want.len <= End(Len(Layout))

Bytes(c) == c.first .. c.last
Of(want) == want.at .. (want.at + want.len - 1)
Current(t) == Head(plan[t])
Dev(t) == Current(t).dev
Offset(d, addr) == addr - Start(d)                         \* local_offset
Slot(d, r, offset) == offset \div SlotSize(d, r)
SlotAt(t, r) == Slot(Dev(t), r, Offset(Dev(t), pos[t][r]))
Cells(store_, addrs) == {<<store_, a>> : a \in addrs}
Store(t, r) == <<Dev(t), r>>

(* The addresses of one access: a file takes the chunk at once, a store of *)
(* slots what is left of it in the slot of the next address.               *)
Part(t, r) ==
  IF IsFile(Dev(t), r) THEN Bytes(Current(t))
  ELSE {a \in pos[t][r] .. Current(t).last :
          Slot(Dev(t), r, Offset(Dev(t), a)) = SlotAt(t, r)}

Pending(t) == {r \in DOMAIN answer[t] : answer[t][r] = "pending"}
Answered(t, reply) == {r \in DOMAIN answer[t] : answer[t][r] = reply}

(* buffer_unordered starts the replicas in their order, max_concurrent at  *)
(* a time; a read takes one after the other until one answers.             *)
InFlight(t) ==
  {r \in Pending(t) :
     IF call[t] = "read" THEN Answered(t, "ok") = {} /\ \A q \in Pending(t) : r <= q
     ELSE Cardinality({q \in Pending(t) : q < r}) < Layout[Dev(t)].width}

Init ==
  /\ store = [s \in Stores |-> [o \in 0 .. (Size(s[1], s[2]) - 1) |-> Blank]]
  /\ open = FALSE
  /\ cap = [d \in Devices |-> 0]
  /\ call = [t \in Tasks |-> "none"]
  /\ range = [t \in Tasks |-> [at |-> 0, len |-> 0]]
  /\ value = [t \in Tasks |-> 0]
  /\ plan = [t \in Tasks |-> <<>>]
  /\ answer = [t \in Tasks |-> <<>>]
  /\ pos = [t \in Tasks |-> <<>>]
  /\ buf = [t \in Tasks |-> <<>>]
  /\ got = [t \in Tasks |-> <<>>]
  /\ held = [a \in Addresses |-> {0}]
  /\ seen = [t \in Tasks |-> [a \in Addresses |-> {}]]
  /\ excused = [t \in Tasks |-> {}]
  /\ missed = {}
  /\ raced = {}
  /\ writes = 0
  /\ faults = 0
  /\ crashes = 0

-----------------------------------------------------------------------------
(* Controller::from.  The size of whichever replica answers first is what  *)
(* validate_layout compares the others with; where one has less there is   *)
(* no Controller.                                                          *)
SomeSizes(sizes) == TRUE      \* defect: the sizes are not compared
EnoughEverywhere(sizes) ==
  \A d \in Devices : \A r \in Replicas(d) : Size(d, r) >= sizes[d]

Open ==
  /\ ~open
  /\ \E sizes \in [Devices -> {Size(s[1], s[2]) : s \in Stores}] :
       /\ \A d \in Devices :
            \E r \in Replicas(d) : r <= Layout[d].width /\ sizes[d] = Size(d, r)
       /\ EnoughEverywhere(sizes)
       /\ cap' = sizes
  /\ open' = TRUE
  /\ UNCHANGED <<store, calls, tracks, bounds>>

Enter(t, chunks) ==
  LET replicas == IF chunks = <<>> THEN {} ELSE Replicas(Head(chunks).dev)
  IN  /\ plan' = [plan EXCEPT ![t] = chunks]
      /\ answer' = [answer EXCEPT ![t] = [r \in replicas |-> "pending"]]
      /\ pos' = [pos EXCEPT ![t] = [r \in replicas |-> Head(chunks).first]]
      /\ buf' = [buf EXCEPT ![t] = [r \in replicas |-> <<>>]]

(* The callers of XHFS write to blocks, inodes and bitmaps that are theirs *)
(* at the time: no two writes under way are of the same byte.              *)
BeingWritten(a) == \E t \in Tasks : call[t] = "write" /\ a \in Of(range[t])

StartWrite(t, want) ==
  /\ open /\ call[t] = "none"
  /\ writes < MaxWrites
  /\ Covered(want)
  /\ \A a \in Of(want) : ~BeingWritten(a)
  /\ call' = [call EXCEPT ![t] = "write"]
  /\ range' = [range EXCEPT ![t] = want]
  /\ value' = [value EXCEPT ![t] = writes + 1]
  /\ Enter(t, Chunks(want))
  /\ held' = [a \in Addresses |->
                IF a \in Of(want) THEN held[a] \cup {writes + 1} ELSE held[a]]
  /\ seen' = [u \in Tasks |-> [a \in Addresses |->
                IF a \in Of(want) /\ call[u] = "read" /\ a \in Of(range[u])
                  THEN seen[u][a] \cup {writes + 1} ELSE seen[u][a]]]
  /\ writes' = writes + 1
  /\ UNCHANGED <<store, open, cap, got, excused, missed, raced, faults, crashes>>

StartRead(t, want) ==
  /\ open /\ call[t] = "none"
  /\ Cardinality({u \in Tasks : call[u] = "read"}) < MaxReaders
  /\ Covered(want)
  /\ call' = [call EXCEPT ![t] = "read"]
  /\ range' = [range EXCEPT ![t] = want]
  /\ Enter(t, Chunks(want))
  /\ seen' = [seen EXCEPT ![t] =
                [a \in Addresses |-> IF a \in Of(want) THEN held[a] ELSE {}]]
  /\ UNCHANGED <<store, open, cap, value, got, held, excused, missed, raced, bounds>>

(* What an access to the bytes of part leaves in a replica. *)
WithZeros(bytes, d, part, byte, slot_buf) ==   \* defect: the slot is not read
  [o \in DOMAIN bytes |->
     IF o + Start(d) \in part THEN Enciphered(byte, o + Start(d))
     ELSE IF o \in DOMAIN slot_buf THEN Blank ELSE bytes[o]]
With(bytes, d, part, byte, slot_buf) ==
  [o \in DOMAIN bytes |->
     IF o + Start(d) \in part THEN Enciphered(byte, o + Start(d))
     ELSE IF o \in DOMAIN slot_buf THEN slot_buf[o] ELSE bytes[o]]
Put(t, r, part) ==
  store' = [store EXCEPT ![Store(t, r)] =
              With(@, Dev(t), part, value[t], buf[t][r])]

(* The next address after part; with the last of the chunk the replica is  *)
(* done.                                                                   *)
Advance(t, r) ==
  LET done == Current(t).last \in Part(t, r)
  IN  /\ pos' = [pos EXCEPT ![t][r] = @ + Cardinality(Part(t, r))]
      /\ answer' = [answer EXCEPT ![t][r] = IF done THEN "ok" ELSE "pending"]

(* FsDevice::write, under the mutex of the file. *)
WriteFile(t, r) ==
  /\ call[t] = "write" /\ r \in InFlight(t) /\ IsFile(Dev(t), r)
  /\ Put(t, r, Part(t, r))
  /\ Advance(t, r)
  /\ missed' = missed \ Cells(Store(t, r), Part(t, r))
  /\ UNCHANGED <<open, cap, call, range, value, plan, buf, got, held, seen,
                 excused, raced, bounds>>

(* KVDevice::write: a slot is read, changed and stored.  A key that was    *)
(* never stored reads as zeros.                                            *)
GetSlot(t, r) ==
  /\ call[t] = "write" /\ r \in InFlight(t) /\ ~IsFile(Dev(t), r)
  /\ buf[t][r] = <<>>
  /\ buf' = [buf EXCEPT ![t][r] =
               [o \in {o \in DOMAIN store[Store(t, r)] :
                         Slot(Dev(t), r, o) = SlotAt(t, r)} |->
                  store[Store(t, r)][o]]]
  /\ UNCHANGED <<store, open, cap, call, range, value, plan, answer, pos, got,
                 tracks, bounds>>

(* Another write has read the slot that t stores now, and will store it    *)
(* without the bytes of t.                                                 *)
CopyTaken(t, r) ==
  buf[t][r] # <<>> /\ \E u \in Tasks \ {t} :
    /\ call[u] = "write" /\ Dev(u) = Dev(t)
    /\ buf[u][r] # <<>> /\ SlotAt(u, r) = SlotAt(t, r)

SetSlot(t, r) ==
  /\ call[t] = "write" /\ r \in InFlight(t)
  /\ buf[t][r] # <<>>
  /\ Put(t, r, Part(t, r))
  /\ Advance(t, r)
  /\ buf' = [buf EXCEPT ![t][r] = <<>>]
  /\ LET cells == Cells(Store(t, r), Part(t, r))
     IN  /\ missed' = missed \ cells
         /\ raced' = IF CopyTaken(t, r) THEN raced \cup cells ELSE raced \ cells
  /\ UNCHANGED <<open, cap, call, range, value, plan, got, held, seen, excused, bounds>>

(* A slot that was never stored, and answers with no bytes at all: read    *)
(* takes its part of them and panics, where write would have filled it up. *)
TooShort(t, r) ==
  /\ Store(t, r) \in EmptyWhenMissing /\ ~IsFile(Dev(t), r)
  /\ \A o \in DOMAIN store[Store(t, r)] :
       Slot(Dev(t), r, o) = SlotAt(t, r) => store[Store(t, r)][o] = Blank

(* read of a file, or of what the chunk has in a slot. *)
ReadPart(t, r) ==
  /\ call[t] = "read" /\ r \in InFlight(t) /\ ~TooShort(t, r)
  /\ LET first == pos[t][r]
         part == Part(t, r)
     IN  /\ got' = [got EXCEPT ![t] = @ \o
                      [i \in 1 .. Cardinality(part) |->
                         store[Store(t, r)][Offset(Dev(t), first + i - 1)]]]
         /\ excused' = [excused EXCEPT ![t] = @ \cup
              {a \in part : <<Store(t, r), a>> \in missed \cup raced}]
  /\ Advance(t, r)
  /\ UNCHANGED <<store, open, cap, call, range, value, plan, buf, held, seen,
                 missed, raced, bounds>>

(* An access fails.  A part of a file may be written by then, and a slot   *)
(* stored whose answer is lost.  A read drops what this replica returned.  *)
KeepAll(t) == got[t]     \* defect: the bytes read so far are kept
KeepOthers(t) == SubSeq(got[t], 1, Current(t).first - range[t].at)

Partial(t, r) ==
  IF call[t] = "read" THEN {{}}
  ELSE IF IsFile(Dev(t), r)
    THEN {Current(t).first .. a : a \in (Current(t).first - 1) .. Current(t).last}
    ELSE IF buf[t][r] = <<>> THEN {{}} ELSE {{}, Part(t, r)}

Fail(t, r) ==
  /\ call[t] # "none" /\ r \in InFlight(t)
  /\ faults < MaxFaults
  /\ faults' = faults + 1
  /\ \E part \in Partial(t, r) :
       /\ IF part = {} THEN UNCHANGED store ELSE Put(t, r, part)
       /\ raced' = IF CopyTaken(t, r) THEN raced \cup Cells(Store(t, r), part) ELSE raced
  /\ answer' = [answer EXCEPT ![t][r] = "failed"]
  /\ buf' = [buf EXCEPT ![t][r] = <<>>]
  /\ IF call[t] = "read"
       THEN got' = [got EXCEPT ![t] = KeepOthers(t)] /\ UNCHANGED missed
       ELSE /\ missed' = missed \cup Cells(Store(t, r), Bytes(Current(t)))
            /\ UNCHANGED got
  /\ UNCHANGED <<open, cap, call, range, value, plan, pos, held, seen, excused,
                 writes, crashes>>

-----------------------------------------------------------------------------
(* LogicalDevice::write waits for every replica and is content with one;   *)
(* read returns what the first one answered.                               *)
OneAnswered(t) == Answered(t, "ok") # {}     \* defect: it does not wait
AllAnswered(t) == Pending(t) = {}
NeverFailed(t) == FALSE                      \* defect: errors are only logged
AllFailed(t) == Answered(t, "failed") = DOMAIN answer[t]

Through(t) ==
  IF call[t] = "read" THEN Answered(t, "ok") # {}
  ELSE AllAnswered(t) /\ ~AllFailed(t)

Leave(t) ==
  /\ call' = [call EXCEPT ![t] = "none"]
  /\ range' = [range EXCEPT ![t] = [at |-> 0, len |-> 0]]
  /\ value' = [value EXCEPT ![t] = 0]
  /\ Enter(t, <<>>)
  /\ got' = [got EXCEPT ![t] = <<>>]
  /\ seen' = [seen EXCEPT ![t] = [a \in Addresses |-> {}]]
  /\ excused' = [excused EXCEPT ![t] = {}]

NextChunk(t) ==
  /\ call[t] # "none" /\ Through(t)
  /\ Tail(plan[t]) # <<>>
  /\ Enter(t, Tail(plan[t]))
  /\ UNCHANGED <<store, open, cap, call, range, value, got, tracks, bounds>>

Succeed(t) ==
  /\ call[t] # "none" /\ Through(t)
  /\ Tail(plan[t]) = <<>>
  /\ held' = [a \in Addresses |->
                IF call[t] = "write" /\ a \in Of(range[t]) THEN {value[t]} ELSE held[a]]
  /\ Leave(t)
  /\ UNCHANGED <<store, open, cap, missed, raced, bounds>>

(* The call returns an error: of a write some bytes may be on a device.    *)
GiveUp(t) ==
  /\ call[t] # "none" /\ AllFailed(t)
  /\ Leave(t)
  /\ UNCHANGED <<store, open, cap, held, missed, raced, bounds>>

(* The task is unwound, and no other replica is tried. *)
Panic(t, r) ==
  /\ call[t] = "read" /\ r \in InFlight(t) /\ TooShort(t, r)
  /\ Leave(t)
  /\ UNCHANGED <<store, open, cap, held, missed, raced, bounds>>

Crash ==
  /\ open
  /\ crashes < MaxCrashes
  /\ crashes' = crashes + 1
  /\ open' = FALSE
  /\ cap' = [d \in Devices |-> 0]
  /\ call' = [t \in Tasks |-> "none"]
  /\ range' = [t \in Tasks |-> [at |-> 0, len |-> 0]]
  /\ value' = [t \in Tasks |-> 0]
  /\ plan' = [t \in Tasks |-> <<>>]
  /\ answer' = [t \in Tasks |-> <<>>]
  /\ pos' = [t \in Tasks |-> <<>>]
  /\ buf' = [t \in Tasks |-> <<>>]
  /\ got' = [t \in Tasks |-> <<>>]
  /\ seen' = [t \in Tasks |-> [a \in Addresses |-> {}]]
  /\ excused' = [t \in Tasks |-> {}]
  /\ UNCHANGED <<store, held, missed, raced, writes, faults>>

Step(t) ==
  \/ \E want \in Ranges : StartWrite(t, want) \/ StartRead(t, want)
  \/ \E r \in DOMAIN answer[t] :
       WriteFile(t, r) \/ GetSlot(t, r) \/ SetSlot(t, r) \/ ReadPart(t, r)
       \/ Fail(t, r) \/ Panic(t, r)
  \/ NextChunk(t) \/ Succeed(t) \/ GiveUp(t)

Next == Open \/ Crash \/ \E t \in Tasks : Step(t)

Spec == Init /\ [][Next]_vars

-----------------------------------------------------------------------------
(* Properties *)

(* The bytes of device d that the Controller uses. *)
Pinned(d) == Start(d) .. (End(d) - 1)
ByteOf(s, a) == Deciphered(store[s][Offset(s[1], a)], a)
Stale(s, a) == <<s, a>> \in missed \cup raced

(* Every variable stays in its type: no access passes the end of its chunk *)
(* and a read collects no more than it was asked for.                      *)
TypeOK ==
  /\ DOMAIN store = Stores
  /\ \A s \in Stores : store[s] \in [0 .. (Size(s[1], s[2]) - 1) -> Raw]
  /\ open \in BOOLEAN
  /\ cap \in [Devices -> Nat]
  /\ \A t \in Tasks :
       /\ call[t] \in {"none", "read", "write"}
       /\ call[t] # "none" => range[t] \in Ranges /\ plan[t] # <<>>
       /\ value[t] \in 0 .. MaxWrites
       /\ Len(got[t]) <= range[t].len
       /\ \A r \in DOMAIN answer[t] :
            /\ answer[t][r] \in {"pending", "ok", "failed"}
            /\ pos[t][r] \in Current(t).first .. (Current(t).last + 1)
       /\ excused[t] \subseteq Addresses
  /\ held \in [Addresses -> SUBSET (0 .. MaxWrites)]
  /\ missed \subseteq Stores \X Addresses
  /\ raced \subseteq Stores \X Addresses
  /\ writes \in 0 .. MaxWrites /\ faults \in 0 .. MaxFaults
  /\ crashes \in 0 .. MaxCrashes

(* Whichever replica answers validate_layout first, a Controller that is   *)
(* made has for each device the size of its smallest replica: every start  *)
(* pins the devices at the same addresses, and no access is out of bounds. *)
CapacityIsLeast ==
  open => \A d \in Devices :
            /\ \A r \in Replicas(d) : cap[d] <= Size(d, r)
            /\ \E r \in Replicas(d) : cap[d] = Size(d, r)

(* A byte that a read returns is, at that address, the one of the last     *)
(* write accepted before the read began, or of one that was under way or   *)
(* had failed since; but for a replica that had missed that write, or lost *)
(* it to another write of the same slot.                                   *)
ReadsAreFresh ==
  \A t \in Tasks : \A i \in DOMAIN got[t] :
    LET a == range[t].at + i - 1
    IN  a \in excused[t] \/ Deciphered(got[t][i], a) \in seen[t][a]

(* A write changes the bytes of its range and no others, in any replica,   *)
(* but those a second write stored in its slot since it had read it.       *)
OnlyOwnBytesChange ==
  [][\A s \in Stores : \A o \in DOMAIN store[s] :
       store'[s][o] # store[s][o] =>
         LET a == o + Start(s[1])
         IN  /\ a \in Pinned(s[1])
             /\ \/ <<s, a>> \in raced
                \/ \E t \in Tasks :
                     /\ call[t] = "write" /\ a \in Of(range[t])
                     /\ store'[s][o] = Enciphered(value[t], a)]_vars

(* Once a write has returned, every replica that did not fail it has what  *)
(* it wrote, so that a read may fall back on any of them.                  *)
ReplicasAgree ==
  open => \A s \in Stores : \A a \in Pinned(s[1]) :
            ~BeingWritten(a) /\ ~Stale(s, a) => ByteOf(s, a) \in held[a]

(* What a write that returned without an error has written is on some      *)
(* replica, whatever failed meanwhile.                                     *)
AcceptedWritesAreKept ==
  open => \A d \in Devices : \A a \in Pinned(d) :
            ~BeingWritten(a) /\ Cardinality(held[a]) = 1 =>
              \E r \in Replicas(d) :
                <<<<d, r>>, a>> \in raced \/ ByteOf(<<d, r>>, a) \in held[a]
=============================================================================
