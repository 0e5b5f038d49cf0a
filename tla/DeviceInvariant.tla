-------------------------- MODULE DeviceInvariant ---------------------------
(***************************************************************************)
(* The inductive invariant of Devices.  Its core is what every replica has *)
(* of a write under way (Written) and of one that was accepted (Kept): of  *)
(* the chunk being written, the replica has the byte up to where it is and *)
(* the whole chunk once it has answered, unless it failed and the chunk is *)
(* missed.  A slot is stored with what was copied of it, so the copies     *)
(* (Copies) must have what the slot has, except where another write has    *)
(* stored since, which raced says.                                         *)
(***************************************************************************)
EXTENDS Devices

(* What a Controller pins of device d, whenever it is made. *)
Smallest(d) ==
  CHOOSE n \in {Size(d, r) : r \in Replicas(d)} :
    \A r \in Replicas(d) : n <= Size(d, r)
Caps == [d \in Devices |-> Smallest(d)]
(* Where it is pinned, and what a byte of it reads as there.  A cell is a  *)
(* replica and an address of its device.                                   *)
Base(d) == SumTo(Caps, d - 1)
Total == SumTo(Caps, Len(Layout))
Span(d) == Base(d) .. (Base(d) + Caps[d] - 1)
Cell == UNION {{s} \X Span(s[1]) : s \in Stores}
ByteAt(s, a) == Deciphered(store[s][a - Base(s[1])], a)

(* The chunks of a plan follow one another to the end of the range. *)
IsChunk(c, want) ==
  /\ c.first = Greater(want.at, Base(c.dev))
  /\ c.last = Lesser(want.at + want.len, Base(c.dev) + Caps[c.dev]) - 1
  /\ c.first <= c.last
Chained(p, want) ==
  /\ p \in Seq([dev : Devices, first : Int, last : Int]) /\ p # <<>>
  /\ \A i \in DOMAIN p : IsChunk(p[i], want)
  /\ \A i, j \in DOMAIN p : j = i + 1 => p[j].first = p[i].last + 1
  /\ p[Len(p)].last = want.at + want.len - 1

(* Every task has its variables. *)
Shapes ==
  /\ DOMAIN call = Tasks /\ DOMAIN range = Tasks /\ DOMAIN value = Tasks
  /\ DOMAIN plan = Tasks /\ DOMAIN answer = Tasks /\ DOMAIN pos = Tasks
  /\ DOMAIN buf = Tasks /\ DOMAIN got = Tasks /\ DOMAIN seen = Tasks
  /\ DOMAIN excused = Tasks
  /\ \A t \in Tasks :
       /\ call[t] \in {"none", "read", "write"}
       /\ DOMAIN pos[t] = DOMAIN answer[t] /\ DOMAIN buf[t] = DOMAIN answer[t]
       /\ value[t] \in 0 .. writes /\ excused[t] \subseteq Addresses

(* A task that calls nothing, and one that has a call under way: each      *)
(* replica is somewhere in the first chunk, and is done at its end.        *)
Idle(t) ==
  /\ DOMAIN answer[t] = {} /\ got[t] = <<>> /\ value[t] = 0
  /\ range[t] = [at |-> 0, len |-> 0]
Busy(t) ==
  /\ open /\ range[t] \in Ranges /\ range[t].at + range[t].len <= Total
  /\ Chained(plan[t], range[t])
  /\ DOMAIN answer[t] = Replicas(Dev(t))
  /\ \A r \in DOMAIN answer[t] :
       /\ answer[t][r] \in {"pending", "ok", "failed"}
       /\ pos[t][r] \in Current(t).first .. (Current(t).last + 1)
       /\ answer[t][r] = "pending" =>
            /\ pos[t][r] <= Current(t).last
            /\ IsFile(Dev(t), r) => pos[t][r] = Current(t).first
(* A Controller has pinned the smallest replicas, and a call needs one. *)
Calls ==
  /\ open => cap = Caps
  /\ ~open => cap = [d \in Devices |-> 0]
  /\ \A t \in Tasks : IF call[t] = "none" THEN Idle(t) ELSE Busy(t)

(* A byte is a byte, and some value may be read at every address. *)
Values ==
  /\ DOMAIN store = Stores
  /\ \A s \in Stores : store[s] \in [0 .. (Size(s[1], s[2]) - 1) -> Raw]
  /\ held \in [Addresses -> SUBSET (0 .. writes)]
  /\ \A a \in Addresses : held[a] # {}
  /\ missed \subseteq Cell /\ raced \subseteq Cell
  /\ writes \in 0 .. MaxWrites /\ faults \in 0 .. MaxFaults
  /\ crashes \in 0 .. MaxCrashes /\ open \in BOOLEAN

(* A copy of a slot has the bytes of the slot, but those stored since. *)
IsCopy(t, r) ==
  /\ call[t] = "write" /\ answer[t][r] = "pending" /\ ~IsFile(Dev(t), r)
  /\ \A o \in DOMAIN buf[t][r] :
       /\ o \in 0 .. (Size(Dev(t), r) - 1)
       /\ Slot(Dev(t), r, o) = SlotAt(t, r)
       /\ buf[t][r][o] \in Raw
       /\ \/ buf[t][r][o] = store[Store(t, r)][o]
          \/ <<Store(t, r), o + Base(Dev(t))>> \in raced
Copies ==
  \A t \in Tasks : \A r \in DOMAIN answer[t] : buf[t][r] # <<>> => IsCopy(t, r)

(* A write is of bytes that may have its value or another, and are not of  *)
(* another write.                                                          *)
IsWriter(t) ==
  /\ value[t] \in 1 .. writes /\ got[t] = <<>>
  /\ \A a \in Of(range[t]) :
       value[t] \in held[a] /\ \E x \in held[a] : x # value[t]
Writers ==
  /\ \A t \in Tasks : call[t] = "write" => IsWriter(t)
  /\ \A t, u \in Tasks :
       t # u /\ call[t] = "write" /\ call[u] = "write" =>
         Of(range[t]) \cap Of(range[u]) = {}

(* A replica has value x at an address, unless it was lost to another      *)
(* write of its slot.  Of a chunk that is done each replica has the byte   *)
(* or missed it, and one has it (LogicalDevice::write); of the chunk under *)
(* way those have it that are past it or have answered.                    *)
Took(s, a, x) == <<s, a>> \in raced \/ ByteAt(s, a) = x
Settled(t, a, d) ==
  /\ \A r \in Replicas(d) :
       Took(<<d, r>>, a, value[t]) \/ <<<<d, r>>, a>> \in missed
  /\ \E r \in Replicas(d) : Took(<<d, r>>, a, value[t])
UnderWay(t, a) ==
  \A r \in DOMAIN answer[t] :
    /\ answer[t][r] = "ok" \/ (answer[t][r] = "pending" /\ a < pos[t][r]) =>
         Took(Store(t, r), a, value[t])
    /\ answer[t][r] = "failed" => <<Store(t, r), a>> \in missed
Written ==
  \A t \in Tasks : call[t] = "write" =>
    \A d \in Devices : \A a \in Span(d) \cap Of(range[t]) :
      /\ a < Current(t).first => Settled(t, a, d)
      /\ a \in Bytes(Current(t)) => UnderWay(t, a)

(* What a read under way has: the chunks done and, of this one, what the   *)
(* replica it asks now has returned.  The replicas after that one have not *)
(* begun.                                                                  *)
Gathered(t) ==
  /\ got[t] \in Seq(Raw)
  /\ \A a \in Of(range[t]) : held[a] \subseteq seen[t][a]
  /\ \A r \in DOMAIN answer[t] : answer[t][r] = "ok" =>
       Len(got[t]) = Current(t).last + 1 - range[t].at
  /\ Answered(t, "ok") = {} =>
       IF Pending(t) = {} THEN Len(got[t]) = Current(t).first - range[t].at
       ELSE \A r \in Pending(t) :
              IF \A q \in Pending(t) : r <= q
                THEN Len(got[t]) = pos[t][r] - range[t].at
                ELSE pos[t][r] = Current(t).first
Collected == \A t \in Tasks : call[t] = "read" => Gathered(t)

(* A byte that a replica has neither missed nor lost may be read. *)
Agreed ==
  \A c \in Cell : c \notin missed \cup raced => ByteAt(c[1], c[2]) \in held[c[2]]
(* A byte that has one value has it on some replica. *)
Kept ==
  \A d \in Devices : \A a \in Span(d) : \A x \in held[a] :
    held[a] = {x} => \E r \in Replicas(d) : Took(<<d, r>>, a, x)

DevicesInv ==
  /\ Shapes /\ Calls /\ Values /\ Copies /\ Writers /\ Written /\ Collected
  /\ Agreed /\ Kept /\ ReadsAreFresh
=============================================================================
