-------------------------- MODULE ExtentInvariant --------------------------
(***************************************************************************)
(* The inductive invariant of ExtentStore.  It says of each block, of each *)
(* extent and of each task's local variables what the steps of all the     *)
(* tasks preserve, without following a chain from its head: that a chain   *)
(* is not shared and not circular is said by the links (no two extents     *)
(* have the same successor, the heads have no predecessor).                *)
(***************************************************************************)
EXTENDS ExtentStore

(* Slots, planned and laid out, stay in a group and hold their data. *)
SlotsInGroup ==
  \A t \in Tasks :
    /\ \A s \in slots[t] : InOneGroup(s.addr, s.count)
    /\ \A s \in plan[t] : /\ InOneGroup(s.addr, s.count)
                          /\ s.bytes <= s.count * BlockSize - HeaderSize

(* Where an operation may be, and which of its variables are in use. *)
Control ==
  \A t \in Tasks :
    /\ guard = t <=> pc[t] \in {"commit", "freeing"}
    /\ pc[t] \in {"walk", "register"} => op[t] = "append"
    /\ pc[t] = "clear" => op[t] = "delete"
    /\ pc[t] \in {"free", "freeing"} => op[t] # "append"
    /\ pc[t] \in {"alloc", "commit", "layout", "write"} => op[t] # "delete"
    /\ pc[t] = "idle" => op[t] = "write"
    /\ slots[t] # {} => pc[t] \in {"commit", "layout"}
    /\ todo[t] # {} => pc[t] = "commit"
    /\ plan[t] # {} => pc[t] = "write"
    /\ link[t] # None => pc[t] \in {"write", "register"}
    /\ last[t] # None => op[t] = "append"
    /\ t \in torn => pc[t] = "idle"

(* The bitmaps mark what is held, and only tasks hold live blocks. *)
Live(a) == role[a] \in {"new", "file", "old"}
Bitmaps ==
  /\ used = {a \in Addr : role[a] # "free"}
  /\ \A a \in Addr : Live(a) => owner[a] \in Tasks

(* Slots do not overlap.  Their blocks are free until the bitmap of their  *)
(* group is committed, then held by the task until they are written.       *)
Disjoint(S) ==
  \A s, r \in S : s # r => BlocksOf(s) \cap BlocksOf(r) = {}
Allocation ==
  \A t \in Tasks :
    /\ Disjoint(slots[t]) /\ Disjoint(plan[t])
    /\ \A a \in Planned(t) :
         IF GroupOf(a) \in todo[t] THEN role[a] = "free"
         ELSE role[a] = "plan" /\ owner[a] = t
    /\ \A s \in plan[t] : \A a \in BlocksOf(s) :
         role[a] = "plan" /\ owner[a] = t

(* a is the first block of an extent of t, in role r. *)
Starts(a) == a \in Addr /\ Live(a) /\ header[a].size > 0
StartsFor(a, t, r) == Starts(a) /\ owner[a] = t /\ role[a] = r

Extents1 ==   \* the blocks of an extent are held together
  \A a \in Addr : Starts(a) =>
    /\ InOneGroup(a, BlocksFor(HeaderSize + header[a].size))
    /\ \A b \in Footprint(a) :
         /\ role[b] = role[a] /\ owner[b] = owner[a]
         /\ b # a => header[b].size = 0

Extents2 ==   \* an extent's successor is an extent of the same chain
  \A a \in Addr : Starts(a) /\ header[a].next # None =>
    StartsFor(header[a].next, owner[a], role[a])

Extents3 ==   \* no two extents have the same successor
  \A a, b \in Addr :
    Starts(a) /\ Starts(b) /\ a # b /\ header[a].next # None =>
      header[a].next # header[b].next

NoPredecessor(x) == \A a \in Addr : Starts(a) => header[a].next # x

(* The heads of the chains of t: its file, the chain it is writing, the    *)
(* chain it is freeing.                                                    *)
HeadsOf(t) ==
  /\ Intact(t) /\ head[t] # None =>
       StartsFor(head[t], t, "file") /\ NoPredecessor(head[t])
  /\ pc[t] = "write" /\ link[t] # None =>
       StartsFor(link[t], t, "new") /\ NoPredecessor(link[t])
  /\ pc[t] = "free" /\ op[t] = "delete" => cur[t] = head[t]
  /\ /\ cur[t] # None
     /\ pc[t] = "freeing" \/ (pc[t] = "free" /\ op[t] # "delete")
     => StartsFor(cur[t], t, "old") /\ NoPredecessor(cur[t])

Heads == \A t \in Tasks : HeadsOf(t)

(* The walk of an append: last is the extent before cur. *)
Walk ==
  \A t \in Tasks :
    op[t] = "append" /\ pc[t] \in {"walk", "alloc", "commit", "layout",
                                   "write"} =>
      /\ pc[t] # "walk" => cur[t] = None
      /\ last[t] = None => cur[t] = head[t]
      /\ last[t] # None => /\ StartsFor(last[t], t, "file")
                           /\ header[last[t]].next = cur[t]

(* Who holds which block, and that the chains respect it. *)
Ownership ==
  /\ Control
  /\ Bitmaps
  /\ Allocation
  /\ Extents1 /\ Extents2 /\ Extents3
  /\ Heads
  /\ Walk
=============================================================================
