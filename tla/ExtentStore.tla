---------------------------- MODULE ExtentStore ----------------------------
(***************************************************************************)
(* Block allocation and extent chains of XHFS (xhfs-core/src/xhfs/mod.rs): *)
(* the data bitmaps, the extents linked through their headers, the         *)
(* alloc_guard mutex, and the steps of the operations that replace, extend *)
(* and free a chain.                                                       *)
(*                                                                         *)
(* Every task owns one inode (a file, or a directory whose entries are its *)
(* data) and works on nothing else: what is shared is the block pool.  An  *)
(* operation is a sequence of device accesses, one action each, so that    *)
(* tasks interleave between them and a crash may fall between any two.     *)
(*                                                                         *)
(* Addresses are block numbers 1 .. GroupCount * BlocksPerGroup, and None  *)
(* is address 0, as in MaybeU64.  Sizes are bytes.                         *)
(***************************************************************************)
EXTENDS Integers, FiniteSets, FiniteSetsExt

CONSTANTS
  Tasks,           \* callers of one XHFS value, each with an inode of its own
  NoTask,          \* "nobody holds alloc_guard"
  GroupCount,      \* Format.group_count
  BlocksPerGroup,  \* GeometryLayout.usable_blocks_per_group
  BlockSize,       \* Format.block_size_bytes
  HeaderSize,      \* Extent::emulate_serialized_size(0)
  DataSizes,       \* lengths of the data a caller may hand over
  Ops,             \* operations each task may start
  MaxCrashes       \* bound on the number of crashes and cancelled tasks

ASSUME TaskAssumption == NoTask \notin Tasks
ASSUME GeometryAssumption ==
  /\ GroupCount \in Nat \ {0}
  /\ BlocksPerGroup \in Nat \ {0}
  /\ HeaderSize \in Nat \ {0}
  /\ BlockSize \in Nat
  /\ HeaderSize < BlockSize     \* 16 < 512, the smallest inferred block size
ASSUME InputAssumption ==
  /\ DataSizes \subseteq Nat
  /\ Ops \in [Tasks -> SUBSET {"write", "rewrite", "append", "delete"}]
  /\ MaxCrashes \in Nat

None == 0
Addr == 1 .. (GroupCount * BlocksPerGroup)
Groups == 0 .. (GroupCount - 1)

GroupOf(a) == (a - 1) \div BlocksPerGroup
FirstOf(g) == g * BlocksPerGroup + 1
LastOf(g) == (g + 1) * BlocksPerGroup
InAnyGroup(a, count) == TRUE   \* defect: runs are not cut at the group's end
InOneGroup(a, count) == a + count - 1 <= LastOf(GroupOf(a))
RunFrom(a, count) == a .. (a + count - 1)

BlocksFor(bytes) == (bytes + BlockSize - 1) \div BlockSize

(* What the preflight of allocate_and_write_extent asks for: whole groups  *)
(* for every maximal extent, then the blocks of the rest.                  *)
MaxPayload == BlocksPerGroup * BlockSize - HeaderSize
BlocksNeeded(bytes) ==
  LET rest == bytes % MaxPayload
  IN  (bytes \div MaxPayload) * BlocksPerGroup
        + (IF rest = 0 THEN 0 ELSE BlocksFor(HeaderSize + rest))

Slot == [addr : Addr, count : 1 .. BlocksPerGroup]
SerialSlot == [addr : Addr, count : 1 .. BlocksPerGroup, bytes : Nat \ {0},
               from : Int]

(* An extent: its header, and of its data the offset in the file it is the *)
(* content of.                                                             *)
Extent == [size : Nat, next : Addr \cup {None}, from : Int]
Blank == [size |-> 0, next |-> None, from |-> 0]   \* no extent starts here

BlocksOf(s) == RunFrom(s.addr, s.count)

-----------------------------------------------------------------------------
VARIABLES
  (* on the device *)
  used,     \* the data bitmaps of all groups: the blocks marked true
  header,   \* the extent that a read at a block returns
  head,     \* extent_addr of each task's inode
  size,     \* total_file_size of each task's inode
  (* in memory *)
  guard,    \* alloc_guard: the task that holds it, or NoTask
  pc,       \* where each task is
  op,       \* its operation
  want,     \* length of its data
  slots,    \* planned_allocations, with the blocks of each
  plan,     \* serialization_plan: the slots not yet written, with their data
  todo,     \* groups whose updated bitmap is not yet committed
  link,     \* next_link: first extent of the chain under construction
  cur,      \* cursor over a chain
  last,     \* last extent seen by append_or_allocate_extent
  (* history *)
  role,     \* what each block is held for
  owner,    \* the task that holds it
  torn,     \* tasks whose delete was cut
  overrun,  \* tasks whose append was cut after its link
  crashes

device == <<used, header, head, size>>
memory == <<guard, pc, op, want, slots, plan, todo, link, cur, last>>
history == <<role, owner, torn, overrun, crashes>>
vars == <<used, header, head, size, guard, pc, op, want, slots, plan, todo,
          link, cur, last, role, owner, torn, overrun, crashes>>

PCs == {"idle", "walk", "alloc", "commit", "layout", "write", "register",
        "free", "freeing", "clear"}
Roles == {"free",   \* not allocated
          "plan",   \* allocated, not yet written
          "new",    \* written, not yet reachable from an inode
          "file",   \* part of the chain of the owner's inode
          "old",    \* part of a chain that is being freed
          "lost"}   \* allocated and reachable from nothing

(* Blocks t holds in role r. *)
Held(t, r) == {a \in Addr : role[a] = r /\ owner[a] = t}
Turn(t, change) ==
  role' = [a \in Addr |-> IF owner[a] = t /\ role[a] \in DOMAIN change
                          THEN change[role[a]] ELSE role[a]]

Init ==
  /\ used = {}
  /\ header = [a \in Addr |-> Blank]
  /\ head = [t \in Tasks |-> None]
  /\ size = [t \in Tasks |-> 0]
  /\ guard = NoTask
  /\ pc = [t \in Tasks |-> "idle"]
  /\ op = [t \in Tasks |-> "write"]
  /\ want = [t \in Tasks |-> 0]
  /\ slots = [t \in Tasks |-> {}]
  /\ plan = [t \in Tasks |-> {}]
  /\ todo = [t \in Tasks |-> {}]
  /\ link = [t \in Tasks |-> None]
  /\ cur = [t \in Tasks |-> None]
  /\ last = [t \in Tasks |-> None]
  /\ role = [a \in Addr |-> "free"]
  /\ owner = [a \in Addr |-> NoTask]
  /\ torn = {}
  /\ overrun = {}
  /\ crashes = 0

Goto(t, label) == pc' = [pc EXCEPT ![t] = label]

(* The operation returns: its local variables go out of scope. *)
Return(t) ==
  /\ Goto(t, "idle")
  /\ op' = [op EXCEPT ![t] = "write"]
  /\ want' = [want EXCEPT ![t] = 0]
  /\ slots' = [slots EXCEPT ![t] = {}]
  /\ plan' = [plan EXCEPT ![t] = {}]
  /\ todo' = [todo EXCEPT ![t] = {}]
  /\ link' = [link EXCEPT ![t] = None]
  /\ cur' = [cur EXCEPT ![t] = None]
  /\ last' = [last EXCEPT ![t] = None]

-----------------------------------------------------------------------------
(* Starting an operation. *)

Start(t, o) ==
  /\ pc[t] = "idle"
  /\ t \notin torn
  /\ o \in Ops[t]
  /\ op' = [op EXCEPT ![t] = o]

RemainingCapacity == Cardinality(Addr \ used) * BlockSize

(* blob_write over an existing file: the new data must be smaller than the *)
(* remaining capacity, the old chain included.                             *)
StartWrite(t) ==
  /\ Start(t, "write")
  /\ \E n \in DataSizes :
       /\ n < RemainingCapacity
       /\ want' = [want EXCEPT ![t] = n]
  /\ Goto(t, "alloc")
  /\ UNCHANGED <<device, guard, slots, plan, todo, link, cur, last, history>>

(* A directory is rewritten (mkdir, unlink, fmove, the parent of a new     *)
(* file) without a capacity check; an empty directory has no extent.       *)
StartRewrite(t) ==
  /\ Start(t, "rewrite")
  /\ \E n \in DataSizes : want' = [want EXCEPT ![t] = n]
  /\ Goto(t, "alloc")
  /\ UNCHANGED <<device, guard, slots, plan, todo, link, cur, last, history>>

(* fappend_inode: walks to the last extent first. *)
StartAppend(t) ==
  /\ Start(t, "append")
  /\ \E n \in DataSizes : want' = [want EXCEPT ![t] = n]
  /\ cur' = [cur EXCEPT ![t] = head[t]]
  /\ Goto(t, "walk")
  /\ UNCHANGED <<device, guard, slots, plan, todo, link, last, history>>

(* delete_inode_with_extent once nlink has dropped to 0. *)
StartDelete(t) ==
  /\ Start(t, "delete")
  /\ cur' = [cur EXCEPT ![t] = head[t]]
  /\ Goto(t, "free")
  /\ UNCHANGED <<device, guard, want, slots, plan, todo, link, last, history>>

-----------------------------------------------------------------------------
(* append_or_allocate_extent: read one header per step up to the end.      *)

WalkExtent(t) ==
  /\ pc[t] = "walk"
  /\ cur[t] # None
  /\ last' = [last EXCEPT ![t] = cur[t]]
  /\ cur' = [cur EXCEPT ![t] = header[cur[t]].next]
  /\ UNCHANGED <<device, guard, pc, op, want, slots, plan, todo, link,
                 history>>

WalkDone(t) ==
  /\ pc[t] = "walk"
  /\ cur[t] = None
  /\ Goto(t, "alloc")
  /\ UNCHANGED <<device, guard, op, want, slots, plan, todo, link, cur, last,
                 history>>

-----------------------------------------------------------------------------
(* allocate: plan under alloc_guard, then commit one bitmap per group.     *)

Free == Addr \ used

Fits(a, count) == InOneGroup(a, count) /\ RunFrom(a, count) \subseteq Free

(* The lowest blocks of S, as many as asked for. *)
Lowest(S, count) ==
  {a \in S : Cardinality({b \in S : b <= a}) <= count}

(* The maximal runs of S that stay in one group. *)
RunsOf(S) ==
  {s \in Slot :
     /\ BlocksOf(s) \subseteq S
     /\ InOneGroup(s.addr, s.count)
     /\ s.addr = FirstOf(GroupOf(s.addr)) \/ s.addr - 1 \notin S
     /\ s.addr + s.count - 1 = LastOf(GroupOf(s.addr))
          \/ s.addr + s.count \notin S}

Planned(t) == UNION {BlocksOf(s) : s \in slots[t]}
PlannedIn(t, g) == {a \in Planned(t) : GroupOf(a) = g}

Reserve(t, planned) ==
  /\ guard' = t
  /\ slots' = [slots EXCEPT ![t] = planned]
  /\ todo' = [todo EXCEPT ![t] = {GroupOf(s.addr) : s \in planned}]
  /\ Goto(t, "commit")
  /\ UNCHANGED <<device, op, want, plan, link, cur, last, history>>

Wanted(t) == BlocksNeeded(want[t])

CanPlanUnguarded(t) == pc[t] = "alloc"   \* defect: alloc_guard not taken

CanPlan(t) ==
  /\ pc[t] = "alloc"
  /\ guard = NoTask

(* The first run long enough, taken from its start. *)
PlanContiguous(t) ==
  /\ CanPlan(t)
  /\ Wanted(t) > 0
  /\ \E a \in Addr :
       /\ Fits(a, Wanted(t))
       /\ \A b \in Addr : Fits(b, Wanted(t)) => a <= b
       /\ Reserve(t, {[addr |-> a, count |-> Wanted(t)]})

(* No such run: collect the free runs in order until there are enough. *)
PlanFragments(t) ==
  /\ CanPlan(t)
  /\ Wanted(t) > 0
  /\ \A a \in Addr : ~Fits(a, Wanted(t))
  /\ Cardinality(Free) >= Wanted(t)
  /\ Reserve(t, RunsOf(Lowest(Free, Wanted(t))))

(* Insufficient: nothing has been committed. *)
PlanInsufficient(t) ==
  /\ CanPlan(t)
  /\ Wanted(t) > Cardinality(Free)
  /\ Return(t)
  /\ UNCHANGED <<device, guard, history>>

(* Empty data: no block is wanted, the bitmap written back is the one read. *)
PlanNothing(t) ==
  /\ CanPlan(t)
  /\ Wanted(t) = 0
  /\ Goto(t, "layout")
  /\ UNCHANGED <<device, guard, op, want, slots, plan, todo, link, cur, last,
                 history>>

(* One raw_write of an updated bitmap; the guard goes with the last one. *)
CommitBitmap(t) ==
  /\ pc[t] = "commit"
  /\ \E g \in todo[t] :
       /\ \A h \in todo[t] : g <= h
       /\ used' = used \cup PlannedIn(t, g)
       /\ role' = [a \in Addr |-> IF a \in PlannedIn(t, g) THEN "plan"
                                  ELSE role[a]]
       /\ owner' = [a \in Addr |-> IF a \in PlannedIn(t, g) THEN t
                                   ELSE owner[a]]
       /\ todo' = [todo EXCEPT ![t] = @ \ {g}]
       /\ IF todo[t] = {g}
          THEN guard' = NoTask /\ Goto(t, "layout")
          ELSE UNCHANGED <<guard, pc>>
  /\ UNCHANGED <<header, head, size, op, want, slots, plan, link, cur, last,
                 torn, overrun, crashes>>

-----------------------------------------------------------------------------
(* allocate_and_write_extent: lay the data out over the slots in order,    *)
(* then write the extents in reverse, each with the address of the one     *)
(* after it.                                                               *)

Payload(S) ==
  BlockSize * Cardinality(UNION {BlocksOf(s) : s \in S})
    - HeaderSize * Cardinality({s.addr : s \in S})

(* Where the data of slot s starts, and how much of it there is room for.  *)
Offset(t, s) == Payload({r \in slots[t] : r.addr < s.addr})
Chunk(t, s) ==
  LET room == s.count * BlockSize - HeaderSize
      rest == want[t] - Offset(t, s)
  IN  IF rest <= room THEN rest ELSE room

Layout(t) ==
  /\ pc[t] = "layout"
  /\ want[t] <= Payload(slots[t])
  /\ plan' = [plan EXCEPT ![t] =
       {[addr |-> s.addr, count |-> s.count, bytes |-> Chunk(t, s),
         from |-> Offset(t, s) + (IF op[t] = "append" THEN size[t] ELSE 0)]
          : s \in {r \in slots[t] : Chunk(t, r) > 0}}]
  /\ slots' = [slots EXCEPT ![t] = {}]
  /\ Goto(t, "write")
  /\ UNCHANGED <<device, guard, op, want, todo, link, cur, last, history>>

(* "Layout mismatch": the fragments' headers took the room of the data.    *)
(* The operation fails and the blocks it was given stay marked.            *)
LayoutMismatch(t) ==
  /\ pc[t] = "layout"
  /\ want[t] > Payload(slots[t])
  /\ Return(t)
  /\ Turn(t, [plan |-> "lost"])
  /\ UNCHANGED <<device, guard, owner, torn, overrun, crashes>>

LowestSlot(t) ==   \* defect: written in planning order
  {s \in plan[t] : \A r \in plan[t] : s.addr <= r.addr}

HighestSlot(t) == {s \in plan[t] : \A r \in plan[t] : r.addr <= s.addr}

NextOf(t, s) == link[t]

WriteExtent(t) ==
  /\ pc[t] = "write"
  /\ \E s \in HighestSlot(t) :
       /\ header' = [a \in Addr |->
            IF a = s.addr
            THEN [size |-> s.bytes, next |-> NextOf(t, s), from |-> s.from]
            ELSE IF a \in BlocksOf(s) THEN Blank
            ELSE header[a]]
       /\ role' = [a \in Addr |-> IF a \in BlocksOf(s) THEN "new"
                                  ELSE role[a]]
       /\ link' = [link EXCEPT ![t] = s.addr]
       /\ plan' = [plan EXCEPT ![t] = @ \ {s}]
  /\ UNCHANGED <<used, head, size, guard, pc, op, want, slots, todo, cur,
                 last, owner, torn, overrun, crashes>>

WrittenEarly(t) == pc[t] = "write"   \* defect: registered before all is written

Written(t) == pc[t] = "write" /\ plan[t] = {}

-----------------------------------------------------------------------------
(* Making the new chain reachable. *)

FirstExtent(t) == head[t]   \* defect: linked after the first extent
Tail(t) == last[t]

(* update_extent_next on the last extent of the walk. *)
LinkAppend(t) ==
  /\ Written(t)
  /\ op[t] = "append"
  /\ last[t] # None
  /\ header' = [header EXCEPT ![Tail(t)].next = link[t]]
  /\ Turn(t, [new |-> "file"])
  /\ Goto(t, "register")
  /\ UNCHANGED <<used, head, size, guard, op, want, slots, plan, todo, link,
                 cur, last, owner, torn, overrun, crashes>>

(* register_inode after the append; the head changes only if it was None.  *)
RegisterAppend(t) ==
  /\ op[t] = "append"
  /\ guard = NoTask
  /\ \/ pc[t] = "register" /\ UNCHANGED head
     \/ /\ Written(t) /\ last[t] = None
        /\ head' = [head EXCEPT ![t] = link[t]]
  /\ size' = [size EXCEPT ![t] = @ + want[t]]
  /\ Turn(t, [new |-> "file"])
  /\ Return(t)
  /\ UNCHANGED <<used, header, guard, owner, torn, overrun, crashes>>

(* register_inode with the new chain, after which the old one is freed. *)
RegisterWrite(t) ==
  /\ Written(t)
  /\ op[t] \in {"write", "rewrite"}
  /\ guard = NoTask
  /\ head' = [head EXCEPT ![t] = link[t]]
  /\ size' = [size EXCEPT ![t] = want[t]]
  /\ cur' = [cur EXCEPT ![t] = head[t]]
  /\ link' = [link EXCEPT ![t] = None]
  /\ Turn(t, [new |-> "file", file |-> "old"])
  /\ overrun' = overrun \ {t}
  /\ Goto(t, "free")
  /\ UNCHANGED <<used, header, guard, op, want, slots, plan, todo, last, owner,
                 torn, crashes>>

-----------------------------------------------------------------------------
(* free_full_extent: under alloc_guard, one extent per step. *)

FreeStart(t) ==
  /\ pc[t] = "free"
  /\ guard = NoTask
  /\ guard' = t
  /\ Goto(t, "freeing")
  /\ IF op[t] = "delete" THEN Turn(t, [file |-> "old"]) ELSE UNCHANGED role
  /\ UNCHANGED <<device, op, want, slots, plan, todo, link, cur, last, owner,
                 torn, overrun, crashes>>

(* mark_as_reusable frees the aligned region the header announces. *)
FootprintPlusOne(a) ==   \* defect: an extent that fills its blocks
  RunFrom(a, (HeaderSize + header[a].size) \div BlockSize + 1)
FootprintOfData(a) ==    \* defect: the extent's header is not counted
  RunFrom(a, BlocksFor(header[a].size))

Footprint(a) == RunFrom(a, BlocksFor(HeaderSize + header[a].size))

FreeExtent(t) ==
  /\ pc[t] = "freeing"
  /\ cur[t] # None
  /\ InOneGroup(cur[t], BlocksFor(HeaderSize + header[cur[t]].size))
  /\ used' = used \ Footprint(cur[t])
  /\ role' = [a \in Addr |-> IF a \in Footprint(cur[t]) THEN "free"
                             ELSE role[a]]
  /\ owner' = [a \in Addr |-> IF a \in Footprint(cur[t]) THEN NoTask
                              ELSE owner[a]]
  /\ cur' = [cur EXCEPT ![t] = header[cur[t]].next]
  /\ UNCHANGED <<header, head, size, guard, pc, op, want, slots, plan, todo,
                 link, last, torn, overrun, crashes>>

FreeDone(t) ==
  /\ pc[t] = "freeing"
  /\ cur[t] = None
  /\ guard' = NoTask
  /\ IF op[t] = "delete"
     THEN Goto(t, "clear")
          /\ UNCHANGED <<op, want, slots, plan, todo, link, cur, last>>
     ELSE Return(t)
  /\ UNCHANGED <<device, history>>

(* The inode's bit is cleared last: until then its chain is dangling. *)
ClearInode(t) ==
  /\ pc[t] = "clear"
  /\ head' = [head EXCEPT ![t] = None]
  /\ size' = [size EXCEPT ![t] = 0]
  /\ overrun' = overrun \ {t}
  /\ Return(t)
  /\ UNCHANGED <<used, header, guard, role, owner, torn, crashes>>

-----------------------------------------------------------------------------
(* The tasks in S stop where they are: their futures are dropped, and with *)
(* them the guard.  Whatever an operation had allocated or was about to    *)
(* free stays marked in the bitmaps.  A file whose delete was cut after it *)
(* began to free keeps an inode that refers to freed blocks: the model     *)
(* does not use that file again.  An append that is cut between its link   *)
(* and its registration leaves extents past total_file_size.               *)
KeepGuard(S) == guard     \* defect: the guard outlives the future
DropGuard(S) == IF guard \in S THEN NoTask ELSE guard

Unless(S, local, start) ==
  [t \in Tasks |-> IF t \in S THEN start ELSE local[t]]

Stop(S) ==
  /\ crashes < MaxCrashes
  /\ crashes' = crashes + 1
  /\ guard' = DropGuard(S)
  /\ pc' = Unless(S, pc, "idle")
  /\ op' = Unless(S, op, "write")
  /\ want' = Unless(S, want, 0)
  /\ slots' = Unless(S, slots, {})
  /\ plan' = Unless(S, plan, {})
  /\ todo' = Unless(S, todo, {})
  /\ link' = Unless(S, link, None)
  /\ cur' = Unless(S, cur, None)
  /\ last' = Unless(S, last, None)
  /\ role' = [a \in Addr |-> IF owner[a] \in S /\ role[a] \in {"plan", "new", "old"}
                             THEN "lost" ELSE role[a]]
  /\ torn' = torn \cup {t \in S : op[t] = "delete"
                                  /\ pc[t] \in {"freeing", "clear"}}
  /\ overrun' = overrun \cup {t \in S : pc[t] = "register"}
  /\ UNCHANGED <<device, owner>>

(* The process dies and the volume is opened again. *)
Crash == Stop(Tasks)

(* The connection of one request closes: the server drops its future at    *)
(* the await it is in, and the other requests go on.                       *)
Cancel(t) == pc[t] # "idle" /\ Stop({t})

-----------------------------------------------------------------------------
(* What a task does once it has started an operation. *)
Acquire(t) ==
  \/ PlanContiguous(t) \/ PlanFragments(t) \/ PlanInsufficient(t)
  \/ PlanNothing(t) \/ RegisterAppend(t) \/ RegisterWrite(t) \/ FreeStart(t)

Proceed(t) ==
  \/ WalkExtent(t) \/ WalkDone(t) \/ CommitBitmap(t)
  \/ Layout(t) \/ LayoutMismatch(t) \/ WriteExtent(t) \/ LinkAppend(t)
  \/ FreeExtent(t) \/ FreeDone(t) \/ ClearInode(t)

Begin(t) ==
  \/ StartWrite(t) \/ StartRewrite(t) \/ StartAppend(t) \/ StartDelete(t)

Next ==
  \/ Crash
  \/ \E t \in Tasks : Cancel(t) \/ Begin(t) \/ Acquire(t) \/ Proceed(t)

Spec == Init /\ [][Next]_vars

(* A task that runs is scheduled, and the mutex hands itself over in the   *)
(* order of arrival, so a task that waits for it gets it.                  *)
Fairness == \A t \in Tasks : WF_vars(Proceed(t)) /\ SF_vars(Acquire(t))
FairSpec == Spec /\ Fairness
-----------------------------------------------------------------------------
(* Properties. *)

(* Every variable stays in its type: in particular no bitmap marks a block *)
(* outside its group, and no extent starts or continues outside a data     *)
(* region.                                                                 *)
TypeOK ==
  /\ used \subseteq Addr
  /\ header \in [Addr -> Extent]
  /\ head \in [Tasks -> Addr \cup {None}]
  /\ size \in [Tasks -> Nat]
  /\ guard \in Tasks \cup {NoTask}
  /\ pc \in [Tasks -> PCs]
  /\ op \in [Tasks -> {"write", "rewrite", "append", "delete"}]
  /\ want \in [Tasks -> Nat]
  /\ slots \in [Tasks -> SUBSET Slot]
  /\ plan \in [Tasks -> SUBSET SerialSlot]
  /\ todo \in [Tasks -> SUBSET Groups]
  /\ link \in [Tasks -> Addr \cup {None}]
  /\ cur \in [Tasks -> Addr \cup {None}]
  /\ last \in [Tasks -> Addr \cup {None}]
  /\ role \in [Addr -> Roles]
  /\ owner \in [Addr -> Tasks \cup {NoTask}]
  /\ torn \subseteq Tasks
  /\ overrun \subseteq Tasks
  /\ crashes \in Nat

(* Two callers that allocate at the same time are never given the same     *)
(* block: what a bitmap commit marks was not held for anything, though it  *)
(* was planned from bitmaps read several steps earlier (allocate).         *)
MarksOnlyFree ==
  \A a \in Addr :
    role'[a] = "plan" /\ <<role[a], owner[a]>> # <<role'[a], owner'[a]>>
      => role[a] = "free" /\ a \notin used
NoDoubleAllocation == [][MarksOnlyFree]_vars

(* A block is marked reusable only as part of a chain its own task has     *)
(* already replaced or is deleting, with alloc_guard held: no size or next *)
(* field read along a chain makes free_full_extent free anything else.     *)
FreesOnlyOld ==
  \A a \in used \ used' : role[a] = "old" /\ guard = owner[a]
FreesOldOnly == [][FreesOnlyOld]_vars

(* The only bytes of the data region an operation overwrites are blocks    *)
(* that were allocated to it and are not yet reachable, and the next       *)
(* pointer of the last extent of its own file.                             *)
WritesOnlyOwn ==
  \A a \in Addr : header'[a] # header[a] =>
    \E t \in Tasks :
      /\ owner[a] = t
      /\ \/ role[a] = "plan" /\ pc[t] = "write"
         \/ /\ role[a] = "file" /\ header[a].next = None
            /\ op[t] = "append"
            /\ header'[a] = [header[a] EXCEPT !.next = link[t]]
WritesOwnOnly == [][WritesOnlyOwn]_vars

(* The extents met when the chain is read from a, as a set. *)
Extents(a) ==
  LET bound == Cardinality(Addr)
      at[i \in 0 .. bound] ==
        IF i = 0 THEN a
        ELSE IF at[i - 1] = None THEN None ELSE header[at[i - 1]].next
  IN  {at[i] : i \in 0 .. bound} \ {None}

ChainBlocks(a) == UNION {Footprint(x) : x \in Extents(a)}
ChainBytes(a) == MapThenSumSet(LAMBDA x : header[x].size, Extents(a))

Intact(t) == t \notin torn /\ ~(op[t] = "delete"
                                /\ pc[t] \in {"freeing", "clear"})

(* What reading a file's chain meets is exactly the blocks held for that   *)
(* file, at every point of every operation of every task: a chain never    *)
(* runs into another file, a freed block or a block being written.         *)
ChainsAreOwn ==
  \A t \in Tasks : Intact(t) => ChainBlocks(head[t]) = Held(t, "file")

(* The chain holds the file's bytes, all of them and in order, wherever    *)
(* its extents lie, whatever else is cut or cancelled.  (An append cut     *)
(* between its link and its registration leaves more bytes in the chain    *)
(* than total_file_size says, never fewer, until the file is rewritten.)   *)
ContentInOrder ==
  \A t \in Tasks : Intact(t) =>
    /\ ChainBytes(head[t]) >= size[t]
    /\ t \notin overrun =>
         /\ ChainBytes(head[t])
              = size[t] + (IF pc[t] = "register" THEN want[t] ELSE 0)
         /\ head[t] # None => header[head[t]].from = 0
         /\ \A x \in Extents(head[t]) : header[x].next # None =>
              header[header[x].next].from = header[x].from + header[x].size

(* When no operation runs, a block is marked used exactly if a file's      *)
(* chain occupies it, or if it was lost to a crash or to a failed write:   *)
(* an operation that succeeds leaks nothing and frees nothing it kept.     *)
NothingLeaks ==
  (\A t \in Tasks : pc[t] = "idle" /\ t \notin torn) =>
     used = {a \in Addr : role[a] = "lost"}
              \cup UNION {ChainBlocks(head[t]) : t \in Tasks}

(* Every operation that starts returns, or is cut: waiting for alloc_guard *)
(* never blocks for ever, not even if the holder is cancelled, and no      *)
(* chain is circular.                                                      *)
OpsReturn == \A t \in Tasks : pc[t] # "idle" ~> pc[t] = "idle"
=============================================================================
