---------------------------- MODULE ExtentProofs ----------------------------
(***************************************************************************)
(* Theorems about ExtentStore, for any number of tasks, groups, blocks,    *)
(* sizes, crashes and cancellations.                                       *)
(* First, types, and that Ownership is inductive. From it follow:          *)
(* allocation is exclusive, only replaced or deleted chains are freed, and *)
(* only one's own blocks are written. StepOwnership has one step per       *)
(* action and under it one per conjunct. Most conjuncts follow from the    *)
(* definitions; the ones that need thought are a bitmap commit (the        *)
(* planned blocks are still free because only the holder of alloc_guard    *)
(* changes a bitmap), the write of an extent (its footprint stays in its   *)
(* slot), the link of an append (the new chain had no predecessor) and the *)
(* freeing of an extent (footprints are disjoint, so no other extent loses *)
(* a block).                                                               *)
(* Then, that every chain of extents is whole and its own, its content is  *)
(* in order, and nothing leaks: what readers of a file and the free space  *)
(* of the volume depend on. Ownership says of each block and each link     *)
(* what the steps preserve. It is carried to whole chains with the         *)
(* invariant Chaining:                                                     *)
(*   - a chain is all the extents of its task and role, not some of them   *)
(*     (Linked): a set that has the head and every successor has them all; *)
(*   - the extents follow one another without a gap (InOrder) and hold     *)
(*     together what the inode says (Amounts);                             *)
(*   - the slots yet to be written are the head of the new chain to be     *)
(*     (LaidOut), which needs that allocate returned as many blocks as     *)
(*     the bytes take, and no more (SizingOf): then the last extent is not *)
(*     empty and the first starts at the old end of the file;              *)
(*   - every block in use is of some extent (Covered), and each role is    *)
(*     held only while its task is where it is needed (Stages).            *)
(* Extents follows the links one after the other; ExtentsOfChain shows     *)
(* that it meets exactly the set that Linked speaks of, since a walk that  *)
(* does not repeat an extent ends after at most as many as there are       *)
(* blocks.                                                                 *)
(***************************************************************************)
EXTENDS ExtentInvariant, FiniteSetTheorems, Induction, FiniteSetsExt

-----------------------------------------------------------------------------
(* Arithmetic of the layout. *)

(* The quotient and the remainder of a division. *)
LEMMA DivisionBounds ==
  ASSUME NEW n \in Nat, NEW d \in Nat \ {0}
  PROVE  /\ n \div d \in Nat
         /\ n % d \in 0 .. (d - 1)
         /\ (n \div d) * d <= n
         /\ n < (n \div d + 1) * d
  BY Z3

(* A group's blocks: where block a lies within its group. *)
LEMMA GroupBounds ==
  ASSUME NEW a \in Addr
  PROVE  /\ GroupOf(a) \in Groups
         /\ FirstOf(GroupOf(a)) <= a
         /\ a <= LastOf(GroupOf(a))
         /\ LastOf(GroupOf(a)) <= GroupCount * BlocksPerGroup
         /\ LastOf(GroupOf(a)) \in Int
PROOF
<1> DEFINE g == GroupOf(a)
<1>1. /\ a \in Nat /\ a - 1 \in Nat
      /\ BlocksPerGroup \in Nat \ {0}
      /\ GroupCount \in Nat
  BY GeometryAssumption DEF Addr
<1>2. /\ g \in Nat
      /\ g * BlocksPerGroup <= a - 1
      /\ a - 1 < (g + 1) * BlocksPerGroup
  BY <1>1, DivisionBounds DEF GroupOf
<1>3. a - 1 < GroupCount * BlocksPerGroup
  BY <1>1 DEF Addr
<1>4. g < GroupCount
  <2> SUFFICES ASSUME GroupCount <= g PROVE FALSE
    BY <1>1, <1>2
  <2>1. GroupCount * BlocksPerGroup <= g * BlocksPerGroup
    BY <1>1, <1>2
  <2> QED BY <2>1, <1>1, <1>2, <1>3
<1>5. (g + 1) * BlocksPerGroup <= GroupCount * BlocksPerGroup
  BY <1>1, <1>2, <1>4
<1>6. g \in Groups
  BY <1>1, <1>2, <1>4 DEF Groups
<1>7. /\ FirstOf(g) = g * BlocksPerGroup + 1
      /\ LastOf(g) = (g + 1) * BlocksPerGroup
  BY DEF FirstOf, LastOf
<1>8. /\ (g + 1) * BlocksPerGroup \in Int
      /\ g * BlocksPerGroup \in Int
  BY <1>1, <1>2
<1> HIDE DEF g
<1>9. /\ FirstOf(g) <= a
      /\ a <= LastOf(g)
      /\ LastOf(g) <= GroupCount * BlocksPerGroup
      /\ LastOf(g) \in Int
  BY <1>1, <1>2, <1>5, <1>7, <1>8
<1> QED BY <1>6, <1>9 DEF g


(* A run that stays in its group is made of addresses. *)
LEMMA RunInAddr ==
  ASSUME NEW a \in Addr, NEW n \in Int, InOneGroup(a, n)
  PROVE  RunFrom(a, n) \subseteq Addr
PROOF
<1>1. a + n - 1 <= GroupCount * BlocksPerGroup
  BY GroupBounds, GeometryAssumption DEF InOneGroup, Addr
<1> QED BY <1>1, GeometryAssumption DEF RunFrom, Addr

(* It is no longer than a group. *)
LEMMA RunFitsGroup ==
  ASSUME NEW a \in Addr, NEW n \in Int, InOneGroup(a, n), n > 0
  PROVE  n \in 1 .. BlocksPerGroup
PROOF
<1> DEFINE g == GroupOf(a)
<1>1. /\ g * BlocksPerGroup + 1 <= a
      /\ a + n - 1 <= (g + 1) * BlocksPerGroup
      /\ g \in Nat
  BY GroupBounds DEF InOneGroup, FirstOf, LastOf, Groups
<1>2. (g + 1) * BlocksPerGroup = g * BlocksPerGroup + BlocksPerGroup
  BY <1>1, GeometryAssumption
<1>3. g * BlocksPerGroup \in Int
  BY <1>1, GeometryAssumption
<1> HIDE DEF g
<1> QED BY <1>1, <1>2, <1>3, GeometryAssumption DEF Addr

LEMMA PayloadRoom == MaxPayload \in Nat \ {0}
PROOF
<1>1. BlocksPerGroup * BlockSize >= BlockSize
  BY GeometryAssumption
<1>2. BlocksPerGroup * BlockSize \in Nat
  BY GeometryAssumption
<1> QED BY <1>1, <1>2, GeometryAssumption DEF MaxPayload

LEMMA BlocksForType ==
  ASSUME NEW n \in Nat
  PROVE  BlocksFor(n) \in Nat
BY DivisionBounds, GeometryAssumption DEF BlocksFor

LEMMA BlocksNeededType ==
  ASSUME NEW n \in Nat
  PROVE  BlocksNeeded(n) \in Nat
PROOF
<1>1. n \div MaxPayload \in Nat /\ n % MaxPayload \in Nat
  BY PayloadRoom, DivisionBounds
<1>2. BlocksFor(HeaderSize + (n % MaxPayload)) \in Nat
  BY <1>1, BlocksForType, GeometryAssumption
<1>3. (n \div MaxPayload) * BlocksPerGroup \in Nat
  BY <1>1, GeometryAssumption
<1> DEFINE rest == n % MaxPayload
           whole == (n \div MaxPayload) * BlocksPerGroup
<1>4. (IF rest = 0 THEN 0 ELSE BlocksFor(HeaderSize + rest)) \in Nat
  BY <1>2
<1>5. BlocksNeeded(n)
        = whole + (IF rest = 0 THEN 0 ELSE BlocksFor(HeaderSize + rest))
  BY DEF BlocksNeeded
<1> HIDE DEF rest, whole
<1>6. whole \in Nat
  BY <1>3 DEF whole
<1> QED BY <1>4, <1>5, <1>6

(* An extent whose data fits its slot occupies no more than the slot. *)
LEMMA FootprintFits ==
  ASSUME NEW bytes \in Nat, NEW count \in Nat,
         bytes <= count * BlockSize - HeaderSize
  PROVE  BlocksFor(HeaderSize + bytes) <= count
PROOF
<1> DEFINE n == HeaderSize + bytes + BlockSize - 1
           q == n \div BlockSize
<1>1. n \in Nat /\ BlockSize \in Nat \ {0} /\ count * BlockSize \in Nat
  BY GeometryAssumption
<1>2. q \in Nat /\ q * BlockSize <= n
  BY <1>1, DivisionBounds
<1>3. n < count * BlockSize + BlockSize
  BY <1>1, GeometryAssumption
<1>4. count * BlockSize + BlockSize = (count + 1) * BlockSize
  BY <1>1
<1>5. q < count + 1
  <2> SUFFICES ASSUME count + 1 <= q PROVE FALSE
    BY <1>2
  <2>1. (count + 1) * BlockSize <= q * BlockSize
    BY <1>1, <1>2
  <2> HIDE DEF n, q
  <2> QED BY <2>1, <1>1, <1>2, <1>3, <1>4
<1> QED BY <1>2, <1>5 DEF BlocksFor

-----------------------------------------------------------------------------
(* Type correctness.  Slots must also stay within their group, since what  *)
(* a bitmap commit adds is the blocks of the slots.                        *)

TypeInv == TypeOK /\ SlotsInGroup

LEMMA PayloadType ==
  ASSUME NEW S, S \subseteq Slot, \A s \in S : InOneGroup(s.addr, s.count)
  PROVE  Payload(S) \in Int
PROOF
<1>1. IsFiniteSet(Addr)
  BY FS_Interval, GeometryAssumption DEF Addr
<1>2. {s.addr : s \in S} \subseteq Addr
  BY DEF Slot
<1>3. UNION {BlocksOf(s) : s \in S} \subseteq Addr
  BY RunInAddr DEF BlocksOf, Slot
<1>4. /\ Cardinality({s.addr : s \in S}) \in Nat
      /\ Cardinality(UNION {BlocksOf(s) : s \in S}) \in Nat
  BY <1>1, <1>2, <1>3, FS_Subset, FS_CardinalityType
<1> QED BY <1>4, GeometryAssumption DEF Payload

LEMMA ChunkType ==
  ASSUME TypeInv, NEW t \in Tasks, NEW s \in slots[t]
  PROVE  /\ Offset(t, s) \in Int
         /\ Chunk(t, s) \in Int
         /\ Chunk(t, s) <= s.count * BlockSize - HeaderSize
PROOF
<1>1. slots[t] \subseteq Slot /\ want[t] \in Nat /\ s \in Slot
  BY DEF TypeInv, TypeOK
<1>2. Offset(t, s) \in Int
  BY <1>1, PayloadType DEF TypeInv, SlotsInGroup, Offset
<1>3. s.count * BlockSize - HeaderSize \in Int
  BY <1>1, GeometryAssumption DEF Slot
<1> QED BY <1>1, <1>2, <1>3 DEF Chunk

LEMMA InitType == Init => TypeInv
BY GeometryAssumption
   DEF Init, TypeInv, TypeOK, SlotsInGroup, Addr, Extent, Blank, None, PCs,
       Roles

LEMMA TurnType ==
  ASSUME TypeInv, NEW t, NEW change, Turn(t, change),
         \A r \in DOMAIN change : change[r] \in Roles
  PROVE  role' \in [Addr -> Roles]
BY DEF TypeInv, TypeOK, Turn

LEMMA ReserveType ==
  ASSUME TypeInv, NEW t \in Tasks, NEW S \in SUBSET Slot, Reserve(t, S),
         \A s \in S : InOneGroup(s.addr, s.count)
  PROVE  TypeInv'
PROOF
<1>1. {GroupOf(s.addr) : s \in S} \subseteq Groups
  BY GroupBounds DEF Slot
<1>2. TypeOK'
  BY <1>1 DEF TypeInv, TypeOK, Reserve, Goto, PCs, device, history
<1>3. SlotsInGroup'
  BY DEF TypeInv, TypeOK, SlotsInGroup, Reserve
<1> QED BY <1>2, <1>3 DEF TypeInv

(* What a task's locals are once it has returned. *)
LEMMA ReturnType ==
  ASSUME TypeInv, NEW t \in Tasks, Return(t)
  PROVE  /\ pc' \in [Tasks -> PCs]
         /\ op' \in [Tasks -> {"write", "rewrite", "append", "delete"}]
         /\ want' \in [Tasks -> Nat]
         /\ slots' \in [Tasks -> SUBSET Slot]
         /\ plan' \in [Tasks -> SUBSET SerialSlot]
         /\ todo' \in [Tasks -> SUBSET Groups]
         /\ link' \in [Tasks -> Addr \cup {None}]
         /\ cur' \in [Tasks -> Addr \cup {None}]
         /\ last' \in [Tasks -> Addr \cup {None}]
         /\ SlotsInGroup'
PROOF
<1>1. pc' \in [Tasks -> PCs]
  BY DEF Return, Goto, TypeInv, TypeOK, PCs
<1>2. /\ op' \in [Tasks -> {"write", "rewrite", "append", "delete"}]
      /\ want' \in [Tasks -> Nat]
      /\ slots' \in [Tasks -> SUBSET Slot]
      /\ plan' \in [Tasks -> SUBSET SerialSlot]
      /\ todo' \in [Tasks -> SUBSET Groups]
  BY DEF Return, TypeInv, TypeOK
<1>3. /\ link' \in [Tasks -> Addr \cup {None}]
      /\ cur' \in [Tasks -> Addr \cup {None}]
      /\ last' \in [Tasks -> Addr \cup {None}]
  BY DEF Return, TypeInv, TypeOK
<1>4. SlotsInGroup'
  BY DEF Return, TypeInv, TypeOK, SlotsInGroup
<1> QED BY <1>1, <1>2, <1>3, <1>4

LEMMA StepType == TypeInv /\ [Next]_vars => TypeInv'
PROOF
<1> SUFFICES ASSUME TypeInv, [Next]_vars PROVE TypeInv'
  OBVIOUS
<1> USE DEF TypeInv, TypeOK, SlotsInGroup
<1>0. CASE UNCHANGED vars
  BY <1>0 DEF vars
<1>00. ASSUME NEW S \in SUBSET Tasks, Stop(S) PROVE TypeInv'
  BY <1>00 DEF Stop, Unless, DropGuard, device, PCs, Roles, None
<1>1. ASSUME NEW t \in Tasks, StartWrite(t) PROVE TypeInv'
  BY <1>1, InputAssumption DEF StartWrite, Start, Goto, device, history, PCs
<1>2. ASSUME NEW t \in Tasks, StartRewrite(t) PROVE TypeInv'
  BY <1>2, InputAssumption DEF StartRewrite, Start, Goto, device, history, PCs
<1>3. ASSUME NEW t \in Tasks, StartAppend(t) PROVE TypeInv'
  BY <1>3, InputAssumption DEF StartAppend, Start, Goto, device, history, PCs
<1>4. ASSUME NEW t \in Tasks, StartDelete(t) PROVE TypeInv'
  BY <1>4 DEF StartDelete, Start, Goto, Return, device, history, PCs
<1>5. ASSUME NEW t \in Tasks, WalkExtent(t) PROVE TypeInv'
  <2>1. cur[t] \in Addr /\ header[cur[t]] \in Extent
    BY <1>5 DEF WalkExtent
  <2>2. header[cur[t]].next \in Addr \cup {None}
    BY <2>1 DEF Extent
  <2> QED BY <1>5, <2>1, <2>2 DEF WalkExtent, device, history
<1>6. ASSUME NEW t \in Tasks, WalkDone(t) PROVE TypeInv'
  BY <1>6 DEF WalkDone, Start, Goto, Return, device, history, PCs
<1>7. ASSUME NEW t \in Tasks, PlanContiguous(t) PROVE TypeInv'
  <2>1. Wanted(t) \in Nat
    BY BlocksNeededType DEF Wanted
  <2>2. PICK a \in Addr :
          /\ Fits(a, Wanted(t))
          /\ Reserve(t, {[addr |-> a, count |-> Wanted(t)]})
    BY <1>7 DEF PlanContiguous
  <2> DEFINE s == [addr |-> a, count |-> Wanted(t)]
  <2>3. InOneGroup(a, Wanted(t)) /\ Wanted(t) \in 1 .. BlocksPerGroup
    BY <1>7, <2>1, <2>2, RunFitsGroup DEF Fits, PlanContiguous
  <2>4. s \in Slot
    BY <2>3 DEF Slot
  <2> QED BY <2>2, <2>3, <2>4, ReserveType
<1>8. ASSUME NEW t \in Tasks, PlanFragments(t) PROVE TypeInv'
  <2> DEFINE S == RunsOf(Lowest(Free, Wanted(t)))
  <2>1. S \subseteq Slot /\ \A s \in S : InOneGroup(s.addr, s.count)
    BY DEF RunsOf
  <2> QED BY <1>8, <2>1, ReserveType DEF PlanFragments
<1>9. ASSUME NEW t \in Tasks, PlanInsufficient(t) PROVE TypeInv'
  BY <1>9 DEF PlanInsufficient, Start, Goto, Return, device, history, PCs
<1>10. ASSUME NEW t \in Tasks, PlanNothing(t) PROVE TypeInv'
  BY <1>10 DEF PlanNothing, Start, Goto, Return, device, history, PCs
<1>11. ASSUME NEW t \in Tasks, CommitBitmap(t) PROVE TypeInv'
  <2>1. PICK g \in todo[t] :
          /\ used' = used \cup PlannedIn(t, g)
          /\ role' = [a \in Addr |-> IF a \in PlannedIn(t, g) THEN "plan"
                                     ELSE role[a]]
          /\ owner' = [a \in Addr |-> IF a \in PlannedIn(t, g) THEN t
                                      ELSE owner[a]]
          /\ todo' = [todo EXCEPT ![t] = @ \ {g}]
          /\ IF todo[t] = {g}
             THEN guard' = NoTask /\ Goto(t, "layout")
             ELSE UNCHANGED <<guard, pc>>
    BY <1>11 DEF CommitBitmap
  <2>2. PlannedIn(t, g) \subseteq Addr
    BY RunInAddr DEF PlannedIn, Planned, BlocksOf, Slot
  <2>3. guard' \in Tasks \cup {NoTask} /\ pc' \in [Tasks -> PCs]
    BY <2>1 DEF Goto, PCs
  <2>4. /\ role' \in [Addr -> Roles]
        /\ owner' \in [Addr -> Tasks \cup {NoTask}]
    BY <2>1 DEF Roles
  <2>5. used' \subseteq Addr /\ todo' \in [Tasks -> SUBSET Groups]
    BY <2>1, <2>2
  <2> QED BY <1>11, <2>3, <2>4, <2>5 DEF CommitBitmap
<1>12. ASSUME NEW t \in Tasks, Layout(t) PROVE TypeInv'
  <2> DEFINE entry(s) ==
        [addr |-> s.addr, count |-> s.count, bytes |-> Chunk(t, s),
         from |-> Offset(t, s) + (IF op[t] = "append" THEN size[t] ELSE 0)]
             P == {entry(s) : s \in {r \in slots[t] : Chunk(t, r) > 0}}
  <2>1. ASSUME NEW s \in slots[t], Chunk(t, s) > 0
        PROVE  /\ entry(s) \in SerialSlot
               /\ entry(s).bytes <= entry(s).count * BlockSize - HeaderSize
               /\ InOneGroup(entry(s).addr, entry(s).count)
    <3>1. s \in Slot /\ size[t] \in Nat /\ InOneGroup(s.addr, s.count)
      OBVIOUS
    <3>2. Chunk(t, s) \in Nat \ {0} /\ Offset(t, s) \in Int
      BY <2>1, ChunkType
    <3>3. Offset(t, s) + (IF op[t] = "append" THEN size[t] ELSE 0) \in Int
      BY <3>1, <3>2
    <3> QED BY <3>1, <3>2, <3>3, ChunkType DEF SerialSlot, Slot
  <2> HIDE DEF entry
  <2>2. P \subseteq SerialSlot
    BY <2>1
  <2>3. \A p \in P : /\ InOneGroup(p.addr, p.count)
                     /\ p.bytes <= p.count * BlockSize - HeaderSize
    BY <2>1
  <2>4. plan' = [plan EXCEPT ![t] = P]
    BY <1>12 DEF Layout, entry
  <2> HIDE DEF P
  <2>5. plan' \in [Tasks -> SUBSET SerialSlot]
    BY <2>2, <2>4
  <2>6. slots' = [slots EXCEPT ![t] = {}] /\ pc' \in [Tasks -> PCs]
    BY <1>12 DEF Layout, Goto, PCs
  <2>7. TypeOK'
    BY <1>12, <2>5, <2>6 DEF Layout, device, history
  <2>8. SlotsInGroup'
    BY <2>3, <2>4, <2>6
  <2> QED BY <2>7, <2>8
<1>13. ASSUME NEW t \in Tasks, LayoutMismatch(t) PROVE TypeInv'
  <2>1. role' \in [Addr -> Roles]
    BY <1>13, TurnType DEF LayoutMismatch, Roles
  <2> QED BY <1>13, <2>1 DEF LayoutMismatch, Return, Goto, device, PCs, None
<1>14. ASSUME NEW t \in Tasks, WriteExtent(t) PROVE TypeInv'
  <2>1. PICK s \in plan[t] :
          /\ header' = [a \in Addr |->
               IF a = s.addr
               THEN [size |-> s.bytes, next |-> NextOf(t, s), from |-> s.from]
               ELSE IF a \in BlocksOf(s) THEN Blank
               ELSE header[a]]
          /\ role' = [a \in Addr |-> IF a \in BlocksOf(s) THEN "new"
                                     ELSE role[a]]
          /\ link' = [link EXCEPT ![t] = s.addr]
          /\ plan' = [plan EXCEPT ![t] = @ \ {s}]
    BY <1>14 DEF WriteExtent, HighestSlot
  <2>2. s \in SerialSlot
    BY <2>1
  <2>3. [size |-> s.bytes, next |-> NextOf(t, s), from |-> s.from] \in Extent
    BY <2>2 DEF SerialSlot, Extent, NextOf
  <2>4. Blank \in Extent
    BY DEF Blank, Extent, None
  <2>5. header' \in [Addr -> Extent]
    BY <2>1, <2>3, <2>4
  <2>6. /\ role' \in [Addr -> Roles]
        /\ link' \in [Tasks -> Addr \cup {None}]
        /\ plan' \in [Tasks -> SUBSET SerialSlot]
    BY <2>1, <2>2 DEF Roles, SerialSlot
  <2>7. TypeOK'
    BY <1>14, <2>5, <2>6 DEF WriteExtent
  <2>8. SlotsInGroup'
    BY <1>14, <2>1 DEF WriteExtent
  <2> QED BY <2>7, <2>8
<1>15. ASSUME NEW t \in Tasks, LinkAppend(t) PROVE TypeInv'
  <2>1. role' \in [Addr -> Roles]
    BY <1>15, TurnType DEF LinkAppend, Roles
  <2>2. header' \in [Addr -> Extent]
    <3> DEFINE e == [header[last[t]] EXCEPT !.next = link[t]]
    <3>1. last[t] \in Addr
      BY <1>15 DEF LinkAppend
    <3>2. e \in Extent
      BY <3>1 DEF Extent
    <3>3. header' = [header EXCEPT ![last[t]] = e]
      BY <1>15 DEF LinkAppend, Tail
    <3> HIDE DEF e
    <3> QED BY <3>2, <3>3
  <2> QED BY <1>15, <2>1, <2>2 DEF LinkAppend, Goto, PCs
<1>16. ASSUME NEW t \in Tasks, RegisterAppend(t) PROVE TypeInv'
  <2>1. role' \in [Addr -> Roles]
    BY <1>16, TurnType DEF RegisterAppend, Roles
  <2>2. /\ head' \in [Tasks -> Addr \cup {None}]
        /\ size' \in [Tasks -> Nat]
    BY <1>16 DEF RegisterAppend
  <2> QED BY <1>16, <2>1, <2>2 DEF RegisterAppend, Return, Goto, PCs, None
<1>17. ASSUME NEW t \in Tasks, RegisterWrite(t) PROVE TypeInv'
  <2>1. role' \in [Addr -> Roles]
    BY <1>17, TurnType DEF RegisterWrite, Roles
  <2> QED BY <1>17, <2>1 DEF RegisterWrite, Goto, PCs, None
<1>18. ASSUME NEW t \in Tasks, FreeStart(t) PROVE TypeInv'
  <2>1. role' \in [Addr -> Roles]
    BY <1>18, TurnType DEF FreeStart, Roles
  <2> QED BY <1>18, <2>1 DEF FreeStart, Goto, PCs, device
<1>19. ASSUME NEW t \in Tasks, FreeExtent(t) PROVE TypeInv'
  <2>1. cur[t] \in Addr /\ header[cur[t]].next \in Addr \cup {None}
    BY <1>19 DEF FreeExtent, Extent
  <2>2. /\ role' \in [Addr -> Roles]
        /\ owner' \in [Addr -> Tasks \cup {NoTask}]
        /\ used' \subseteq Addr
        /\ cur' \in [Tasks -> Addr \cup {None}]
    BY <1>19, <2>1 DEF FreeExtent, Roles
  <2> QED BY <1>19, <2>2 DEF FreeExtent
<1>20. ASSUME NEW t \in Tasks, FreeDone(t) PROVE TypeInv'
  <2>1. CASE op[t] = "delete"
    BY <1>20, <2>1 DEF FreeDone, Goto, device, history, PCs
  <2>2. CASE op[t] # "delete"
    <3>1. Return(t) /\ guard' = NoTask /\ UNCHANGED <<device, history>>
      BY <1>20, <2>2 DEF FreeDone
    <3>2. /\ used' \subseteq Addr
          /\ header' \in [Addr -> Extent]
          /\ head' \in [Tasks -> Addr \cup {None}]
          /\ size' \in [Tasks -> Nat]
          /\ guard' \in Tasks \cup {NoTask}
          /\ role' \in [Addr -> Roles]
          /\ owner' \in [Addr -> Tasks \cup {NoTask}]
          /\ torn' \subseteq Tasks
          /\ overrun' \subseteq Tasks
          /\ crashes' \in Nat
      BY <3>1 DEF device, history
    <3> QED BY <3>1, <3>2, ReturnType DEF TypeInv, TypeOK
  <2> QED BY <2>1, <2>2
<1>21. ASSUME NEW t \in Tasks, ClearInode(t) PROVE TypeInv'
  BY <1>21 DEF ClearInode, Start, Goto, Return, device, history, PCs
<1> QED BY <1>0, <1>00, <1>1, <1>2, <1>3, <1>4, <1>5, <1>6, <1>7, <1>8, <1>9, <1>10, <1>11, <1>12, <1>13, <1>14, <1>15, <1>16, <1>17, <1>18, <1>19, <1>20, <1>21
  DEF Next, Crash, Cancel, Begin, Acquire, Proceed

(* Every reachable state is well typed: no bitmap marks a block that does  *)
(* not exist and no extent starts or continues outside the data regions,   *)
(* whatever the sizes, the fragmentation and the interleaving.             *)
THEOREM TypeCorrect == Spec => []TypeOK
PROOF
<1>1. Spec => []TypeInv
  BY InitType, StepType, PTL DEF Spec
<1>2. TypeInv => TypeOK
  BY DEF TypeInv
<1> QED BY <1>1, <1>2, PTL

-----------------------------------------------------------------------------
(* Runs and groups. *)

(* The addresses from a to the end of its group are in a's group. *)
LEMMA SameGroup ==
  ASSUME NEW a \in Addr, NEW b \in Int, a <= b, b <= LastOf(GroupOf(a))
  PROVE  b \in Addr /\ GroupOf(b) = GroupOf(a)
PROOF
<1>1. b \in Addr
  BY GroupBounds, GeometryAssumption DEF Addr
<1> DEFINE g == GroupOf(a)
           h == GroupOf(b)
<1>2. /\ g \in Nat /\ h \in Nat /\ BlocksPerGroup \in Nat \ {0}
      /\ a \in Int
      /\ g * BlocksPerGroup + 1 <= a /\ b <= (g + 1) * BlocksPerGroup
      /\ h * BlocksPerGroup + 1 <= b /\ b <= (h + 1) * BlocksPerGroup
  BY <1>1, GroupBounds, GeometryAssumption
     DEF FirstOf, LastOf, Groups, Addr
<1> HIDE DEF g, h
<1>3. ~(h < g)
  <2> SUFFICES ASSUME h < g PROVE FALSE
    OBVIOUS
  <2>1. (h + 1) * BlocksPerGroup <= g * BlocksPerGroup
    BY <1>2
  <2>2. /\ (h + 1) * BlocksPerGroup \in Int
        /\ g * BlocksPerGroup \in Int
    BY <1>2
  <2> QED BY <1>2, <2>1, <2>2
<1>4. ~(g < h)
  <2> SUFFICES ASSUME g < h PROVE FALSE
    OBVIOUS
  <2>1. (g + 1) * BlocksPerGroup <= h * BlocksPerGroup
    BY <1>2
  <2>2. /\ (g + 1) * BlocksPerGroup \in Int
        /\ h * BlocksPerGroup \in Int
    BY <1>2
  <2> QED BY <1>2, <2>1, <2>2
<1>5. g = h
  BY <1>2, <1>3, <1>4
<1> QED BY <1>1, <1>5 DEF g, h

LEMMA BlocksOfSlot ==
  ASSUME NEW s, s.addr \in Addr, s.count \in 1 .. BlocksPerGroup,
         InOneGroup(s.addr, s.count)
  PROVE  /\ BlocksOf(s) \subseteq Addr
         /\ s.addr \in BlocksOf(s)
         /\ \A b \in BlocksOf(s) : GroupOf(b) = GroupOf(s.addr)
PROOF
<1>1. s.count \in Int /\ s.addr \in Int /\ s.count >= 1
  BY GeometryAssumption DEF Addr
<1>2. LastOf(GroupOf(s.addr)) \in Int
  BY GroupBounds
<1> QED BY <1>1, <1>2, SameGroup DEF BlocksOf, RunFrom, InOneGroup

(* The runs of a set of free blocks do not overlap. *)
LEMMA RunsDisjoint ==
  ASSUME NEW S, NEW s \in RunsOf(S), NEW r \in RunsOf(S), s # r,
         s.addr <= r.addr
  PROVE  BlocksOf(s) \cap BlocksOf(r) = {}
PROOF
<1> SUFFICES ASSUME r.addr <= s.addr + s.count - 1 PROVE FALSE
  BY GeometryAssumption DEF RunsOf, Slot, BlocksOf, RunFrom, Addr
<1>1. /\ s.addr \in Addr /\ r.addr \in Addr /\ s.addr \in Int
      /\ r.addr \in Int /\ s.count \in Nat \ {0} /\ r.count \in Nat \ {0}
  BY GeometryAssumption DEF RunsOf, Slot, Addr
<1>2. s.addr + s.count - 1 <= LastOf(GroupOf(s.addr))
  BY DEF RunsOf, InOneGroup
<1>3. LastOf(GroupOf(s.addr)) \in Int /\ FirstOf(GroupOf(s.addr)) <= s.addr
  BY <1>1, GroupBounds
<1>4. GroupOf(r.addr) = GroupOf(s.addr)
  BY <1>1, <1>2, <1>3, SameGroup
<1>5. s.addr = r.addr
  <2> SUFFICES ASSUME s.addr < r.addr PROVE FALSE
    BY <1>1
  <2>1. r.addr - 1 \in S
    BY <1>1 DEF RunsOf, BlocksOf, RunFrom
  <2>2. r.addr = FirstOf(GroupOf(s.addr))
    BY <2>1, <1>4 DEF RunsOf
  <2> QED BY <2>2, <1>1, <1>3
<1>6. s.count # r.count
  BY <1>5 DEF RunsOf, Slot
<1>7. ASSUME NEW p \in RunsOf(S), NEW q \in RunsOf(S), p.addr = q.addr,
             p.count < q.count
      PROVE  FALSE
  <2>1. /\ p.addr \in Int /\ p.count \in Nat \ {0} /\ q.count \in Nat \ {0}
        /\ p.addr \in Addr
    BY GeometryAssumption DEF RunsOf, Slot, Addr
  <2>2. p.addr + p.count \in S
    BY <1>7, <2>1 DEF RunsOf, BlocksOf, RunFrom
  <2>3. p.addr + p.count - 1 = LastOf(GroupOf(p.addr))
    BY <2>2 DEF RunsOf
  <2>4. q.addr + q.count - 1 <= LastOf(GroupOf(p.addr))
    BY <1>7 DEF RunsOf, InOneGroup
  <2> QED BY <1>7, <2>1, <2>3, <2>4
<1> QED BY <1>1, <1>5, <1>6, <1>7

LEMMA RunsOfFree ==
  ASSUME NEW S
  PROVE  /\ RunsOf(S) \subseteq Slot
         /\ Disjoint(RunsOf(S))
         /\ \A s \in RunsOf(S) : InOneGroup(s.addr, s.count)
         /\ \A s \in RunsOf(S) : BlocksOf(s) \subseteq S
PROOF
<1>1. ASSUME NEW s \in RunsOf(S), NEW r \in RunsOf(S), s # r
      PROVE  BlocksOf(s) \cap BlocksOf(r) = {}
  <2>1. s.addr \in Int /\ r.addr \in Int
    BY DEF RunsOf, Slot, Addr
  <2>2. CASE s.addr <= r.addr
    BY <1>1, <2>2, RunsDisjoint
  <2>3. CASE r.addr <= s.addr
    BY <1>1, <2>3, RunsDisjoint
  <2> QED BY <2>1, <2>2, <2>3
<1> QED BY <1>1 DEF RunsOf, Disjoint

-----------------------------------------------------------------------------
(* What a step leaves alone. *)

LEMMA PlannedBlocks ==
  ASSUME TypeInv, NEW t \in Tasks
  PROVE  /\ Planned(t) \subseteq Addr
         /\ \A s \in slots[t] : BlocksOf(s) \subseteq Planned(t)
         /\ \A s \in plan[t] : BlocksOf(s) \subseteq Addr
PROOF
<1>1. \A s \in slots[t] : BlocksOf(s) \subseteq Addr
  BY BlocksOfSlot DEF TypeInv, TypeOK, SlotsInGroup, Slot
<1>2. \A s \in plan[t] : BlocksOf(s) \subseteq Addr
  BY BlocksOfSlot DEF TypeInv, TypeOK, SlotsInGroup, SerialSlot
<1> QED BY <1>1, <1>2 DEF Planned

(* A step that leaves a task its slots, or ends its operation, and touches *)
(* neither free blocks nor the blocks it has planned.                      *)
LEMMA AllocationKept ==
  ASSUME TypeInv, Ownership,
         \A u \in Tasks :
           \/ slots'[u] = {} /\ plan'[u] = {}
           \/ /\ slots'[u] = slots[u] /\ plan'[u] = plan[u]
              /\ todo'[u] = todo[u]
              /\ \A a \in Addr :
                   /\ role[a] = "free" => role'[a] = "free"
                   /\ role[a] = "plan" /\ owner[a] = u
                        => role'[a] = "plan" /\ owner'[a] = u
  PROVE  Allocation'
PROOF
<1> SUFFICES ASSUME NEW u \in Tasks
             PROVE  /\ Disjoint(slots'[u]) /\ Disjoint(plan'[u])
                    /\ \A a \in Planned(u)' :
                         IF GroupOf(a) \in todo'[u] THEN role'[a] = "free"
                         ELSE role'[a] = "plan" /\ owner'[a] = u
                    /\ \A s \in plan'[u] : \A a \in BlocksOf(s) :
                         role'[a] = "plan" /\ owner'[a] = u
  BY DEF Allocation, Disjoint, BlocksOf
<1>1. CASE slots'[u] = {} /\ plan'[u] = {}
  BY <1>1 DEF Disjoint, Planned
<1>2. CASE /\ slots'[u] = slots[u] /\ plan'[u] = plan[u]
           /\ todo'[u] = todo[u]
           /\ \A a \in Addr :
                /\ role[a] = "free" => role'[a] = "free"
                /\ role[a] = "plan" /\ owner[a] = u
                     => role'[a] = "plan" /\ owner'[a] = u
  <2>1. Planned(u)' = Planned(u)
    BY <1>2 DEF Planned, BlocksOf
  <2>2. /\ Planned(u) \subseteq Addr
        /\ \A s \in plan[u] : BlocksOf(s) \subseteq Addr
    BY PlannedBlocks
  <2> QED BY <1>2, <2>1, <2>2 DEF Ownership, Allocation
<1> QED BY <1>1, <1>2

(* A step that moves whole chains from one role to another, or drops them. *)
LEMMA ExtentsKept ==
  ASSUME TypeInv, Ownership, header' = header,
         \A a \in Addr : Live(a)' => Live(a),
         \A a, b \in Addr :
           Live(a)' /\ role[b] = role[a] /\ owner[b] = owner[a]
             => role'[b] = role'[a] /\ owner'[b] = owner'[a]
  PROVE  Extents1' /\ Extents2' /\ Extents3'
PROOF
<1>1. \A a \in Addr : Starts(a)' => Starts(a)
  BY DEF Starts
<1>2. Extents1'
  <2> SUFFICES ASSUME NEW a \in Addr, Starts(a)'
               PROVE  /\ InOneGroup(a, BlocksFor(HeaderSize + header[a].size))
                      /\ \A b \in Footprint(a) :
                           /\ role'[b] = role'[a] /\ owner'[b] = owner'[a]
                           /\ b # a => header[b].size = 0
    BY DEF Extents1, Footprint, RunFrom, InOneGroup, BlocksFor
  <2>1. Starts(a)
    BY <1>1
  <2>2. header[a].size \in Nat
    BY DEF TypeInv, TypeOK, Extent
  <2>3. BlocksFor(HeaderSize + header[a].size) \in Int
    BY <2>2, BlocksForType, GeometryAssumption
  <2>4. Footprint(a) \subseteq Addr
    BY <2>1, <2>3, RunInAddr DEF Ownership, Extents1, Footprint
  <2> QED BY <2>1, <2>4 DEF Ownership, Extents1, Starts
<1>3. Extents2'
  <2> SUFFICES ASSUME NEW a \in Addr, Starts(a)', header[a].next # None
               PROVE  StartsFor(header[a].next, owner[a], role[a])'
    BY DEF Extents2
  <2>1. StartsFor(header[a].next, owner[a], role[a])
    BY <1>1 DEF Ownership, Extents2
  <2> QED BY <2>1 DEF StartsFor, Starts, Live
<1>4. Extents3'
  BY <1>1 DEF Ownership, Extents3
<1> QED BY <1>2, <1>3, <1>4

LEMMA ReserveAllocation ==
  ASSUME TypeInv, Ownership, NEW t \in Tasks, NEW S \in SUBSET Slot,
         Reserve(t, S), Disjoint(S), pc[t] = "alloc",
         \A s \in S : InOneGroup(s.addr, s.count) /\ BlocksOf(s) \subseteq Free
  PROVE  Allocation'
PROOF
<1>1. /\ slots' = [slots EXCEPT ![t] = S]
      /\ todo' = [todo EXCEPT ![t] = {GroupOf(s.addr) : s \in S}]
      /\ plan' = plan /\ role' = role /\ owner' = owner
  BY DEF Reserve, device, history
<1>2. plan[t] = {}
  BY DEF Ownership, Control
<1>3. ASSUME NEW a \in Planned(t)'
      PROVE  GroupOf(a) \in todo'[t] /\ role[a] = "free"
  <2>1. PICK s \in S : a \in BlocksOf(s)
    BY <1>1 DEF Planned, BlocksOf, TypeInv, TypeOK
  <2>2. GroupOf(a) = GroupOf(s.addr)
    BY <2>1, BlocksOfSlot DEF Slot
  <2>3. role[a] = "free"
    BY <2>1 DEF Free, Ownership, Bitmaps
  <2> QED BY <2>1, <2>2, <2>3, <1>1 DEF TypeInv, TypeOK
<1> SUFFICES ASSUME NEW u \in Tasks
             PROVE  /\ Disjoint(slots'[u]) /\ Disjoint(plan'[u])
                    /\ \A a \in Planned(u)' :
                         IF GroupOf(a) \in todo'[u] THEN role'[a] = "free"
                         ELSE role'[a] = "plan" /\ owner'[a] = u
                    /\ \A s \in plan'[u] : \A a \in BlocksOf(s) :
                         role'[a] = "plan" /\ owner'[a] = u
  BY DEF Allocation, Disjoint, BlocksOf
<1>4. CASE u = t
  <2>1. slots'[u] = S /\ plan'[u] = {}
    BY <1>1, <1>2, <1>4 DEF TypeInv, TypeOK
  <2> QED BY <1>1, <1>3, <1>4, <2>1 DEF Disjoint
<1>5. CASE u # t
  <2>1. slots'[u] = slots[u] /\ todo'[u] = todo[u]
    BY <1>1, <1>5 DEF TypeInv, TypeOK
  <2>2. Planned(u)' = Planned(u)
    BY <2>1 DEF Planned, BlocksOf
  <2> QED BY <1>1, <2>1, <2>2 DEF Ownership, Allocation
<1> QED BY <1>4, <1>5

(* The blocks an extent's header announces. *)
LEMMA FootprintInt ==
  ASSUME TypeInv, NEW a \in Addr
  PROVE  BlocksFor(HeaderSize + header[a].size) \in Nat
PROOF
<1>1. header[a].size \in Nat
  BY DEF TypeInv, TypeOK, Extent
<1> QED BY <1>1, BlocksForType, GeometryAssumption

LEMMA FootprintType ==
  ASSUME TypeInv, NEW a \in Addr,
         InOneGroup(a, BlocksFor(HeaderSize + header[a].size))
  PROVE  Footprint(a) \subseteq Addr
BY FootprintInt, RunInAddr DEF Footprint

LEMMA FootprintStart ==
  ASSUME TypeInv, NEW a \in Addr
  PROVE  a \in Footprint(a)
PROOF
<1> DEFINE n == HeaderSize + header[a].size + BlockSize - 1
<1>1. n \in Nat /\ BlockSize \in Nat \ {0} /\ n >= BlockSize
  BY GeometryAssumption DEF TypeInv, TypeOK, Extent
<1>2. n \div BlockSize >= 1
  <2>1. n \div BlockSize \in Nat /\ n < (n \div BlockSize + 1) * BlockSize
    BY <1>1, DivisionBounds
  <2> HIDE DEF n
  <2>2. n \div BlockSize # 0
    <3> SUFFICES ASSUME n \div BlockSize = 0 PROVE FALSE
      OBVIOUS
    <3> QED BY <1>1, <2>1
  <2> QED BY <2>1, <2>2
<1> HIDE DEF n
<1>3. BlocksFor(HeaderSize + header[a].size) >= 1
  BY <1>2 DEF n, BlocksFor
<1>4. a \in Int
  BY DEF Addr
<1> QED BY <1>3, <1>4, FootprintInt DEF Footprint, RunFrom

(* Two runs, neither of which holds the start of the other. *)
LEMMA RunsApart ==
  ASSUME NEW a \in Addr, NEW b \in Addr, NEW n \in Nat, NEW m \in Nat,
         a \notin RunFrom(b, m), b \notin RunFrom(a, n)
  PROVE  RunFrom(a, n) \cap RunFrom(b, m) = {}
BY DEF RunFrom, Addr


LEMMA InitOwnership == Init => Ownership
BY TaskAssumption
   DEF Init, Ownership, Control, Bitmaps, Live, Allocation, Planned, Disjoint,
       Extents1, Extents2, Extents3, Starts, StartsFor, Heads, HeadsOf, Walk, None,
       NoPredecessor

LEMMA StepOwnership == TypeInv /\ Ownership /\ [Next]_vars => Ownership'
PROOF
<1> SUFFICES ASSUME TypeInv, Ownership, [Next]_vars PROVE Ownership'
  OBVIOUS
<1> USE DEF TypeInv, TypeOK, Ownership
<1>01. CASE UNCHANGED vars
  <2>a. UNCHANGED <<used, header, head, guard, pc, op, slots, plan, todo,
                     link, cur, last, role, owner, torn>>
    BY <1>01 DEF vars
  <2>1. Control'
    BY <2>a DEF Control
  <2>2. Bitmaps'
    BY <2>a DEF Bitmaps, Live
  <2>3. Allocation'
    BY <2>a, AllocationKept
  <2>4. Extents1' /\ Extents2' /\ Extents3'
    BY <2>a, ExtentsKept DEF Live
  <2>5. Heads'
    BY <2>a DEF Heads, HeadsOf, StartsFor, Starts, Live, NoPredecessor, Intact
  <2>6. Walk'
    BY <2>a DEF Walk, StartsFor, Starts, Live
  <2> QED BY <2>1, <2>2, <2>3, <2>4, <2>5, <2>6
<1>02. ASSUME NEW S \in SUBSET Tasks, Stop(S) PROVE Ownership'
  <2>a. /\ UNCHANGED <<header, head, used, owner>>
        /\ \A u \in S : /\ pc'[u] = "idle" /\ op'[u] = "write"
                        /\ slots'[u] = {} /\ plan'[u] = {}
                        /\ todo'[u] = {} /\ link'[u] = None
                        /\ cur'[u] = None /\ last'[u] = None
        /\ \A u \in Tasks \ S :
             /\ pc'[u] = pc[u] /\ op'[u] = op[u]
             /\ slots'[u] = slots[u] /\ plan'[u] = plan[u]
             /\ todo'[u] = todo[u] /\ link'[u] = link[u]
             /\ cur'[u] = cur[u] /\ last'[u] = last[u]
        /\ guard' = IF guard \in S THEN NoTask ELSE guard
        /\ role' = [a \in Addr |-> IF owner[a] \in S
                                      /\ role[a] \in {"plan", "new", "old"}
                                   THEN "lost" ELSE role[a]]
        /\ torn' = torn \cup {t \in S : op[t] = "delete"
                                        /\ pc[t] \in {"freeing", "clear"}}
    BY <1>02 DEF Stop, Unless, DropGuard, device
  <2>b. /\ \A a \in Addr : Live(a)' => Live(a) /\ role'[a] = role[a]
        /\ \A a \in Addr : role[a] = "file" => role'[a] = "file"
        /\ \A a \in Addr : role[a] = "free" <=> role'[a] = "free"
        /\ \A a \in Addr : owner[a] \notin S => role'[a] = role[a]
        /\ \A a, b \in Addr :
             Live(a)' /\ role[b] = role[a] /\ owner[b] = owner[a]
               => role'[b] = role'[a] /\ owner'[b] = owner'[a]
    BY <2>a DEF Live
  <2>1. Control'
    BY <2>a, TaskAssumption DEF Control, None
  <2>2. Bitmaps'
    BY <2>a, <2>b DEF Bitmaps, Live
  <2>3. Allocation'
    BY <2>a, <2>b, AllocationKept
  <2>4. Extents1' /\ Extents2' /\ Extents3'
    BY <2>a, <2>b, ExtentsKept
  <2>5. Heads'
    <3>1. \A u \in Tasks : Intact(u)' => Intact(u)
      BY <2>a DEF Intact
    <3>2. \A a \in Addr : Starts(a)' => Starts(a)
      BY <2>a, <2>b DEF Starts
    <3>3. \A a, u : StartsFor(a, u, "file") => StartsFor(a, u, "file")'
      BY <2>a, <2>b DEF StartsFor, Starts, Live
    <3>4. \A a : NoPredecessor(a) => NoPredecessor(a)'
      BY <2>a, <3>2 DEF NoPredecessor
    <3>5. ASSUME NEW u \in Tasks, u \notin S, NEW r
          PROVE  \A a : StartsFor(a, u, r) => StartsFor(a, u, r)'
      BY <2>a, <2>b, <3>5 DEF StartsFor, Starts, Live
    <3>6. ASSUME NEW u \in Tasks PROVE HeadsOf(u)'
      <4>1. CASE u \in S
        BY <2>a, <3>1, <3>3, <3>4, <4>1 DEF Heads, HeadsOf
      <4>2. CASE u \notin S
        BY <2>a, <3>1, <3>3, <3>4, <3>5, <4>2 DEF Heads, HeadsOf
      <4> QED BY <4>1, <4>2
    <3> QED BY <3>6 DEF Heads
  <2>6. Walk'
    <3>1. \A a, u : StartsFor(a, u, "file") => StartsFor(a, u, "file")'
      BY <2>a, <2>b DEF StartsFor, Starts, Live
    <3> QED BY <2>a, <3>1 DEF Walk
  <2> QED BY <2>1, <2>2, <2>3, <2>4, <2>5, <2>6
<1>1. ASSUME NEW t \in Tasks, StartWrite(t) PROVE Ownership'
  <2>1. Control'
    BY <1>1, TaskAssumption DEF StartWrite, Start, Goto, device, history, Control, None
  <2>2. Bitmaps'
    BY <1>1, TaskAssumption DEF StartWrite, Start, Goto, device, history, Bitmaps, Live, None
  <2>3. Allocation'
    BY <1>1, AllocationKept DEF StartWrite, Start, Goto, device, history
  <2>4. Extents1'
    BY <1>1, TaskAssumption DEF StartWrite, Start, Goto, device, history, Extents1, Starts, Live, Footprint, None
  <2>5. Extents2'
    BY <1>1, TaskAssumption DEF StartWrite, Start, Goto, device, history, Extents2, StartsFor, Starts, Live, None
  <2>6. Extents3'
    BY <1>1, TaskAssumption DEF StartWrite, Start, Goto, device, history, Extents3, Starts, Live, None
  <2>7. Heads'
    BY <1>1, TaskAssumption DEF StartWrite, Start, Goto, device, history, Heads, HeadsOf, StartsFor, Starts, Live, NoPredecessor, Intact, None
  <2>8. Walk'
    BY <1>1, TaskAssumption DEF StartWrite, Start, Goto, device, history, Walk, StartsFor, Starts, Live, None
  <2> QED BY <2>1, <2>2, <2>3, <2>4, <2>5, <2>6, <2>7, <2>8
<1>2. ASSUME NEW t \in Tasks, StartRewrite(t) PROVE Ownership'
  <2>1. Control'
    BY <1>2, TaskAssumption DEF StartRewrite, Start, Goto, device, history, Control, None
  <2>2. Bitmaps'
    BY <1>2, TaskAssumption DEF StartRewrite, Start, Goto, device, history, Bitmaps, Live, None
  <2>3. Allocation'
    BY <1>2, AllocationKept DEF StartRewrite, Start, Goto, device, history
  <2>4. Extents1'
    BY <1>2, TaskAssumption DEF StartRewrite, Start, Goto, device, history, Extents1, Starts, Live, Footprint, None
  <2>5. Extents2'
    BY <1>2, TaskAssumption DEF StartRewrite, Start, Goto, device, history, Extents2, StartsFor, Starts, Live, None
  <2>6. Extents3'
    BY <1>2, TaskAssumption DEF StartRewrite, Start, Goto, device, history, Extents3, Starts, Live, None
  <2>7. Heads'
    BY <1>2, TaskAssumption DEF StartRewrite, Start, Goto, device, history, Heads, HeadsOf, StartsFor, Starts, Live, NoPredecessor, Intact, None
  <2>8. Walk'
    BY <1>2, TaskAssumption DEF StartRewrite, Start, Goto, device, history, Walk, StartsFor, Starts, Live, None
  <2> QED BY <2>1, <2>2, <2>3, <2>4, <2>5, <2>6, <2>7, <2>8
<1>3. ASSUME NEW t \in Tasks, StartAppend(t) PROVE Ownership'
  <2>1. Control'
    BY <1>3, TaskAssumption DEF StartAppend, Start, Goto, device, history, Control, None
  <2>2. Bitmaps'
    BY <1>3, TaskAssumption DEF StartAppend, Start, Goto, device, history, Bitmaps, Live, None
  <2>3. Allocation'
    BY <1>3, AllocationKept DEF StartAppend, Start, Goto, device, history
  <2>4. Extents1'
    BY <1>3, TaskAssumption DEF StartAppend, Start, Goto, device, history, Extents1, Starts, Live, Footprint, None
  <2>5. Extents2'
    BY <1>3, TaskAssumption DEF StartAppend, Start, Goto, device, history, Extents2, StartsFor, Starts, Live, None
  <2>6. Extents3'
    BY <1>3, TaskAssumption DEF StartAppend, Start, Goto, device, history, Extents3, Starts, Live, None
  <2>7. Heads'
    BY <1>3, TaskAssumption DEF StartAppend, Start, Goto, device, history, Heads, HeadsOf, StartsFor, Starts, Live, NoPredecessor, Intact, None
  <2>8. Walk'
    BY <1>3 DEF StartAppend, Start, Goto, device, history, Walk, Control, StartsFor, Starts, Live, None
  <2> QED BY <2>1, <2>2, <2>3, <2>4, <2>5, <2>6, <2>7, <2>8
<1>4. ASSUME NEW t \in Tasks, StartDelete(t) PROVE Ownership'
  <2>1. Control'
    BY <1>4, TaskAssumption DEF StartDelete, Start, Goto, device, history, Control, None
  <2>2. Bitmaps'
    BY <1>4, TaskAssumption DEF StartDelete, Start, Goto, device, history, Bitmaps, Live, None
  <2>3. Allocation'
    BY <1>4, AllocationKept DEF StartDelete, Start, Goto, device, history
  <2>4. Extents1'
    BY <1>4, TaskAssumption DEF StartDelete, Start, Goto, device, history, Extents1, Starts, Live, Footprint, None
  <2>5. Extents2'
    BY <1>4, TaskAssumption DEF StartDelete, Start, Goto, device, history, Extents2, StartsFor, Starts, Live, None
  <2>6. Extents3'
    BY <1>4, TaskAssumption DEF StartDelete, Start, Goto, device, history, Extents3, Starts, Live, None
  <2>7. Heads'
    BY <1>4, TaskAssumption DEF StartDelete, Start, Goto, device, history, Heads, HeadsOf, StartsFor, Starts, Live, NoPredecessor, Intact, None
  <2>8. Walk'
    BY <1>4, TaskAssumption DEF StartDelete, Start, Goto, device, history, Walk, StartsFor, Starts, Live, None
  <2> QED BY <2>1, <2>2, <2>3, <2>4, <2>5, <2>6, <2>7, <2>8
<1>5. ASSUME NEW t \in Tasks, WalkExtent(t) PROVE Ownership'
  <2>1. Control'
    BY <1>5, TaskAssumption DEF WalkExtent, Goto, device, history, Control, None
  <2>2. Bitmaps'
    BY <1>5, TaskAssumption DEF WalkExtent, Goto, device, history, Bitmaps, Live, None
  <2>3. Allocation'
    BY <1>5, AllocationKept DEF WalkExtent, Goto, device, history
  <2>4. Extents1'
    BY <1>5, TaskAssumption DEF WalkExtent, Goto, device, history, Extents1, Starts, Live, Footprint, None
  <2>5. Extents2'
    BY <1>5, TaskAssumption DEF WalkExtent, Goto, device, history, Extents2, StartsFor, Starts, Live, None
  <2>6. Extents3'
    BY <1>5, TaskAssumption DEF WalkExtent, Goto, device, history, Extents3, Starts, Live, None
  <2>7. Heads'
    BY <1>5, TaskAssumption DEF WalkExtent, Goto, device, history, Heads, HeadsOf, StartsFor, Starts, Live, NoPredecessor, Intact, None
  <2>8. Walk'
    <3>1. op[t] = "append" /\ cur[t] # None /\ Intact(t) /\ pc[t] = "walk"
      BY <1>5 DEF WalkExtent, Control, Intact
    <3>2. StartsFor(cur[t], t, "file")
      BY <3>1 DEF Walk, Heads, HeadsOf, Extents2, StartsFor
    <3>3. cur[t] \in Addr
      BY <3>2 DEF StartsFor, Starts
    <3> QED BY <1>5, <3>1, <3>2, <3>3
            DEF WalkExtent, device, history, Walk, StartsFor, Starts, Live, None
  <2> QED BY <2>1, <2>2, <2>3, <2>4, <2>5, <2>6, <2>7, <2>8
<1>6. ASSUME NEW t \in Tasks, WalkDone(t) PROVE Ownership'
  <2>1. Control'
    BY <1>6, TaskAssumption DEF WalkDone, Goto, device, history, Control, None
  <2>2. Bitmaps'
    BY <1>6, TaskAssumption DEF WalkDone, Goto, device, history, Bitmaps, Live, None
  <2>3. Allocation'
    BY <1>6, AllocationKept DEF WalkDone, Goto, device, history
  <2>4. Extents1'
    BY <1>6, TaskAssumption DEF WalkDone, Goto, device, history, Extents1, Starts, Live, Footprint, None
  <2>5. Extents2'
    BY <1>6, TaskAssumption DEF WalkDone, Goto, device, history, Extents2, StartsFor, Starts, Live, None
  <2>6. Extents3'
    BY <1>6, TaskAssumption DEF WalkDone, Goto, device, history, Extents3, Starts, Live, None
  <2>7. Heads'
    BY <1>6, TaskAssumption DEF WalkDone, Goto, device, history, Heads, HeadsOf, StartsFor, Starts, Live, NoPredecessor, Intact, None
  <2>8. Walk'
    BY <1>6, TaskAssumption DEF WalkDone, Goto, device, history, Walk, StartsFor, Starts, Live, None
  <2> QED BY <2>1, <2>2, <2>3, <2>4, <2>5, <2>6, <2>7, <2>8
<1>7. ASSUME NEW t \in Tasks, PlanContiguous(t) PROVE Ownership'
  <2>1. Control'
    BY <1>7, TaskAssumption DEF PlanContiguous, CanPlan, Reserve, Goto, device, history, Control, None
  <2>2. Bitmaps'
    BY <1>7, TaskAssumption DEF PlanContiguous, CanPlan, Reserve, Goto, device, history, Bitmaps, Live, None
  <2>3. Allocation'
    <3>1. Wanted(t) \in Nat
      BY BlocksNeededType DEF Wanted
    <3>2. PICK a \in Addr :
            /\ Fits(a, Wanted(t))
            /\ Reserve(t, {[addr |-> a, count |-> Wanted(t)]})
      BY <1>7 DEF PlanContiguous
    <3> DEFINE s == [addr |-> a, count |-> Wanted(t)]
    <3>3. InOneGroup(a, Wanted(t)) /\ Wanted(t) \in 1 .. BlocksPerGroup
      BY <1>7, <3>1, <3>2, RunFitsGroup DEF Fits, PlanContiguous
    <3>4. s \in Slot
      BY <3>3 DEF Slot
    <3>5. BlocksOf(s) \subseteq Free
      BY <3>2 DEF Fits, BlocksOf
    <3>6. Disjoint({s})
      BY DEF Disjoint
    <3>7. pc[t] = "alloc"
      BY <1>7 DEF PlanContiguous, CanPlan
    <3> QED BY <3>2, <3>3, <3>4, <3>5, <3>6, <3>7, ReserveAllocation
  <2>4. Extents1'
    BY <1>7, TaskAssumption DEF PlanContiguous, CanPlan, Reserve, Goto, device, history, Extents1, Starts, Live, Footprint, None
  <2>5. Extents2'
    BY <1>7, TaskAssumption DEF PlanContiguous, CanPlan, Reserve, Goto, device, history, Extents2, StartsFor, Starts, Live, None
  <2>6. Extents3'
    BY <1>7, TaskAssumption DEF PlanContiguous, CanPlan, Reserve, Goto, device, history, Extents3, Starts, Live, None
  <2>7. Heads'
    BY <1>7, TaskAssumption DEF PlanContiguous, CanPlan, Reserve, Goto, device, history, Heads, HeadsOf, StartsFor, Starts, Live, NoPredecessor, Intact, None
  <2>8. Walk'
    BY <1>7, TaskAssumption DEF PlanContiguous, CanPlan, Reserve, Goto, device, history, Walk, StartsFor, Starts, Live, None
  <2> QED BY <2>1, <2>2, <2>3, <2>4, <2>5, <2>6, <2>7, <2>8
<1>8. ASSUME NEW t \in Tasks, PlanFragments(t) PROVE Ownership'
  <2>1. Control'
    BY <1>8, TaskAssumption DEF PlanFragments, CanPlan, Reserve, Goto, device, history, Control, None
  <2>2. Bitmaps'
    BY <1>8, TaskAssumption DEF PlanFragments, CanPlan, Reserve, Goto, device, history, Bitmaps, Live, None
  <2>3. Allocation'
    <3> DEFINE S == Lowest(Free, Wanted(t))
    <3>1. S \subseteq Free
      BY DEF Lowest
    <3>2. Reserve(t, RunsOf(S)) /\ pc[t] = "alloc"
      BY <1>8 DEF PlanFragments, CanPlan
    <3> HIDE DEF S
    <3> QED BY <3>1, <3>2, RunsOfFree, ReserveAllocation
  <2>4. Extents1'
    BY <1>8, TaskAssumption DEF PlanFragments, CanPlan, Reserve, Goto, device, history, Extents1, Starts, Live, Footprint, None
  <2>5. Extents2'
    BY <1>8, TaskAssumption DEF PlanFragments, CanPlan, Reserve, Goto, device, history, Extents2, StartsFor, Starts, Live, None
  <2>6. Extents3'
    BY <1>8, TaskAssumption DEF PlanFragments, CanPlan, Reserve, Goto, device, history, Extents3, Starts, Live, None
  <2>7. Heads'
    BY <1>8, TaskAssumption DEF PlanFragments, CanPlan, Reserve, Goto, device, history, Heads, HeadsOf, StartsFor, Starts, Live, NoPredecessor, Intact, None
  <2>8. Walk'
    BY <1>8, TaskAssumption DEF PlanFragments, CanPlan, Reserve, Goto, device, history, Walk, StartsFor, Starts, Live, None
  <2> QED BY <2>1, <2>2, <2>3, <2>4, <2>5, <2>6, <2>7, <2>8
<1>9. ASSUME NEW t \in Tasks, PlanInsufficient(t) PROVE Ownership'
  <2>1. Control'
    BY <1>9, TaskAssumption DEF PlanInsufficient, CanPlan, Return, Goto, device, history, Control, None
  <2>2. Bitmaps'
    BY <1>9, TaskAssumption DEF PlanInsufficient, CanPlan, Return, Goto, device, history, Bitmaps, Live, None
  <2>3. Allocation'
    BY <1>9, AllocationKept DEF PlanInsufficient, CanPlan, Return, Goto, device, history
  <2>4. Extents1'
    BY <1>9, TaskAssumption DEF PlanInsufficient, CanPlan, Return, Goto, device, history, Extents1, Starts, Live, Footprint, None
  <2>5. Extents2'
    BY <1>9, TaskAssumption DEF PlanInsufficient, CanPlan, Return, Goto, device, history, Extents2, StartsFor, Starts, Live, None
  <2>6. Extents3'
    BY <1>9, TaskAssumption DEF PlanInsufficient, CanPlan, Return, Goto, device, history, Extents3, Starts, Live, None
  <2>7. Heads'
    BY <1>9, TaskAssumption DEF PlanInsufficient, CanPlan, Return, Goto, device, history, Heads, HeadsOf, StartsFor, Starts, Live, NoPredecessor, Intact, None
  <2>8. Walk'
    BY <1>9, TaskAssumption DEF PlanInsufficient, CanPlan, Return, Goto, device, history, Walk, StartsFor, Starts, Live, None
  <2> QED BY <2>1, <2>2, <2>3, <2>4, <2>5, <2>6, <2>7, <2>8
<1>10. ASSUME NEW t \in Tasks, PlanNothing(t) PROVE Ownership'
  <2>1. Control'
    BY <1>10, TaskAssumption DEF PlanNothing, CanPlan, Goto, device, history, Control, None
  <2>2. Bitmaps'
    BY <1>10, TaskAssumption DEF PlanNothing, CanPlan, Goto, device, history, Bitmaps, Live, None
  <2>3. Allocation'
    BY <1>10, AllocationKept DEF PlanNothing, CanPlan, Goto, device, history
  <2>4. Extents1'
    BY <1>10, TaskAssumption DEF PlanNothing, CanPlan, Goto, device, history, Extents1, Starts, Live, Footprint, None
  <2>5. Extents2'
    BY <1>10, TaskAssumption DEF PlanNothing, CanPlan, Goto, device, history, Extents2, StartsFor, Starts, Live, None
  <2>6. Extents3'
    BY <1>10, TaskAssumption DEF PlanNothing, CanPlan, Goto, device, history, Extents3, Starts, Live, None
  <2>7. Heads'
    BY <1>10, TaskAssumption DEF PlanNothing, CanPlan, Goto, device, history, Heads, HeadsOf, StartsFor, Starts, Live, NoPredecessor, Intact, None
  <2>8. Walk'
    BY <1>10, TaskAssumption DEF PlanNothing, CanPlan, Goto, device, history, Walk, StartsFor, Starts, Live, None
  <2> QED BY <2>1, <2>2, <2>3, <2>4, <2>5, <2>6, <2>7, <2>8
<1>11. ASSUME NEW t \in Tasks, CommitBitmap(t) PROVE Ownership'
  <2>a. PICK g \in todo[t] :
          /\ used' = used \cup PlannedIn(t, g)
          /\ role' = [a \in Addr |-> IF a \in PlannedIn(t, g) THEN "plan"
                                     ELSE role[a]]
          /\ owner' = [a \in Addr |-> IF a \in PlannedIn(t, g) THEN t
                                      ELSE owner[a]]
          /\ todo' = [todo EXCEPT ![t] = @ \ {g}]
          /\ pc' = pc \/ Goto(t, "layout")
    BY <1>11 DEF CommitBitmap
  <2>b. /\ PlannedIn(t, g) \subseteq Addr
        /\ \A a \in PlannedIn(t, g) : role[a] = "free" /\ GroupOf(a) = g
    BY <2>a, PlannedBlocks DEF PlannedIn, Allocation
  <2>c. /\ header' = header /\ head' = head /\ slots' = slots /\ plan' = plan
        /\ link' = link /\ cur' = cur /\ last' = last /\ op' = op
        /\ torn' = torn
        /\ pc[t] = "commit"
    BY <1>11 DEF CommitBitmap
  <2>p. \A u \in Tasks : pc'[u] = pc[u]
                           \/ (pc[u] = "commit" /\ pc'[u] = "layout")
    <3>1. CASE pc' = pc
      BY <3>1
    <3>2. CASE Goto(t, "layout")
      BY <2>c, <3>2 DEF Goto
    <3> QED BY <2>a, <3>1, <3>2
  <2>d. /\ \A a \in Addr : Live(a)' <=> Live(a)
        /\ \A a \in Addr : Live(a) => role'[a] = role[a] /\ owner'[a] = owner[a]
        /\ \A a, b \in Addr :
             Live(a)' /\ role[b] = role[a] /\ owner[b] = owner[a]
               => role'[b] = role'[a] /\ owner'[b] = owner'[a]
    BY <2>a, <2>b DEF Live
  <2>e. /\ \A a \in Addr : Starts(a)' <=> Starts(a)
        /\ \A a, u, r : StartsFor(a, u, r) => StartsFor(a, u, r)'
        /\ \A a : NoPredecessor(a) => NoPredecessor(a)'
    BY <2>c, <2>d DEF Starts, StartsFor, NoPredecessor
  <2>1. Control'
    BY <1>11, TaskAssumption DEF CommitBitmap, Goto, device, history, Control, None
  <2>2. Bitmaps'
    BY <2>a, <2>b, <2>d DEF Bitmaps, Live
  <2>3. Allocation'
    <3> SUFFICES ASSUME NEW u \in Tasks
                 PROVE  /\ \A a \in Planned(u) :
                             IF GroupOf(a) \in todo'[u] THEN role'[a] = "free"
                             ELSE role'[a] = "plan" /\ owner'[a] = u
                        /\ \A s \in plan[u] : \A a \in BlocksOf(s) :
                             role'[a] = "plan" /\ owner'[a] = u
      <4>1. \A u \in Tasks : Planned(u)' = Planned(u)
        BY <2>c DEF Planned, BlocksOf
      <4>2. \A s : BlocksOf(s)' = BlocksOf(s)
        BY DEF BlocksOf
      <4>3. \A u \in Tasks : Disjoint(slots'[u]) /\ Disjoint(plan'[u])
        BY <2>c DEF Allocation
      <4> HIDE DEF TypeInv, TypeOK, Ownership
      <4> QED BY <2>c, <4>1, <4>2, <4>3 DEF Allocation
    <3>1. CASE u = t
      <4>1. plan[t] = {}
        BY <2>c DEF Control
      <4>2. ASSUME NEW a \in Planned(t)
            PROVE  IF GroupOf(a) \in todo'[t] THEN role'[a] = "free"
                   ELSE role'[a] = "plan" /\ owner'[a] = t
        <5>1. a \in Addr
          BY PlannedBlocks
        <5>2. a \in PlannedIn(t, g) <=> GroupOf(a) = g
          BY DEF PlannedIn
        <5> QED BY <5>1, <5>2, <2>a DEF Allocation
      <4> QED BY <3>1, <4>1, <4>2
    <3>2. CASE u # t
      <4>1. guard = t /\ pc[u] # "commit"
        BY <2>c, <3>2 DEF Control
      <4>2. todo[u] = {} /\ todo'[u] = todo[u]
        BY <4>1, <2>a, <3>2 DEF Control
      <4>3. Planned(u) \subseteq Addr /\ \A s \in plan[u] : BlocksOf(s) \subseteq Addr
        BY PlannedBlocks
      <4> QED BY <4>2, <4>3, <2>a, <2>b DEF Allocation
    <3> QED BY <3>1, <3>2
  <2>4. Extents1'
    BY <2>c, <2>d, ExtentsKept DEF Live
  <2>5. Extents2'
    BY <2>c, <2>d, ExtentsKept DEF Live
  <2>6. Extents3'
    BY <2>c, <2>d, ExtentsKept DEF Live
  <2>7. Heads'
    BY <2>c, <2>p, <2>e DEF Heads, HeadsOf, Intact
  <2>8. Walk'
    BY <2>c, <2>p, <2>e DEF Walk
  <2> QED BY <2>1, <2>2, <2>3, <2>4, <2>5, <2>6, <2>7, <2>8
<1>12. ASSUME NEW t \in Tasks, Layout(t) PROVE Ownership'
  <2>a. /\ pc[t] = "layout" /\ pc' = [pc EXCEPT ![t] = "write"]
        /\ slots' = [slots EXCEPT ![t] = {}]
        /\ UNCHANGED <<header, head, role, owner, used, guard, op, todo, link,
                       cur, last, torn>>
    BY <1>12 DEF Layout, Goto, device, history
  <2>b. link[t] = None /\ todo[t] = {} /\ op[t] # "delete"
    BY <2>a DEF Control
  <2>1. Control'
    BY <1>12, TaskAssumption DEF Layout, Goto, device, history, Control, None
  <2>2. Bitmaps'
    BY <1>12, TaskAssumption DEF Layout, Goto, device, history, Bitmaps, Live, None
  <2>3. Allocation'
    <3> DEFINE entry(s) ==
          [addr |-> s.addr, count |-> s.count, bytes |-> Chunk(t, s),
           from |-> Offset(t, s) + (IF op[t] = "append" THEN size[t] ELSE 0)]
               P == {entry(s) : s \in {r \in slots[t] : Chunk(t, r) > 0}}
    <3>1. \A s : BlocksOf(entry(s)) = BlocksOf(s)
      BY DEF BlocksOf
    <3>2. plan' = [plan EXCEPT ![t] = P]
      BY <1>12 DEF Layout
    <3> HIDE DEF entry
    <3>3. \A p \in P : \E s \in slots[t] : p = entry(s)
      OBVIOUS
    <3> HIDE DEF P
    <3>4. Disjoint(P)
      BY <3>1, <3>3 DEF Disjoint, Allocation
    <3>5. \A p \in P : \A a \in BlocksOf(p) : role[a] = "plan" /\ owner[a] = t
      BY <3>1, <3>3, <2>b, PlannedBlocks DEF Allocation
    <3> SUFFICES ASSUME NEW u \in Tasks
                 PROVE  /\ Disjoint(slots'[u]) /\ Disjoint(plan'[u])
                        /\ \A a \in Planned(u)' :
                             IF GroupOf(a) \in todo'[u] THEN role'[a] = "free"
                             ELSE role'[a] = "plan" /\ owner'[a] = u
                        /\ \A s \in plan'[u] : \A a \in BlocksOf(s) :
                             role'[a] = "plan" /\ owner'[a] = u
      BY DEF Allocation, Disjoint, BlocksOf
    <3>0. role' = role /\ owner' = owner /\ todo' = todo
      BY <2>a
    <3>6. CASE u = t
      <4>1. slots'[u] = {} /\ plan'[u] = P
        BY <2>a, <3>2, <3>6
      <4>2. Planned(u)' = {}
        BY <4>1 DEF Planned
      <4> QED BY <3>0, <3>4, <3>5, <3>6, <4>1, <4>2 DEF Disjoint
    <3>7. CASE u # t
      <4>1. slots'[u] = slots[u] /\ plan'[u] = plan[u]
        BY <2>a, <3>2, <3>7
      <4>2. Planned(u)' = Planned(u)
        BY <4>1 DEF Planned, BlocksOf
      <4> QED BY <3>0, <4>1, <4>2 DEF Allocation
    <3> QED BY <3>6, <3>7
  <2>4. Extents1'
    BY <1>12, TaskAssumption DEF Layout, Goto, device, history, Extents1, Starts, Live, Footprint, None
  <2>5. Extents2'
    BY <1>12, TaskAssumption DEF Layout, Goto, device, history, Extents2, StartsFor, Starts, Live, None
  <2>6. Extents3'
    BY <1>12, TaskAssumption DEF Layout, Goto, device, history, Extents3, Starts, Live, None
  <2>7. Heads'
    BY <2>a, <2>b DEF Heads, HeadsOf, StartsFor, Starts, Live, NoPredecessor, Intact
  <2>8. Walk'
    BY <1>12, TaskAssumption DEF Layout, Goto, device, history, Walk, StartsFor, Starts, Live, None
  <2> QED BY <2>1, <2>2, <2>3, <2>4, <2>5, <2>6, <2>7, <2>8
<1>13. ASSUME NEW t \in Tasks, LayoutMismatch(t) PROVE Ownership'
  <2>1. Control'
    BY <1>13, TaskAssumption DEF LayoutMismatch, Return, Turn, Goto, device, history, Control, None
  <2>2. Bitmaps'
    BY <1>13, TaskAssumption DEF LayoutMismatch, Return, Turn, Goto, device, history, Bitmaps, Live, None
  <2>3. Allocation'
    BY <1>13, AllocationKept DEF LayoutMismatch, Return, Turn, Goto, device, history
  <2>4. Extents1'
    BY <1>13, ExtentsKept DEF LayoutMismatch, Return, Turn, Goto, device, history, Live
  <2>5. Extents2'
    BY <1>13, ExtentsKept DEF LayoutMismatch, Return, Turn, Goto, device, history, Live
  <2>6. Extents3'
    BY <1>13, ExtentsKept DEF LayoutMismatch, Return, Turn, Goto, device, history, Live
  <2>7. Heads'
    BY <1>13, TaskAssumption DEF LayoutMismatch, Return, Turn, Goto, device, history, Heads, HeadsOf, StartsFor, Starts, Live, NoPredecessor, Intact, None
  <2>8. Walk'
    BY <1>13, TaskAssumption DEF LayoutMismatch, Return, Turn, Goto, device, history, Walk, StartsFor, Starts, Live, None
  <2> QED BY <2>1, <2>2, <2>3, <2>4, <2>5, <2>6, <2>7, <2>8
<1>14. ASSUME NEW t \in Tasks, WriteExtent(t) PROVE Ownership'
  <2>a. PICK s \in plan[t] :
          /\ header' = [a \in Addr |->
               IF a = s.addr
               THEN [size |-> s.bytes, next |-> link[t], from |-> s.from]
               ELSE IF a \in BlocksOf(s) THEN Blank
               ELSE header[a]]
          /\ role' = [a \in Addr |-> IF a \in BlocksOf(s) THEN "new"
                                     ELSE role[a]]
          /\ link' = [link EXCEPT ![t] = s.addr]
          /\ plan' = [plan EXCEPT ![t] = @ \ {s}]
    BY <1>14 DEF WriteExtent, HighestSlot, NextOf
  <2>b. /\ pc[t] = "write" /\ op[t] # "delete" /\ slots[t] = {}
        /\ UNCHANGED <<used, head, guard, pc, op, slots, todo, cur, last,
                       owner, torn>>
    BY <1>14 DEF WriteExtent, Control
  <2>c. /\ s.addr \in Addr /\ s.count \in 1 .. BlocksPerGroup
        /\ s.bytes \in Nat \ {0}
        /\ InOneGroup(s.addr, s.count)
        /\ s.bytes <= s.count * BlockSize - HeaderSize
    BY DEF SlotsInGroup, SerialSlot
  <2>d. /\ BlocksOf(s) \subseteq Addr /\ s.addr \in BlocksOf(s)
        /\ \A a \in BlocksOf(s) : role[a] = "plan" /\ owner[a] = t
    BY <2>c, BlocksOfSlot DEF Allocation
  <2>e. /\ InOneGroup(s.addr, BlocksFor(HeaderSize + s.bytes))
        /\ RunFrom(s.addr, BlocksFor(HeaderSize + s.bytes)) \subseteq BlocksOf(s)
    <3>0. s.count \in Nat /\ s.bytes \in Nat
      BY <2>c, GeometryAssumption
    <3>1. BlocksFor(HeaderSize + s.bytes) <= s.count
      BY <2>c, <3>0, FootprintFits
    <3>2. BlocksFor(HeaderSize + s.bytes) \in Nat
      BY <2>c, BlocksForType, GeometryAssumption
    <3>3. s.addr \in Int /\ s.count \in Int /\ LastOf(GroupOf(s.addr)) \in Int
      BY <2>c, GroupBounds DEF Addr
    <3> QED BY <2>c, <3>1, <3>2, <3>3 DEF InOneGroup, BlocksOf, RunFrom
  <2>f. /\ header'[s.addr].size = s.bytes /\ header'[s.addr].next = link[t]
        /\ \A a \in BlocksOf(s) : a # s.addr => header'[a].size = 0
        /\ \A a \in Addr \ BlocksOf(s) : /\ header'[a] = header[a]
                                         /\ role'[a] = role[a]
        /\ \A a \in BlocksOf(s) : role'[a] = "new"
    BY <2>a, <2>d DEF Blank
  <2>g. /\ \A a : Starts(a) => a \notin BlocksOf(s) /\ a \in Addr
        /\ \A a : Starts(a)' <=> Starts(a) \/ a = s.addr
    BY <2>b, <2>c, <2>d, <2>f DEF Starts, Live
  <2>h. /\ \A a, u, r : StartsFor(a, u, r) => StartsFor(a, u, r)'
        /\ StartsFor(s.addr, t, "new")'
    BY <2>b, <2>d, <2>f, <2>g DEF StartsFor
  <2>i. ASSUME NEW x, x # None, NoPredecessor(x), x # link[t]
        PROVE  NoPredecessor(x)'
    BY <2>f, <2>g, <2>i DEF NoPredecessor
  <2>j. link[t] # None => StartsFor(link[t], t, "new") /\ NoPredecessor(link[t])
    BY <2>b DEF Heads, HeadsOf
  <2>1. Control'
    BY <1>14, TaskAssumption DEF WriteExtent, HighestSlot, NextOf, Goto, device, history, Control, None
  <2>2. Bitmaps'
    BY <2>a, <2>b, <2>d, <2>f DEF Bitmaps, Live
  <2>3. Allocation'
    <3> SUFFICES ASSUME NEW u \in Tasks
                 PROVE  /\ Disjoint(slots[u]) /\ Disjoint(plan'[u])
                        /\ \A a \in Planned(u) :
                             IF GroupOf(a) \in todo[u] THEN role'[a] = "free"
                             ELSE role'[a] = "plan" /\ owner[a] = u
                        /\ \A r \in plan'[u] : \A a \in BlocksOf(r) :
                             role'[a] = "plan" /\ owner[a] = u
      <4>1. \A u \in Tasks : Planned(u)' = Planned(u)
        BY <2>b DEF Planned, BlocksOf
      <4>2. \A S : Disjoint(S)' = Disjoint(S)
        BY DEF Disjoint, BlocksOf
      <4>3. \A r : BlocksOf(r)' = BlocksOf(r)
        BY DEF BlocksOf
      <4> HIDE DEF TypeInv, TypeOK, Ownership
      <4> QED BY <2>b, <4>1, <4>2, <4>3 DEF Allocation
    <3>1. Planned(u) \subseteq Addr /\ \A r \in plan[u] : BlocksOf(r) \subseteq Addr
      BY PlannedBlocks
    <3>2. CASE u = t
      <4>1. plan'[t] = plan[t] \ {s}
        BY <2>a
      <4>2. \A r \in plan'[t] : BlocksOf(r) \cap BlocksOf(s) = {}
        BY <4>1 DEF Allocation, Disjoint
      <4>3. Disjoint(plan'[t])
        BY <4>1 DEF Allocation, Disjoint
      <4>4. Planned(t) = {} /\ Disjoint(slots[t])
        BY <2>b DEF Planned, Disjoint
      <4>5. \A r \in plan'[t] : \A a \in BlocksOf(r) :
              role'[a] = "plan" /\ owner[a] = t
        BY <2>f, <3>1, <3>2, <4>1, <4>2 DEF Allocation
      <4> QED BY <3>2, <4>3, <4>4, <4>5
    <3>3. CASE u # t
      <4>1. plan'[u] = plan[u]
        BY <2>a, <3>3
      <4>2. \A a \in Addr : role[a] = "free" \/ owner[a] = u =>
              role'[a] = role[a]
        BY <2>d, <2>f, <3>3
      <4> QED BY <3>1, <4>1, <4>2 DEF Allocation
    <3> QED BY <3>2, <3>3
  <2>4. Extents1'
    <3> SUFFICES ASSUME NEW a \in Addr, Starts(a)'
                 PROVE  /\ InOneGroup(a, BlocksFor(HeaderSize + header'[a].size))
                        /\ \A b \in RunFrom(a, BlocksFor(HeaderSize
                                                         + header'[a].size)) :
                             /\ role'[b] = role'[a] /\ owner'[b] = owner'[a]
                             /\ b # a => header'[b].size = 0
      BY DEF Extents1, Footprint, InOneGroup, BlocksFor, RunFrom
    <3>1. CASE a = s.addr
      <4>1. header'[a].size = s.bytes
        BY <3>1, <2>f
      <4>2. \A b \in BlocksOf(s) : /\ role'[b] = "new" /\ owner'[b] = t
                                   /\ b # a => header'[b].size = 0
        BY <3>1, <2>b, <2>d, <2>f
      <4> QED BY <3>1, <4>1, <4>2, <2>d, <2>e
    <3>2. CASE a # s.addr
      <4>1. Starts(a) /\ header'[a] = header[a] /\ role'[a] = role[a]
        BY <2>f, <2>g, <3>2
      <4>2. /\ InOneGroup(a, BlocksFor(HeaderSize + header[a].size))
            /\ \A b \in Footprint(a) :
                 /\ role[b] = role[a] /\ owner[b] = owner[a]
                 /\ b # a => header[b].size = 0
        BY <4>1 DEF Extents1
      <4>3. Footprint(a) \subseteq Addr
        BY <4>2, FootprintType
      <4>4. \A b \in Footprint(a) : b \notin BlocksOf(s)
        BY <4>1, <4>2, <2>d DEF Starts, Live
      <4> QED BY <4>1, <4>2, <4>3, <4>4, <2>b, <2>f DEF Footprint
    <3> QED BY <3>1, <3>2
  <2>5. Extents2'
    <3> SUFFICES ASSUME NEW a \in Addr, Starts(a)', header'[a].next # None
                 PROVE  StartsFor(header[a].next, owner[a], role[a])'
      BY DEF Extents2
    <3>1. CASE a = s.addr
      BY <3>1, <2>b, <2>d, <2>f, <2>h, <2>j
    <3>2. CASE a # s.addr
      <4>1. Starts(a) /\ header'[a] = header[a] /\ role'[a] = role[a]
        BY <2>f, <2>g, <3>2
      <4> QED BY <4>1, <2>b, <2>h DEF Extents2
    <3> QED BY <3>1, <3>2
  <2>6. Extents3'
    <3> SUFFICES ASSUME NEW a \in Addr, NEW b \in Addr, Starts(a)', Starts(b)',
                        a # b, header'[a].next # None
                 PROVE  header'[a].next # header'[b].next
      BY DEF Extents3
    <3>1. CASE a = s.addr
      BY <3>1, <2>f, <2>g, <2>j DEF NoPredecessor
    <3>2. CASE b = s.addr
      BY <3>2, <2>f, <2>g, <2>j DEF NoPredecessor
    <3>3. CASE a # s.addr /\ b # s.addr
      BY <3>3, <2>f, <2>g DEF Extents3
    <3> QED BY <3>1, <3>2, <3>3
  <2>7. Heads'
    <3>1. NoPredecessor(s.addr)'
      <4>1. s.addr # None /\ NoPredecessor(s.addr)
        BY <2>c, <2>g, <2>d DEF NoPredecessor, Extents2, StartsFor, None, Addr
      <4>2. s.addr # link[t]
        BY <2>d, <2>j, <2>g, <4>1 DEF StartsFor
      <4> QED BY <2>i, <4>1, <4>2
    <3>2. ASSUME NEW x, NEW u \in Tasks, NEW r, StartsFor(x, u, r),
                 NoPredecessor(x), u # t \/ r # "new"
          PROVE  StartsFor(x, u, r)' /\ NoPredecessor(x)'
      <4>1. x # link[t]
        BY <3>2, <2>j DEF StartsFor, Starts, Addr, None
      <4>2. x # None
        BY <3>2 DEF StartsFor, Starts, Addr, None
      <4> QED BY <3>2, <4>1, <4>2, <2>h, <2>i
    <3> SUFFICES ASSUME NEW u \in Tasks PROVE HeadsOf(u)'
      BY DEF Heads
    <3>3. pc[u] = "write" /\ link'[u] # None =>
               StartsFor(link[u], u, "new")' /\ NoPredecessor(link[u])'
      <4>1. CASE u = t
        BY <4>1, <2>a, <2>h, <3>1
      <4>2. CASE u # t
        <5>1. link'[u] = link[u]
          BY <4>2, <2>a
        <5> QED BY <4>2, <5>1, <3>2 DEF Heads, HeadsOf
      <4> QED BY <4>1, <4>2
    <3> QED BY <2>b, <3>2, <3>3 DEF Heads, HeadsOf, Intact
  <2>8. Walk'
    <3>1. \A a, u, r : StartsFor(a, u, r) => header'[a] = header[a]
      BY <2>f, <2>g DEF StartsFor
    <3> QED BY <2>b, <2>h, <3>1 DEF Walk
  <2> QED BY <2>1, <2>2, <2>3, <2>4, <2>5, <2>6, <2>7, <2>8
<1>15. ASSUME NEW t \in Tasks, LinkAppend(t) PROVE Ownership'
  <2>a. /\ pc[t] = "write" /\ op[t] = "append" /\ last[t] # None
        /\ header' = [header EXCEPT ![last[t]].next = link[t]]
        /\ role' = [a \in Addr |-> IF owner[a] = t /\ role[a] = "new"
                                   THEN "file" ELSE role[a]]
        /\ owner' = owner
    BY <1>15 DEF LinkAppend, Written, Turn, Tail
  <2>b. /\ StartsFor(last[t], t, "file") /\ header[last[t]].next = None
        /\ last[t] \in Addr
    BY <2>a DEF Walk, StartsFor, Starts
  <2>c. /\ \A a \in Addr : header'[a].size = header[a].size
        /\ \A a \in Addr : a # last[t] => header'[a] = header[a]
        /\ header'[last[t]].next = link[t]
    BY <2>a, <2>b DEF Extent
  <2>d. \A a : Starts(a)' <=> Starts(a)
    BY <2>a, <2>c DEF Starts, Live
  <2>1. Control'
    BY <1>15, TaskAssumption DEF LinkAppend, Turn, Tail, Written, Goto, device, history, Control, None
  <2>2. Bitmaps'
    BY <1>15, TaskAssumption DEF LinkAppend, Turn, Tail, Written, Goto, device, history, Bitmaps, Live, None
  <2>3. Allocation'
    BY <1>15, AllocationKept DEF LinkAppend, Turn, Tail, Written, Goto, device, history
  <2>4. Extents1'
    <3> SUFFICES ASSUME NEW a \in Addr, Starts(a)
                 PROVE  /\ InOneGroup(a, BlocksFor(HeaderSize + header[a].size))
                        /\ \A b \in Footprint(a) :
                             /\ role'[b] = role'[a] /\ owner[b] = owner[a]
                             /\ b # a => header'[b].size = 0
      BY <2>a, <2>c, <2>d, SMTT(60) DEF Extents1, Footprint, InOneGroup, BlocksFor, RunFrom
    <3>1. /\ InOneGroup(a, BlocksFor(HeaderSize + header[a].size))
          /\ \A b \in Footprint(a) :
               /\ role[b] = role[a] /\ owner[b] = owner[a]
               /\ b # a => header[b].size = 0
      BY DEF Extents1
    <3>2. Footprint(a) \subseteq Addr
      BY <3>1, FootprintType
    <3> QED BY <2>a, <2>c, <3>1, <3>2
  <2>5. Extents2'
    <3> SUFFICES ASSUME NEW a \in Addr, Starts(a), header'[a].next # None
                 PROVE  StartsFor(header[a].next, owner[a], role[a])'
      BY <2>a, <2>d DEF Extents2
    <3>1. CASE a = last[t]
      <4>1. StartsFor(link[t], t, "new")
        BY <2>a, <2>c, <3>1 DEF Heads, HeadsOf
      <4> QED BY <4>1, <3>1, <2>a, <2>b, <2>c, <2>d DEF StartsFor, Starts
    <3>2. CASE a # last[t]
      <4>1. StartsFor(header[a].next, owner[a], role[a])
        BY <3>2, <2>c DEF Extents2
      <4> QED BY <4>1, <3>2, <2>a, <2>c, <2>d DEF StartsFor, Starts
    <3> QED BY <3>1, <3>2
  <2>6. Extents3'
    <3>1. link[t] # None => NoPredecessor(link[t])
      BY <2>a DEF Heads, HeadsOf
    <3> SUFFICES ASSUME NEW a \in Addr, NEW b \in Addr, Starts(a), Starts(b),
                        a # b, header'[a].next # None
                 PROVE  header'[a].next # header'[b].next
      BY <2>d DEF Extents3
    <3>2. CASE a = last[t]
      BY <3>1, <3>2, <2>c DEF NoPredecessor
    <3>3. CASE b = last[t]
      BY <3>1, <3>3, <2>c DEF NoPredecessor
    <3>4. CASE a # last[t] /\ b # last[t]
      BY <3>4, <2>c DEF Extents3
    <3> QED BY <3>2, <3>3, <3>4
  <2>7. Heads'
    BY <1>15, TaskAssumption DEF LinkAppend, Turn, Tail, Written, Goto, device, history, Heads, HeadsOf, StartsFor, Starts, Live, NoPredecessor, Intact, None
  <2>8. Walk'
    BY <1>15, TaskAssumption DEF LinkAppend, Turn, Tail, Written, Goto, device, history, Walk, StartsFor, Starts, Live, None
  <2> QED BY <2>1, <2>2, <2>3, <2>4, <2>5, <2>6, <2>7, <2>8
<1>16. ASSUME NEW t \in Tasks, RegisterAppend(t) PROVE Ownership'
  <2>1. Control'
    BY <1>16, TaskAssumption DEF RegisterAppend, Turn, Return, Written, Goto, device, history, Control, None
  <2>2. Bitmaps'
    BY <1>16, TaskAssumption DEF RegisterAppend, Turn, Return, Written, Goto, device, history, Bitmaps, Live, None
  <2>3. Allocation'
    BY <1>16, AllocationKept DEF RegisterAppend, Turn, Return, Written, Goto, device, history
  <2>4. Extents1'
    BY <1>16, ExtentsKept DEF RegisterAppend, Turn, Return, Written, Goto, device, history, Live
  <2>5. Extents2'
    BY <1>16, ExtentsKept DEF RegisterAppend, Turn, Return, Written, Goto, device, history, Live
  <2>6. Extents3'
    BY <1>16, ExtentsKept DEF RegisterAppend, Turn, Return, Written, Goto, device, history, Live
  <2>7. Heads'
    BY <1>16, TaskAssumption DEF RegisterAppend, Turn, Return, Written, Goto, device, history, Heads, HeadsOf, StartsFor, Starts, Live, NoPredecessor, Intact, None
  <2>8. Walk'
    BY <1>16, TaskAssumption DEF RegisterAppend, Turn, Return, Written, Goto, device, history, Walk, StartsFor, Starts, Live, None
  <2> QED BY <2>1, <2>2, <2>3, <2>4, <2>5, <2>6, <2>7, <2>8
<1>17. ASSUME NEW t \in Tasks, RegisterWrite(t) PROVE Ownership'
  <2>1. Control'
    BY <1>17, TaskAssumption DEF RegisterWrite, Turn, Written, Goto, device, history, Control, None
  <2>2. Bitmaps'
    BY <1>17, TaskAssumption DEF RegisterWrite, Turn, Written, Goto, device, history, Bitmaps, Live, None
  <2>3. Allocation'
    BY <1>17, AllocationKept DEF RegisterWrite, Turn, Written, Goto, device, history
  <2>4. Extents1'
    BY <1>17, ExtentsKept DEF RegisterWrite, Turn, Written, Goto, device, history, Live
  <2>5. Extents2'
    BY <1>17, ExtentsKept DEF RegisterWrite, Turn, Written, Goto, device, history, Live
  <2>6. Extents3'
    BY <1>17, ExtentsKept DEF RegisterWrite, Turn, Written, Goto, device, history, Live
  <2>7. Heads'
    <3>1. /\ pc[t] = "write" /\ op[t] \in {"write", "rewrite"}
          /\ head' = [head EXCEPT ![t] = link[t]]
          /\ cur' = [cur EXCEPT ![t] = head[t]]
          /\ link' = [link EXCEPT ![t] = None]
          /\ pc' = [pc EXCEPT ![t] = "free"]
          /\ UNCHANGED <<header, op, owner, torn>>
          /\ role' = [a \in Addr |-> IF owner[a] = t /\ role[a] = "new"
                                     THEN "file"
                                     ELSE IF owner[a] = t /\ role[a] = "file"
                                     THEN "old" ELSE role[a]]
      BY <1>17 DEF RegisterWrite, Written, Goto, Turn
    <3>2. \A a : Starts(a)' <=> Starts(a)
      BY <3>1 DEF Starts, Live
    <3>3. /\ \A a : NoPredecessor(a) => NoPredecessor(a)'
          /\ \A a, u, r : StartsFor(a, u, r) /\ u # t => StartsFor(a, u, r)'
          /\ \A a : StartsFor(a, t, "new") => StartsFor(a, t, "file")'
          /\ \A a : StartsFor(a, t, "file") => StartsFor(a, t, "old")'
      BY <3>1, <3>2 DEF StartsFor, NoPredecessor, Starts
    <3>4. Intact(t)
      BY <3>1 DEF Control, Intact
    <3> SUFFICES ASSUME NEW u \in Tasks PROVE HeadsOf(u)'
      BY DEF Heads
    <3>5. CASE u = t
      BY <3>1, <3>3, <3>4, <3>5 DEF Heads, HeadsOf
    <3>6. CASE u # t
      <4>1. /\ head'[u] = head[u] /\ link'[u] = link[u] /\ pc'[u] = pc[u]
            /\ cur'[u] = cur[u] /\ op'[u] = op[u]
            /\ (Intact(u)' => Intact(u))
        BY <3>1, <3>6 DEF Intact
      <4> QED BY <3>3, <3>6, <4>1 DEF Heads, HeadsOf
    <3> QED BY <3>5, <3>6
  <2>8. Walk'
    BY <1>17, TaskAssumption DEF RegisterWrite, Turn, Written, Goto, device, history, Walk, StartsFor, Starts, Live, None
  <2> QED BY <2>1, <2>2, <2>3, <2>4, <2>5, <2>6, <2>7, <2>8
<1>18. ASSUME NEW t \in Tasks, FreeStart(t) PROVE Ownership'
  <2>1. Control'
    BY <1>18, TaskAssumption DEF FreeStart, Turn, Goto, device, history, Control, None
  <2>2. Bitmaps'
    BY <1>18, TaskAssumption DEF FreeStart, Turn, Goto, device, history, Bitmaps, Live, None
  <2>3. Allocation'
    BY <1>18, AllocationKept DEF FreeStart, Turn, Goto, device, history
  <2>4. Extents1'
    BY <1>18, ExtentsKept DEF FreeStart, Turn, Goto, device, history, Live
  <2>5. Extents2'
    BY <1>18, ExtentsKept DEF FreeStart, Turn, Goto, device, history, Live
  <2>6. Extents3'
    BY <1>18, ExtentsKept DEF FreeStart, Turn, Goto, device, history, Live
  <2>7. Heads'
    BY <1>18 DEF FreeStart, Turn, Goto, device, history, Heads, HeadsOf, StartsFor, Starts, Live, NoPredecessor, Intact, Control, None
  <2>8. Walk'
    BY <1>18, TaskAssumption DEF FreeStart, Turn, Goto, device, history, Walk, StartsFor, Starts, Live, None
  <2> QED BY <2>1, <2>2, <2>3, <2>4, <2>5, <2>6, <2>7, <2>8
<1>19. ASSUME NEW t \in Tasks, FreeExtent(t) PROVE Ownership'
  <2> PICK c : c = cur[t]
    OBVIOUS
  <2>a. /\ pc[t] = "freeing" /\ c # None
        /\ role' = [a \in Addr |-> IF a \in Footprint(c) THEN "free" ELSE role[a]]
        /\ owner' = [a \in Addr |-> IF a \in Footprint(c) THEN NoTask ELSE owner[a]]
        /\ cur' = [cur EXCEPT ![t] = header[c].next]
        /\ UNCHANGED <<header, head, pc, op, link, last, torn>>
    BY <1>19 DEF FreeExtent
  <2>b. StartsFor(c, t, "old") /\ NoPredecessor(c) /\ c \in Addr
    BY <2>a DEF Heads, HeadsOf, StartsFor, Starts
  <2>c. /\ InOneGroup(c, BlocksFor(HeaderSize + header[c].size))
        /\ \A b \in Footprint(c) : /\ role[b] = "old" /\ owner[b] = t
                                   /\ b # c => header[b].size = 0
    BY <2>b DEF Extents1, StartsFor
  <2>d. c \in Footprint(c)
    BY <2>b, FootprintStart
  <2>e. \A a : Starts(a)' <=> Starts(a) /\ a # c
    BY <2>a, <2>b, <2>c, <2>d DEF Starts, Live
  <2>f. \A a : Starts(a) /\ a # c => /\ a \notin Footprint(c)
                                     /\ role'[a] = role[a] /\ owner'[a] = owner[a]
    BY <2>a, <2>c DEF Starts
  <2>g. /\ \A a, u, r : StartsFor(a, u, r) /\ a # c => StartsFor(a, u, r)'
        /\ \A x : NoPredecessor(x) => NoPredecessor(x)'
    BY <2>a, <2>e, <2>f DEF StartsFor, NoPredecessor

  <2>1. Control'
    BY <1>19, TaskAssumption DEF FreeExtent, Goto, device, history, Control, None
  <2>2. Bitmaps'
    BY <1>19, TaskAssumption DEF FreeExtent, Goto, device, history, Bitmaps, Live, None
  <2>3. Allocation'
    <3>1. \A a \in Footprint(cur[t]) : role[a] = "old"
      BY <2>c
    <3> QED BY <1>19, <3>1, AllocationKept DEF FreeExtent, Goto, device, history
  <2>4. Extents1'
    <3> SUFFICES ASSUME NEW a \in Addr, Starts(a), a # c
                 PROVE  /\ InOneGroup(a, BlocksFor(HeaderSize + header[a].size))
                        /\ \A b \in Footprint(a) :
                             /\ role'[b] = role'[a] /\ owner'[b] = owner'[a]
                             /\ b # a => header[b].size = 0
      <4>1. \A a : Footprint(a)' = Footprint(a)
        BY <2>a DEF Footprint, RunFrom, BlocksFor
      <4>2. \A a, n : InOneGroup(a, n)' = InOneGroup(a, n)
        BY DEF InOneGroup, LastOf, GroupOf
      <4>3. \A a : BlocksFor(HeaderSize + header[a].size)'
                     = BlocksFor(HeaderSize + header[a].size)
        BY <2>a DEF BlocksFor
      <4> HIDE DEF TypeInv, TypeOK, Ownership
      <4> QED BY <2>a, <2>e, <4>1, <4>2, <4>3 DEF Extents1
    <3>1. /\ InOneGroup(a, BlocksFor(HeaderSize + header[a].size))
          /\ \A b \in Footprint(a) :
               /\ role[b] = role[a] /\ owner[b] = owner[a]
               /\ b # a => header[b].size = 0
      BY DEF Extents1
    <3>2. Footprint(a) \subseteq Addr
      BY <3>1, FootprintType
    <3>3. a \notin Footprint(c) /\ c \notin Footprint(a)
      BY <2>b, <2>f, <3>1 DEF StartsFor, Starts
    <3>4. Footprint(a) \cap Footprint(c) = {}
      BY <2>b, <3>3, RunsApart, FootprintInt DEF Footprint
    <3> QED BY <2>a, <2>f, <3>1, <3>2, <3>4
  <2>5. Extents2'
    <3> SUFFICES ASSUME NEW a \in Addr, Starts(a), a # c, header[a].next # None
                 PROVE  StartsFor(header[a].next, owner[a], role[a])'
      BY <2>a, <2>e DEF Extents2
    <3>1. StartsFor(header[a].next, owner[a], role[a])
      BY DEF Extents2
    <3>2. header[a].next # c
      BY <2>b DEF NoPredecessor
    <3> QED BY <3>1, <3>2, <2>a, <2>f, <2>g
  <2>6. Extents3'
    BY <2>a, <2>e DEF Extents3
  <2>7. Heads'
    <3>1. header[c].next # None =>
             /\ StartsFor(header[c].next, t, "old")'
             /\ NoPredecessor(header[c].next)'
      <4> SUFFICES ASSUME header[c].next # None
                   PROVE  /\ StartsFor(header[c].next, t, "old")'
                          /\ NoPredecessor(header[c].next)'
        OBVIOUS
      <4>1. StartsFor(header[c].next, t, "old")
        BY <2>b DEF Extents2, StartsFor
      <4>2. header[c].next # c
        BY <2>b DEF NoPredecessor, StartsFor
      <4>3. \A a \in Addr : Starts(a) /\ a # c => header[a].next # header[c].next
        BY <2>b DEF Extents3, StartsFor
      <4> QED BY <4>1, <4>2, <4>3, <2>a, <2>e, <2>g DEF NoPredecessor
    <3>2. \A u \in Tasks : \A r : u # t \/ r # "old" =>
            \A x : StartsFor(x, u, r) => StartsFor(x, u, r)'
      BY <2>b, <2>g DEF StartsFor
    <3> SUFFICES ASSUME NEW u \in Tasks PROVE HeadsOf(u)'
      BY DEF Heads
    <3>3. CASE u = t
      <4>1. /\ cur'[t] = header[c].next /\ Intact(t)' = Intact(t)
            /\ pc[t] # "write" /\ pc[t] # "free"
        BY <2>a DEF Intact
      <4> QED BY <2>a, <2>g, <3>1, <3>2, <3>3, <4>1 DEF Heads, HeadsOf
    <3>4. CASE u # t
      <4>1. cur'[u] = cur[u]
        BY <2>a, <3>4
      <4>2. Intact(u)' = Intact(u)
        BY <2>a DEF Intact
      <4> QED BY <4>1, <4>2, <2>a, <2>g, <3>2, <3>4 DEF Heads, HeadsOf
    <3> QED BY <3>3, <3>4
  <2>8. Walk'
    <3>1. \A u \in Tasks : \A x : StartsFor(x, u, "file") => StartsFor(x, u, "file")'
      BY <2>b, <2>g DEF StartsFor
    <3>2. \A u \in Tasks : pc[u] # "freeing" => cur'[u] = cur[u]
      BY <2>a
    <3> QED BY <2>a, <3>1, <3>2 DEF Walk
  <2> QED BY <2>1, <2>2, <2>3, <2>4, <2>5, <2>6, <2>7, <2>8
<1>20. ASSUME NEW t \in Tasks, FreeDone(t) PROVE Ownership'
  <2>1. Control'
    BY <1>20, TaskAssumption DEF FreeDone, Return, Goto, device, history, Control, None
  <2>2. Bitmaps'
    BY <1>20, TaskAssumption DEF FreeDone, Return, Goto, device, history, Bitmaps, Live, None
  <2>3. Allocation'
    BY <1>20, AllocationKept DEF FreeDone, Return, Goto, device, history
  <2>4. Extents1'
    BY <1>20, TaskAssumption DEF FreeDone, Return, Goto, device, history, Extents1, Starts, Live, Footprint, None
  <2>5. Extents2'
    BY <1>20, TaskAssumption DEF FreeDone, Return, Goto, device, history, Extents2, StartsFor, Starts, Live, None
  <2>6. Extents3'
    BY <1>20, TaskAssumption DEF FreeDone, Return, Goto, device, history, Extents3, Starts, Live, None
  <2>7. Heads'
    BY <1>20, TaskAssumption DEF FreeDone, Return, Goto, device, history, Heads, HeadsOf, StartsFor, Starts, Live, NoPredecessor, Intact, None
  <2>8. Walk'
    BY <1>20, TaskAssumption DEF FreeDone, Return, Goto, device, history, Walk, StartsFor, Starts, Live, None
  <2> QED BY <2>1, <2>2, <2>3, <2>4, <2>5, <2>6, <2>7, <2>8
<1>21. ASSUME NEW t \in Tasks, ClearInode(t) PROVE Ownership'
  <2>1. Control'
    BY <1>21, TaskAssumption DEF ClearInode, Return, Goto, device, history, Control, None
  <2>2. Bitmaps'
    BY <1>21, TaskAssumption DEF ClearInode, Return, Goto, device, history, Bitmaps, Live, None
  <2>3. Allocation'
    BY <1>21, AllocationKept DEF ClearInode, Return, Goto, device, history
  <2>4. Extents1'
    BY <1>21, TaskAssumption DEF ClearInode, Return, Goto, device, history, Extents1, Starts, Live, Footprint, None
  <2>5. Extents2'
    BY <1>21, TaskAssumption DEF ClearInode, Return, Goto, device, history, Extents2, StartsFor, Starts, Live, None
  <2>6. Extents3'
    BY <1>21, TaskAssumption DEF ClearInode, Return, Goto, device, history, Extents3, Starts, Live, None
  <2>7. Heads'
    BY <1>21, TaskAssumption DEF ClearInode, Return, Goto, device, history, Heads, HeadsOf, StartsFor, Starts, Live, NoPredecessor, Intact, None
  <2>8. Walk'
    BY <1>21, TaskAssumption DEF ClearInode, Return, Goto, device, history, Walk, StartsFor, Starts, Live, None
  <2> QED BY <2>1, <2>2, <2>3, <2>4, <2>5, <2>6, <2>7, <2>8
<1> QED BY <1>01, <1>02, <1>1, <1>2, <1>3, <1>4, <1>5, <1>6, <1>7, <1>8, <1>9, <1>10, <1>11, <1>12, <1>13, <1>14, <1>15, <1>16, <1>17, <1>18, <1>19, <1>20, <1>21
  DEF Next, Crash, Cancel, Begin, Acquire, Proceed

-----------------------------------------------------------------------------

-----------------------------------------------------------------------------
LEMMA Invariants == Spec => [](TypeInv /\ Ownership)
PROOF
<1>1. Init => TypeInv /\ Ownership
  BY InitType, InitOwnership
<1>2. TypeInv /\ Ownership /\ [Next]_vars => (TypeInv /\ Ownership)'
  BY StepType, StepOwnership
<1> QED BY <1>1, <1>2, PTL DEF Spec

(* The invariant holds.  Every block is held by at most one task for one   *)
(* purpose, the bitmaps mark exactly the blocks that are held, and every   *)
(* chain is made of extents of its own file: in every state, for every     *)
(* interleaving, every size and every point at which the process may die or *)
(* one request be cancelled.                                               *)
THEOREM OwnershipInvariant == Spec => []Ownership
BY Invariants, PTL

(* A block planned from bitmaps read before is still free when its bitmap  *)
(* is committed: alloc_guard makes allocate safe for any number of callers. *)
THEOREM AllocationIsExclusive == Spec => NoDoubleAllocation
PROOF
<1>1. TypeInv /\ Ownership /\ [Next]_vars => [MarksOnlyFree]_vars
  <2> SUFFICES ASSUME TypeInv, Ownership, Next PROVE MarksOnlyFree
    OBVIOUS
  <2> USE DEF TypeInv, TypeOK, Ownership, MarksOnlyFree
  <2>0. ASSUME NEW S \in SUBSET Tasks, Stop(S) PROVE MarksOnlyFree
    BY <2>0 DEF Stop, device
  <2>1. ASSUME NEW t \in Tasks, StartWrite(t) PROVE MarksOnlyFree
    BY <2>1 DEF StartWrite, device, history, Turn
  <2>2. ASSUME NEW t \in Tasks, StartRewrite(t) PROVE MarksOnlyFree
    BY <2>2 DEF StartRewrite, device, history, Turn
  <2>3. ASSUME NEW t \in Tasks, StartAppend(t) PROVE MarksOnlyFree
    BY <2>3 DEF StartAppend, device, history, Turn
  <2>4. ASSUME NEW t \in Tasks, StartDelete(t) PROVE MarksOnlyFree
    BY <2>4 DEF StartDelete, device, history, Turn
  <2>5. ASSUME NEW t \in Tasks, WalkExtent(t) PROVE MarksOnlyFree
    BY <2>5 DEF WalkExtent, device, history, Turn
  <2>6. ASSUME NEW t \in Tasks, WalkDone(t) PROVE MarksOnlyFree
    BY <2>6 DEF WalkDone, device, history, Turn
  <2>7. ASSUME NEW t \in Tasks, PlanContiguous(t) PROVE MarksOnlyFree
    BY <2>7 DEF PlanContiguous, Reserve, device, history, Turn
  <2>8. ASSUME NEW t \in Tasks, PlanFragments(t) PROVE MarksOnlyFree
    BY <2>8 DEF PlanFragments, Reserve, device, history, Turn
  <2>9. ASSUME NEW t \in Tasks, PlanInsufficient(t) PROVE MarksOnlyFree
    BY <2>9 DEF PlanInsufficient, device, history, Turn
  <2>10. ASSUME NEW t \in Tasks, PlanNothing(t) PROVE MarksOnlyFree
    BY <2>10 DEF PlanNothing, device, history, Turn
  <2>11. ASSUME NEW t \in Tasks, CommitBitmap(t) PROVE MarksOnlyFree
    <3>1. PICK g \in todo[t] :
            /\ role' = [a \in Addr |-> IF a \in PlannedIn(t, g) THEN "plan"
                                       ELSE role[a]]
            /\ owner' = [a \in Addr |-> IF a \in PlannedIn(t, g) THEN t
                                        ELSE owner[a]]
      BY <2>11 DEF CommitBitmap
    <3>2. \A a \in PlannedIn(t, g) : role[a] = "free"
      BY <3>1, PlannedBlocks DEF PlannedIn, Allocation
    <3> QED BY <3>1, <3>2 DEF Bitmaps
  <2>12. ASSUME NEW t \in Tasks, Layout(t) PROVE MarksOnlyFree
    BY <2>12 DEF Layout, device, history, Turn
  <2>13. ASSUME NEW t \in Tasks, LayoutMismatch(t) PROVE MarksOnlyFree
    BY <2>13 DEF LayoutMismatch, device, history, Turn
  <2>14. ASSUME NEW t \in Tasks, WriteExtent(t) PROVE MarksOnlyFree
    BY <2>14 DEF WriteExtent, device, history, Turn
  <2>15. ASSUME NEW t \in Tasks, LinkAppend(t) PROVE MarksOnlyFree
    BY <2>15 DEF LinkAppend, device, history, Turn
  <2>16. ASSUME NEW t \in Tasks, RegisterAppend(t) PROVE MarksOnlyFree
    BY <2>16 DEF RegisterAppend, device, history, Turn
  <2>17. ASSUME NEW t \in Tasks, RegisterWrite(t) PROVE MarksOnlyFree
    BY <2>17 DEF RegisterWrite, device, history, Turn
  <2>18. ASSUME NEW t \in Tasks, FreeStart(t) PROVE MarksOnlyFree
    BY <2>18 DEF FreeStart, device, history, Turn
  <2>19. ASSUME NEW t \in Tasks, FreeExtent(t) PROVE MarksOnlyFree
    BY <2>19 DEF FreeExtent, device, history, Turn
  <2>20. ASSUME NEW t \in Tasks, FreeDone(t) PROVE MarksOnlyFree
    BY <2>20 DEF FreeDone, device, history, Turn
  <2>21. ASSUME NEW t \in Tasks, ClearInode(t) PROVE MarksOnlyFree
    BY <2>21 DEF ClearInode, device, history, Turn
  <2> QED BY <2>0, <2>1, <2>2, <2>3, <2>4, <2>5, <2>6, <2>7, <2>8, <2>9, <2>10, <2>11, <2>12, <2>13, <2>14, <2>15, <2>16, <2>17, <2>18, <2>19, <2>20, <2>21
    DEF Next, Crash, Cancel, Begin, Acquire, Proceed
<1> QED BY <1>1, Invariants, PTL DEF Spec, NoDoubleAllocation

(* What free_full_extent marks reusable belongs to a chain that its task   *)
(* has replaced or is deleting: no live file, of any task, loses a block.  *)
THEOREM OnlyOldBlocksAreFreed == Spec => FreesOldOnly
PROOF
<1>1. TypeInv /\ Ownership /\ [Next]_vars => [FreesOnlyOld]_vars
  <2> SUFFICES ASSUME TypeInv, Ownership, Next PROVE FreesOnlyOld
    OBVIOUS
  <2> USE DEF TypeInv, TypeOK, Ownership, FreesOnlyOld
  <2>0. ASSUME NEW S \in SUBSET Tasks, Stop(S) PROVE FreesOnlyOld
    BY <2>0 DEF Stop, device
  <2>1. ASSUME NEW t \in Tasks, StartWrite(t) PROVE FreesOnlyOld
    BY <2>1 DEF StartWrite, device, history
  <2>2. ASSUME NEW t \in Tasks, StartRewrite(t) PROVE FreesOnlyOld
    BY <2>2 DEF StartRewrite, device, history
  <2>3. ASSUME NEW t \in Tasks, StartAppend(t) PROVE FreesOnlyOld
    BY <2>3 DEF StartAppend, device, history
  <2>4. ASSUME NEW t \in Tasks, StartDelete(t) PROVE FreesOnlyOld
    BY <2>4 DEF StartDelete, device, history
  <2>5. ASSUME NEW t \in Tasks, WalkExtent(t) PROVE FreesOnlyOld
    BY <2>5 DEF WalkExtent, device, history
  <2>6. ASSUME NEW t \in Tasks, WalkDone(t) PROVE FreesOnlyOld
    BY <2>6 DEF WalkDone, device, history
  <2>7. ASSUME NEW t \in Tasks, PlanContiguous(t) PROVE FreesOnlyOld
    BY <2>7 DEF PlanContiguous, Reserve, device, history
  <2>8. ASSUME NEW t \in Tasks, PlanFragments(t) PROVE FreesOnlyOld
    BY <2>8 DEF PlanFragments, Reserve, device, history
  <2>9. ASSUME NEW t \in Tasks, PlanInsufficient(t) PROVE FreesOnlyOld
    BY <2>9 DEF PlanInsufficient, device, history
  <2>10. ASSUME NEW t \in Tasks, PlanNothing(t) PROVE FreesOnlyOld
    BY <2>10 DEF PlanNothing, device, history
  <2>11. ASSUME NEW t \in Tasks, CommitBitmap(t) PROVE FreesOnlyOld
    BY <2>11 DEF CommitBitmap, device, history
  <2>12. ASSUME NEW t \in Tasks, Layout(t) PROVE FreesOnlyOld
    BY <2>12 DEF Layout, device, history
  <2>13. ASSUME NEW t \in Tasks, LayoutMismatch(t) PROVE FreesOnlyOld
    BY <2>13 DEF LayoutMismatch, device, history
  <2>14. ASSUME NEW t \in Tasks, WriteExtent(t) PROVE FreesOnlyOld
    BY <2>14 DEF WriteExtent, device, history
  <2>15. ASSUME NEW t \in Tasks, LinkAppend(t) PROVE FreesOnlyOld
    BY <2>15 DEF LinkAppend, device, history
  <2>16. ASSUME NEW t \in Tasks, RegisterAppend(t) PROVE FreesOnlyOld
    BY <2>16 DEF RegisterAppend, device, history
  <2>17. ASSUME NEW t \in Tasks, RegisterWrite(t) PROVE FreesOnlyOld
    BY <2>17 DEF RegisterWrite, device, history
  <2>18. ASSUME NEW t \in Tasks, FreeStart(t) PROVE FreesOnlyOld
    BY <2>18 DEF FreeStart, device, history
  <2>19. ASSUME NEW t \in Tasks, FreeExtent(t) PROVE FreesOnlyOld
    <3> PICK c : c = cur[t]
      OBVIOUS
    <3>1. used' = used \ Footprint(c) /\ pc[t] = "freeing" /\ c # None
      BY <2>19 DEF FreeExtent
    <3>2. StartsFor(c, t, "old")
      BY <3>1 DEF Heads, HeadsOf
    <3>3. \A b \in Footprint(c) : role[b] = "old" /\ owner[b] = t
      BY <3>2 DEF StartsFor, Starts, Extents1
    <3>4. guard = t
      BY <3>1 DEF Control
    <3> QED BY <3>1, <3>3, <3>4
  <2>20. ASSUME NEW t \in Tasks, FreeDone(t) PROVE FreesOnlyOld
    BY <2>20 DEF FreeDone, device, history
  <2>21. ASSUME NEW t \in Tasks, ClearInode(t) PROVE FreesOnlyOld
    BY <2>21 DEF ClearInode, device, history
  <2> QED BY <2>0, <2>1, <2>2, <2>3, <2>4, <2>5, <2>6, <2>7, <2>8, <2>9, <2>10, <2>11, <2>12, <2>13, <2>14, <2>15, <2>16, <2>17, <2>18, <2>19, <2>20, <2>21
    DEF Next, Crash, Cancel, Begin, Acquire, Proceed
<1> QED BY <1>1, Invariants, PTL DEF Spec, FreesOldOnly

(* What an operation writes into the data regions is a block allocated to  *)
(* it and not yet reachable, or the next pointer that ends its own chain.  *)
THEOREM OnlyOwnBlocksAreWritten == Spec => WritesOwnOnly
PROOF
<1>1. TypeInv /\ Ownership /\ [Next]_vars => [WritesOnlyOwn]_vars
  <2> SUFFICES ASSUME TypeInv, Ownership, Next PROVE WritesOnlyOwn
    OBVIOUS
  <2> USE DEF TypeInv, TypeOK, Ownership, WritesOnlyOwn
  <2>0. ASSUME NEW S \in SUBSET Tasks, Stop(S) PROVE WritesOnlyOwn
    BY <2>0 DEF Stop, device
  <2>1. ASSUME NEW t \in Tasks, StartWrite(t) PROVE WritesOnlyOwn
    BY <2>1 DEF StartWrite, device, history
  <2>2. ASSUME NEW t \in Tasks, StartRewrite(t) PROVE WritesOnlyOwn
    BY <2>2 DEF StartRewrite, device, history
  <2>3. ASSUME NEW t \in Tasks, StartAppend(t) PROVE WritesOnlyOwn
    BY <2>3 DEF StartAppend, device, history
  <2>4. ASSUME NEW t \in Tasks, StartDelete(t) PROVE WritesOnlyOwn
    BY <2>4 DEF StartDelete, device, history
  <2>5. ASSUME NEW t \in Tasks, WalkExtent(t) PROVE WritesOnlyOwn
    BY <2>5 DEF WalkExtent, device, history
  <2>6. ASSUME NEW t \in Tasks, WalkDone(t) PROVE WritesOnlyOwn
    BY <2>6 DEF WalkDone, device, history
  <2>7. ASSUME NEW t \in Tasks, PlanContiguous(t) PROVE WritesOnlyOwn
    BY <2>7 DEF PlanContiguous, Reserve, device, history
  <2>8. ASSUME NEW t \in Tasks, PlanFragments(t) PROVE WritesOnlyOwn
    BY <2>8 DEF PlanFragments, Reserve, device, history
  <2>9. ASSUME NEW t \in Tasks, PlanInsufficient(t) PROVE WritesOnlyOwn
    BY <2>9 DEF PlanInsufficient, device, history
  <2>10. ASSUME NEW t \in Tasks, PlanNothing(t) PROVE WritesOnlyOwn
    BY <2>10 DEF PlanNothing, device, history
  <2>11. ASSUME NEW t \in Tasks, CommitBitmap(t) PROVE WritesOnlyOwn
    BY <2>11 DEF CommitBitmap, device, history
  <2>12. ASSUME NEW t \in Tasks, Layout(t) PROVE WritesOnlyOwn
    BY <2>12 DEF Layout, device, history
  <2>13. ASSUME NEW t \in Tasks, LayoutMismatch(t) PROVE WritesOnlyOwn
    BY <2>13 DEF LayoutMismatch, device, history
  <2>14. ASSUME NEW t \in Tasks, WriteExtent(t) PROVE WritesOnlyOwn
    <3>1. PICK s \in plan[t] : \A a \in Addr :
            header'[a] # header[a] => a = s.addr \/ a \in BlocksOf(s)
      BY <2>14 DEF WriteExtent, HighestSlot
    <3>2. s.addr \in BlocksOf(s)
      BY BlocksOfSlot DEF SlotsInGroup, SerialSlot
    <3>3. \A a \in BlocksOf(s) : role[a] = "plan" /\ owner[a] = t
      BY DEF Allocation
    <3>4. pc[t] = "write"
      BY <2>14 DEF WriteExtent
    <3> QED BY <3>1, <3>2, <3>3, <3>4
  <2>15. ASSUME NEW t \in Tasks, LinkAppend(t) PROVE WritesOnlyOwn
    <3>1. /\ pc[t] = "write" /\ op[t] = "append" /\ last[t] # None
          /\ header' = [header EXCEPT ![last[t]].next = link[t]]
      BY <2>15 DEF LinkAppend, Written, Tail
    <3>2. /\ StartsFor(last[t], t, "file") /\ header[last[t]].next = None
          /\ last[t] \in Addr
      BY <3>1 DEF Walk, StartsFor, Starts
    <3>3. \A a \in Addr : a # last[t] => header'[a] = header[a]
      BY <3>1, <3>2
    <3>4. header'[last[t]] = [header[last[t]] EXCEPT !.next = link[t]]
      BY <3>1, <3>2
    <3> QED BY <3>1, <3>2, <3>3, <3>4 DEF StartsFor
  <2>16. ASSUME NEW t \in Tasks, RegisterAppend(t) PROVE WritesOnlyOwn
    BY <2>16 DEF RegisterAppend, device, history
  <2>17. ASSUME NEW t \in Tasks, RegisterWrite(t) PROVE WritesOnlyOwn
    BY <2>17 DEF RegisterWrite, device, history
  <2>18. ASSUME NEW t \in Tasks, FreeStart(t) PROVE WritesOnlyOwn
    BY <2>18 DEF FreeStart, device, history
  <2>19. ASSUME NEW t \in Tasks, FreeExtent(t) PROVE WritesOnlyOwn
    BY <2>19 DEF FreeExtent, device, history
  <2>20. ASSUME NEW t \in Tasks, FreeDone(t) PROVE WritesOnlyOwn
    BY <2>20 DEF FreeDone, device, history
  <2>21. ASSUME NEW t \in Tasks, ClearInode(t) PROVE WritesOnlyOwn
    BY <2>21 DEF ClearInode, device, history
  <2> QED BY <2>0, <2>1, <2>2, <2>3, <2>4, <2>5, <2>6, <2>7, <2>8, <2>9, <2>10, <2>11, <2>12, <2>13, <2>14, <2>15, <2>16, <2>17, <2>18, <2>19, <2>20, <2>21
    DEF Next, Crash, Cancel, Begin, Acquire, Proceed
<1> QED BY <1>1, Invariants, PTL DEF Spec, WritesOwnOnly

-----------------------------------------------------------------------------
(* Sums of the sizes of extents. *)

(* The bytes of the extents in S, as ChainBytes sums them. *)
SizeSum(h, S) == MapThenSumSet(LAMBDA x : h[x].size, S)

(* The element a fold takes first. *)
PickOf(s) == CHOOSE x \in s : TRUE
(* g folds every set of D. *)
IsFold(g, h, D) ==
  g = [s \in D |-> IF s = {} THEN 0
                   ELSE h[PickOf(s)].size + g[s \ {PickOf(s)}]]

(* The subsets of S with at most n elements. *)
UpTo(S, n) == {s \in SUBSET S : Cardinality(s) <= n}

(* The recursion of a fold over a finite set has a solution, by induction  *)
(* on the cardinality of the sets it is defined on.                        *)
LEMMA FoldExists ==
  ASSUME NEW h, NEW S, IsFiniteSet(S)
  PROVE  \E g : IsFold(g, h, SUBSET S)
PROOF
<1> DEFINE N == {n \in Nat : \E g : IsFold(g, h, UpTo(S, n))}
<1>0. \A s \in SUBSET S : /\ IsFiniteSet(s) /\ Cardinality(s) \in Nat
                          /\ Cardinality(s) <= Cardinality(S)
                          /\ Cardinality(s) = 0 <=> s = {}
  BY FS_Subset, FS_CardinalityType, FS_EmptySet
<1>1. 0 \in N
  <2>1. UpTo(S, 0) = {{}}
    BY <1>0 DEF UpTo
  <2> DEFINE g == [s \in UpTo(S, 0) |-> 0]
  <2>2. IsFold(g, h, UpTo(S, 0))
    BY <2>1 DEF IsFold
  <2> QED BY <2>2
<1>2. ASSUME NEW n \in Nat, n \in N PROVE n + 1 \in N
  <2>1. PICK g : IsFold(g, h, UpTo(S, n))
    BY <1>2
  <2> DEFINE f == [s \in UpTo(S, n + 1) |->
                     IF s = {} THEN 0
                     ELSE h[PickOf(s)].size + g[s \ {PickOf(s)}]]
             e == [s \in UpTo(S, n + 1) |->
                     IF s = {} THEN 0
                     ELSE h[PickOf(s)].size + f[s \ {PickOf(s)}]]
  <2>2. \A s \in UpTo(S, n + 1) : s # {} => s \ {PickOf(s)} \in UpTo(S, n)
    BY <1>0, FS_RemoveElement DEF UpTo, PickOf
  <2>3. UpTo(S, n) \subseteq UpTo(S, n + 1)
    BY <1>0 DEF UpTo
  <2>4. \A s \in UpTo(S, n) : f[s] = g[s]
    BY <2>1, <2>3 DEF IsFold
  <2>5. \A s \in UpTo(S, n + 1) : f[s] = e[s]
    BY <2>2, <2>3, <2>4
  <2>6. f = e
    <3> HIDE DEF UpTo
    <3> QED BY <2>5
  <2> HIDE DEF f
  <2>7. IsFold(f, h, UpTo(S, n + 1))
    BY <2>6 DEF IsFold
  <2> QED BY <2>7
<1> HIDE DEF N
<1>3. Cardinality(S) \in N
  BY <1>0, <1>1, <1>2, SetInduction
<1>4. UpTo(S, Cardinality(S)) = SUBSET S
  BY <1>0 DEF UpTo
<1> QED BY <1>3, <1>4 DEF N

(* The extents in S are as long in h as in k. *)
SameSizes(h, k, S) == \A x \in S : h[x].size = k[x].size

(* Two folds agree where the sizes do, on whatever sets they are defined. *)
LEMMA FoldsAgree ==
  ASSUME NEW h, NEW k, NEW S, NEW T, NEW g, NEW f,
         IsFiniteSet(S), IsFold(g, h, SUBSET S), IsFold(f, k, SUBSET T),
         S \subseteq T, SameSizes(h, k, S)
  PROVE  g[S] = f[S]
PROOF
<1> DEFINE F == {s \in SUBSET S : g[s] = f[s]}
<1>1. g[{}] = 0 /\ f[{}] = 0
  BY DEF IsFold
<1>2. \A s \in SUBSET S : s # {} =>
        /\ g[s] = h[PickOf(s)].size + g[s \ {PickOf(s)}]
        /\ f[s] = k[PickOf(s)].size + f[s \ {PickOf(s)}]
        /\ PickOf(s) \in s
  BY DEF IsFold, PickOf
<1>3. {} \in F
  BY <1>1
<1>4. ASSUME NEW s \in SUBSET S, s # {}, \A x \in s : s \ {x} \in F
      PROVE  s \in F
  BY <1>2, <1>4 DEF SameSizes
<1> HIDE DEF F
<1>5. SUBSET S \subseteq F
  BY <1>3, <1>4, FiniteInduction
<1> QED BY <1>5 DEF F

(* SizeSum is a fold over the subsets of its set. *)
LEMMA SumIsFold ==
  ASSUME NEW h, NEW S, IsFiniteSet(S)
  PROVE  \E g : IsFold(g, h, SUBSET S) /\ SizeSum(h, S) = g[S]
PROOF
<1> DEFINE g == CHOOSE g : IsFold(g, h, SUBSET S)
<1>1. IsFold(g, h, SUBSET S)
  BY FoldExists
<1>2. SizeSum(h, S) = g[S]
  BY DEF SizeSum, MapThenSumSet, MapThenFoldSet, IsFold, PickOf
<1> QED BY <1>1, <1>2

(* The sum depends on the sizes in S and on nothing else of the headers. *)
LEMMA SumSame ==
  ASSUME NEW h, NEW k, NEW S, IsFiniteSet(S),
         \A x \in S : h[x].size = k[x].size
  PROVE  SizeSum(h, S) = SizeSum(k, S)
PROOF
<1>1. PICK g : IsFold(g, h, SUBSET S) /\ SizeSum(h, S) = g[S]
  BY SumIsFold
<1>2. PICK f : IsFold(f, k, SUBSET S) /\ SizeSum(k, S) = f[S]
  BY SumIsFold
<1>3. S \subseteq S
  OBVIOUS
<1>4. SameSizes(h, k, S)
  BY DEF SameSizes
<1>5. g[S] = f[S]
  BY <1>1, <1>2, <1>3, <1>4, FoldsAgree
<1> QED BY <1>1, <1>2, <1>5

(* The sum of nothing is 0, and one extent can be taken out first. *)
LEMMA SumPick ==
  ASSUME NEW h, NEW S, IsFiniteSet(S)
  PROVE  /\ SizeSum(h, {}) = 0
         /\ S # {}
              => SizeSum(h, S) = h[PickOf(S)].size + SizeSum(h,
                S \ {PickOf(S)})
PROOF
<1>1. SizeSum(h, {}) = 0
  <2>1. PICK g : IsFold(g, h, SUBSET {}) /\ SizeSum(h, {}) = g[{}]
    BY SumIsFold, FS_EmptySet
  <2> QED BY <2>1 DEF IsFold
<1>2. ASSUME S # {}
      PROVE SizeSum(h, S) = h[PickOf(S)].size + SizeSum(h, S \ {PickOf(S)})
  <2> DEFINE T == S \ {PickOf(S)}
  <2>1. IsFiniteSet(T)
    BY FS_RemoveElement
  <2>2. PICK g : IsFold(g, h, SUBSET S) /\ SizeSum(h, S) = g[S]
    BY SumIsFold
  <2>3. PICK f : IsFold(f, h, SUBSET T) /\ SizeSum(h, T) = f[T]
    BY <2>1, SumIsFold
  <2>4. g[S] = h[PickOf(S)].size + g[T]
    BY <1>2, <2>2 DEF IsFold
  <2>5. T \subseteq S
    OBVIOUS
  <2> HIDE DEF T
  <2>5a. SameSizes(h, h, T)
    BY DEF SameSizes
  <2>6. f[T] = g[T]
    BY <2>1, <2>2, <2>3, <2>5, <2>5a, FoldsAgree
  <2> QED BY <2>2, <2>3, <2>4, <2>6 DEF T
<1> QED BY <1>1, <1>2

(* Any extent can be taken out first, not only the one the fold picks. *)
LEMMA SumRemove ==
  ASSUME NEW h, NEW U, IsFiniteSet(U), \A x \in U : h[x].size \in Nat
  PROVE  \A S \in SUBSET U :
           /\ SizeSum(h, S) \in Nat
           /\ \A x \in S : SizeSum(h, S) = h[x].size + SizeSum(h, S \ {x})
PROOF
<1> DEFINE P(S) == /\ SizeSum(h, S) \in Nat
                   /\ \A x \in S : SizeSum(h, S) = h[x].size + SizeSum(h,
                        S \ {x})
           F == {S \in SUBSET U : P(S) /\ \A x \in S : P(S \ {x})}
<1>0. \A s \in SUBSET U : IsFiniteSet(s)
  BY FS_Subset
<1>1. {} \in F
  <2>1. SizeSum(h, {}) = 0
    BY SumPick, FS_EmptySet
  <2> QED BY <2>1
<1>2. ASSUME NEW S \in SUBSET U, S # {}, \A x \in S : S \ {x} \in F
      PROVE  S \in F
  <2> DEFINE p == PickOf(S)
  <2>1. p \in S /\ IsFiniteSet(S)
    BY <1>0, <1>2 DEF PickOf
  <2>3. SizeSum(h, S) = h[p].size + SizeSum(h, S \ {p})
    BY <1>2, <2>1, SumPick
  <2>4. \A x \in S : /\ P(S \ {x}) /\ h[x].size \in Nat
                     /\ \A y \in S \ {x} : P((S \ {x}) \ {y})
    BY <1>2
  <2> HIDE DEF p, P
  <2>5. SizeSum(h, S) \in Nat
    BY <2>1, <2>3, <2>4 DEF P
  <2>6. ASSUME NEW x \in S, x # p
        PROVE  SizeSum(h, S) = h[x].size + SizeSum(h, S \ {x})
    <3>1. x \in S \ {p} /\ p \in S \ {x} /\ (S \ {p}) \ {x} = (S \ {x}) \ {p}
      BY <2>1, <2>6
    <3> DEFINE rest == SizeSum(h, (S \ {x}) \ {p})
    <3>3. rest \in Nat
      BY <2>4, <3>1 DEF P
    <3>4. h[x].size \in Nat /\ h[p].size \in Nat
      BY <2>1, <2>4
    <3>5. SizeSum(h, S \ {p}) = h[x].size + rest
      <4>1. P(S \ {p})
        BY <2>1, <2>4
      <4>2. SizeSum(h, S \ {p}) = h[x].size + SizeSum(h, (S \ {p}) \ {x})
        BY <3>1, <4>1 DEF P
      <4> QED BY <3>1, <4>2
    <3>6. SizeSum(h, S \ {x}) = h[p].size + rest
      <4>1. P(S \ {x})
        BY <2>4
      <4> QED BY <3>1, <4>1 DEF P
    <3> HIDE DEF rest
    <3> QED BY <2>3, <3>3, <3>4, <3>5, <3>6
  <2>7. P(S)
    BY <2>3, <2>5, <2>6 DEF P
  <2> QED BY <2>4, <2>7
<1> HIDE DEF F
<1>3. SUBSET U \subseteq F
  BY <1>1, <1>2, FiniteInduction
<1> QED BY <1>3 DEF F

(* One extent more adds its size. *)
LEMMA SumAdd ==
  ASSUME NEW h, NEW S, IsFiniteSet(S), NEW x, x \notin S,
         \A y \in S \cup {x} : h[y].size \in Nat
  PROVE  /\ SizeSum(h, S) \in Nat
         /\ SizeSum(h, S \cup {x}) = SizeSum(h, S) + h[x].size
PROOF
<1> DEFINE U == S \cup {x}
<1>1. IsFiniteSet(U) /\ U \ {x} = S /\ x \in U /\ S \in SUBSET U
        /\ U \in SUBSET U
  BY FS_AddElement
<1>2. \A y \in U : h[y].size \in Nat
  OBVIOUS
<1> HIDE DEF U
<1>3. /\ SizeSum(h, S) \in Nat
      /\ SizeSum(h, U) = h[x].size + SizeSum(h, U \ {x})
  BY <1>1, <1>2, SumRemove
<1>4. h[x].size \in Nat
  BY <1>1, <1>2
<1>5. SizeSum(h, U) = h[x].size + SizeSum(h, S)
  BY <1>1, <1>3
<1>6. SizeSum(h, S) \in Nat /\ h[x].size \in Nat
  BY <1>3, <1>4
<1> QED BY <1>5, <1>6 DEF U

(* The sum of two chains joined is the sum of both. *)
LEMMA SumUnion ==
  ASSUME NEW h, NEW A, NEW B, IsFiniteSet(A), IsFiniteSet(B), A \cap B = {},
         \A y \in A \cup B : h[y].size \in Nat
  PROVE  /\ SizeSum(h, A) \in Nat /\ SizeSum(h, B) \in Nat
         /\ SizeSum(h, A \cup B) = SizeSum(h, A) + SizeSum(h, B)
PROOF
<1> DEFINE P(b) == SizeSum(h, A \cup b) = SizeSum(h, A) + SizeSum(h, b)
           F == {b \in SUBSET B : P(b)}
           U == A \cup B
<1>1. IsFiniteSet(U) /\ \A y \in U : h[y].size \in Nat
  BY FS_Union
<1>2. \A S \in SUBSET U :
        /\ SizeSum(h, S) \in Nat
        /\ \A x \in S : SizeSum(h, S) = h[x].size + SizeSum(h, S \ {x})
  BY <1>1, SumRemove
<1>3. A \subseteq U /\ B \subseteq U
  OBVIOUS
<1>4. SizeSum(h, {}) = 0 /\ A \cup {} = A
  BY SumPick, FS_EmptySet
<1> HIDE DEF U
<1>5. {} \in F
  BY <1>2, <1>3, <1>4
<1>6. ASSUME NEW b \in SUBSET B, b # {}, \A x \in b : b \ {x} \in F
      PROVE  b \in F
  <2>1. PICK x \in b : TRUE
    BY <1>6
  <2> DEFINE c == b \ {x}
  <2>3. P(c)
    BY <1>6, <2>1
  <2>4. (A \cup b) \ {x} = A \cup c /\ A \cup b \subseteq U
          /\ A \cup c \subseteq U
    BY <2>1, <1>3
  <2>5. SizeSum(h, A \cup b) = h[x].size + SizeSum(h, A \cup c)
    BY <1>2, <2>1, <2>4
  <2>6. SizeSum(h, b) = h[x].size + SizeSum(h, c)
    BY <1>2, <1>3, <2>1
  <2>7. /\ SizeSum(h, A) \in Nat /\ SizeSum(h, c) \in Nat /\ h[x].size \in Nat
        /\ b \subseteq U /\ c \subseteq U
    BY <1>1, <1>2, <1>3, <2>1
  <2> HIDE DEF c
  <2> QED BY <2>3, <2>5, <2>6, <2>7
<1> HIDE DEF F
<1>7. SUBSET B \subseteq F
  BY <1>5, <1>6, FiniteInduction
<1>8. P(B)
  BY <1>7 DEF F
<1> QED BY <1>2, <1>3, <1>8

-----------------------------------------------------------------------------
(* Links: what can be reached along them, and extents that follow one      *)
(* another.                                                                *)

(* Following next from h reaches all of X: a set closed under next that    *)
(* has h has all of X. It says so without counting steps.                  *)
Reaches(h, X, H) ==
  \A S \in SUBSET Addr :
    /\ h # None => h \in S
    /\ \A a \in S \cap X : H[a].next # None => H[a].next \in S
    => X \subseteq S

(* Each extent of X starts where its predecessor ends; the last ends at    *)
(* end.                                                                    *)
Adjacent(X, H, end) ==
  \A a \in X :
    H[a].from + H[a].size = IF H[a].next = None THEN end ELSE H[H[a].next].from

(* Nothing is reached from None. *)
LEMMA ReachesNone ==
  ASSUME NEW X, NEW H, Reaches(None, X, H)
  PROVE  X = {}
PROOF
<1>1. {} \in SUBSET Addr
        /\ \A a \in {} \cap X : H[a].next # None => H[a].next \in {}
  OBVIOUS
<1>2. X \subseteq {}
  BY <1>1 DEF Reaches
<1> QED BY <1>2

(* The empty chain is reached from anywhere. *)
LEMMA NoneReached ==
  ASSUME NEW H, NEW h
  PROVE  Reaches(h, {}, H)
BY DEF Reaches

(* Only the links of a chain matter. *)
LEMMA ReachesKept ==
  ASSUME NEW h, NEW X, NEW H, NEW K, Reaches(h, X, H),
         \A a \in X : K[a].next = H[a].next
  PROVE  Reaches(h, X, K)
BY DEF Reaches

(* An extent linked to the head of a chain is the new head. *)
LEMMA ReachesPrepend ==
  ASSUME NEW h, NEW X, NEW H, NEW K, NEW x \in Addr, Reaches(h, X, H),
         \A a \in X : K[a].next = H[a].next, K[x].next = h
  PROVE  Reaches(x, X \cup {x}, K)
PROOF
<1> SUFFICES ASSUME NEW S \in SUBSET Addr, x \in S,
                    \A a \in S \cap (X \cup {x}) :
                      K[a].next # None => K[a].next \in S
             PROVE  X \cup {x} \subseteq S
  BY DEF Reaches, None, Addr
<1>1. h # None => h \in S
  OBVIOUS
<1>2. X \subseteq S
  BY <1>1 DEF Reaches
<1> QED BY <1>2

(* A chain linked to the last extent of another prolongs it. *)
LEMMA ReachesJoin ==
  ASSUME NEW h, NEW F, NEW H, NEW N, NEW l, NEW K, NEW x \in F,
         Reaches(h, F, H), Reaches(l, N, H), x \notin N,
         \A a \in (F \cup N) \ {x} : K[a].next = H[a].next,
         H[x].next = None, K[x].next = l
  PROVE  Reaches(h, F \cup N, K)
PROOF
<1> SUFFICES ASSUME NEW S \in SUBSET Addr, h # None => h \in S,
                    \A a \in S \cap (F \cup N) :
                      K[a].next # None => K[a].next \in S
             PROVE  F \cup N \subseteq S
  BY DEF Reaches
<1>1. \A a \in S \cap F : H[a].next # None => H[a].next \in S
  OBVIOUS
<1>2. F \subseteq S
  BY <1>1 DEF Reaches
<1>3. l # None => l \in S
  BY <1>2
<1>4. \A a \in S \cap N : H[a].next # None => H[a].next \in S
  OBVIOUS
<1>5. N \subseteq S
  BY <1>3, <1>4 DEF Reaches
<1> QED BY <1>2, <1>5

(* Without its head a chain is reached from the second extent. *)
LEMMA ReachesTail ==
  ASSUME NEW X, NEW H, NEW x \in Addr, Reaches(x, X, H)
  PROVE  Reaches(H[x].next, X \ {x}, H)
PROOF
<1> SUFFICES ASSUME NEW S \in SUBSET Addr,
                    H[x].next # None => H[x].next \in S,
                    \A a \in S \cap (X \ {x}) :
                      H[a].next # None => H[a].next \in S
             PROVE  X \ {x} \subseteq S
  BY DEF Reaches
<1>1. \A a \in (S \cup {x}) \cap X :
        H[a].next # None => H[a].next \in S \cup {x}
  OBVIOUS
<1>2. S \cup {x} \in SUBSET Addr /\ x \in S \cup {x}
  OBVIOUS
<1>3. X \subseteq S \cup {x}
  BY <1>1, <1>2 DEF Reaches
<1> QED BY <1>3

(* A chain has one last extent: walking back from it reaches the head. *)
LEMMA OneTail ==
  ASSUME NEW h, NEW X \in SUBSET Addr, NEW H, Reaches(h, X, H),
         h \in Addr \cup {None},
         \A a \in X : H[a].next \in Addr \cup {None},
         NEW x \in X, NEW y \in X, H[x].next = None, H[y].next = None
  PROVE  x = y
PROOF
<1> DEFINE Back(T) ==
             x \in T /\ \A a \in X : H[a].next # None /\ H[a].next \in T => a \in T
           L == {z \in Addr : \A T \in SUBSET Addr : Back(T) => z \in T}
<1>1. x \in L
  OBVIOUS
<1>2. \A a \in X : H[a].next # None /\ H[a].next \in L => a \in L
  OBVIOUS
<1>3. \A a \in X : a # x /\ a \in L => H[a].next # None /\ H[a].next \in L
  <2> SUFFICES ASSUME NEW a \in X, a # x, a \in L,
                      ~(H[a].next # None /\ H[a].next \in L)
               PROVE  FALSE
    OBVIOUS
  <2>1. Back(L \ {a})
    BY <1>1, <1>2
  <2>2. L \ {a} \in SUBSET Addr
    OBVIOUS
  <2> QED BY <2>1, <2>2
<1> HIDE DEF L
<1>4. L \in SUBSET Addr
  BY DEF L
<1>5. CASE h # None => h \in L
  <2>1. \A a \in L \cap X : H[a].next # None => H[a].next \in L
    BY <1>3
  <2>2. X \subseteq L
    BY <1>4, <1>5, <2>1 DEF Reaches
  <2> QED BY <1>3, <2>2
<1>6. CASE ~(h # None => h \in L)
  <2> DEFINE S == Addr \ L
  <2>1. S \in SUBSET Addr /\ (h # None => h \in S)
    BY <1>6
  <2>2. \A a \in S \cap X : H[a].next # None => H[a].next \in S
    BY <1>2
  <2> HIDE DEF S
  <2>3. X \subseteq S
    BY <2>1, <2>2 DEF Reaches
  <2> QED BY <1>1, <2>3 DEF S
<1> QED BY <1>5, <1>6

-----------------------------------------------------------------------------
(* The invariant, task by task. *)

(* The extents of task t in role r. *)
Chain(t, r) == {a \in Addr : StartsFor(a, t, r)}
(* free_full_extent has an old chain left; at "free" of a deletion the     *)
(* chain is still the file's.                                              *)
Freeing(t) == pc[t] = "freeing" \/ (pc[t] = "free" /\ op[t] # "delete")

(* What the extent of a slot can hold beside its header. *)
Room(s) == s.count * BlockSize - HeaderSize
(* The offset at which the content of the new chain begins. *)
Base(t) == IF op[t] = "append" THEN size[t] ELSE 0
(* The offset at which what has been written of the new chain begins: the  *)
(* slots are written from the last to the first.                           *)
Limit(t) == IF link[t] = None THEN Base(t) + want[t] ELSE header[link[t]].from
(* What the chain holds: an append is linked before size is stored. *)
Total(t) == size[t] + (IF pc[t] = "register" THEN want[t] ELSE 0)

(* allocate returned exactly the blocks the bytes take, and the data of    *)
(* each slot needs all of its blocks.                                      *)
SizingOf(t) ==
  /\ pc[t] \in {"commit", "layout"} => Cardinality(Planned(t)) = Wanted(t)
  /\ \A s \in plan[t] : BlocksFor(HeaderSize + s.bytes) = s.count

(* The slots before s, and that s is the last. *)
Below(S, s) == {r \in S : r.addr < s.addr}
Topmost(S, s) == \A r \in S : r.addr <= s.addr
(* The slots left to write follow one another from Base to Limit, each     *)
(* full but the last, whose data end where the chain written so far        *)
(* begins.                                                                 *)
LaidOut(t) ==
  pc[t] = "write" =>
    /\ \A s \in plan[t] :
         /\ s.from = Base(t) + Payload(Below(plan[t], s))
         /\ IF Topmost(plan[t], s) THEN s.from + s.bytes = Limit(t)
                                   ELSE s.bytes = Room(s)
    /\ plan[t] = {} => Limit(t) = Base(t)

(* The chain from the inode, or from the link of the operation, is all of  *)
(* the task's extents in that role.                                        *)
Linked(t) ==
  /\ Intact(t) => Reaches(head[t], Chain(t, "file"), header)
  /\ pc[t] = "write" => Reaches(link[t], Chain(t, "new"), header)
  /\ Freeing(t) => Reaches(cur[t], Chain(t, "old"), header)

(* A chain has no gap or overlap, and that of a file starts at 0. *)
InOrder(t) ==
  /\ pc[t] = "write" =>
       Adjacent(Chain(t, "new"), header, Base(t) + want[t])
  /\ Intact(t) /\ t \notin overrun =>
       /\ Adjacent(Chain(t, "file"), header, Total(t))
       /\ head[t] # None => header[head[t]].from = 0

(* A chain has as many bytes as its operation or its inode says; a task    *)
(* that failed between the link and the inode may have more.               *)
Amounts(t) ==
  /\ pc[t] = "write" =>
       SizeSum(header, Chain(t, "new")) = Base(t) + want[t] - Limit(t)
  /\ Intact(t) => SizeSum(header, Chain(t, "file")) >= Total(t)
  /\ Intact(t) /\ t \notin overrun =>
       SizeSum(header, Chain(t, "file")) = Total(t)

(* What is said of one task. *)
Contents(t) == /\ SizingOf(t) /\ LaidOut(t) /\ Linked(t) /\ InOrder(t)
               /\ Amounts(t)

(* No block that is or becomes live of u's changes. *)
Untouched(u) ==
  \A a \in Addr :
    (Live(a) /\ owner[a] = u) \/ (Live(a)' /\ owner'[a] = u) =>
      role'[a] = role[a] /\ owner'[a] = owner[a] /\ header'[a] = header[a]

(* The step is not u's. *)
SameTask(u) ==
  /\ pc'[u] = pc[u] /\ op'[u] = op[u] /\ want'[u] = want[u]
  /\ slots'[u] = slots[u] /\ plan'[u] = plan[u] /\ link'[u] = link[u]
  /\ cur'[u] = cur[u] /\ head'[u] = head[u] /\ size'[u] = size[u]
  /\ u \in torn' <=> u \in torn
  /\ u \in overrun' <=> u \in overrun

(* Untouched blocks make the same chains. *)
LEMMA ChainSame ==
  ASSUME NEW u, Untouched(u), NEW r \in {"new", "file", "old"}
  PROVE  /\ Chain(u, r)' = Chain(u, r)
         /\ \A a \in Chain(u, r) : header'[a] = header[a]
BY DEF Untouched, Chain, StartsFor, Starts, Live

(* A chain is a finite set of addresses, and its headers are typed. *)
LEMMA ChainFinite ==
  ASSUME TypeInv, NEW u, NEW r
  PROVE  /\ IsFiniteSet(Chain(u, r)) /\ Chain(u, r) \in SUBSET Addr
         /\ \A a \in Chain(u, r) : /\ header[a].size \in Nat \ {0}
                                   /\ header[a].from \in Int
                                   /\ header[a].next \in Addr \cup {None}
PROOF
<1>1. IsFiniteSet(Addr)
  BY FS_Interval, GeometryAssumption DEF Addr
<1> QED BY <1>1, FS_Subset
           DEF Chain, StartsFor, Starts, TypeInv, TypeOK, Extent

(* What a chain has in order stays so while its headers do. *)
LEMMA AdjacentKept ==
  ASSUME NEW X, NEW H, NEW K, NEW end, Adjacent(X, H, end),
         \A a \in X : K[a] = H[a] /\ (H[a].next = None \/ H[a].next \in X)
  PROVE  Adjacent(X, K, end)
BY DEF Adjacent

(* No link leaves its chain. *)
LEMMA ChainClosed ==
  ASSUME Ownership, NEW u, NEW r, NEW a \in Chain(u, r)
  PROVE  header[a].next = None \/ header[a].next \in Chain(u, r)
BY DEF Ownership, Extents2, Chain, StartsFor, Starts

(* Where a chain is entered there is an extent of it. *)
LEMMA HeadsInChain ==
  ASSUME Ownership, NEW t \in Tasks
  PROVE  /\ Intact(t) /\ head[t] # None => head[t] \in Chain(t, "file")
         /\ pc[t] = "write" /\ link[t] # None => link[t] \in Chain(t, "new")
         /\ Freeing(t) /\ cur[t] # None => cur[t] \in Chain(t, "old")
BY DEF Ownership, Heads, HeadsOf, Chain, StartsFor, Starts, Freeing

(* What is said of a task holds after every step that is not its own and   *)
(* does not touch its blocks.                                              *)
LEMMA ContentsKept ==
  ASSUME TypeInv, Ownership, NEW u \in Tasks, Contents(u), Untouched(u),
         SameTask(u)
  PROVE  Contents(u)'
PROOF
<1> USE DEF SameTask
<1> DEFINE F == Chain(u, "file")
           N == Chain(u, "new")
           O == Chain(u, "old")
<1>1. F' = F /\ N' = N /\ O' = O
  BY ChainSame
<1>2. /\ \A a \in F : header'[a] = header[a]
      /\ \A a \in N : header'[a] = header[a]
      /\ \A a \in O : header'[a] = header[a]
  BY ChainSame
<1>3. /\ Intact(u)' <=> Intact(u)
      /\ Freeing(u)' <=> Freeing(u)
      /\ Base(u)' = Base(u) /\ Total(u)' = Total(u)
  BY DEF Intact, Freeing, Base, Total
<1>4. /\ Intact(u) /\ head[u] # None => head[u] \in F
      /\ pc[u] = "write" /\ link[u] # None => link[u] \in N
  BY HeadsInChain
<1>5. pc[u] = "write" => Limit(u)' = Limit(u)
  BY <1>2, <1>3, <1>4 DEF Limit
<1>6. /\ \A a \in F : header[a].next = None \/ header[a].next \in F
      /\ \A a \in N : header[a].next = None \/ header[a].next \in N
  BY ChainClosed
<1> HIDE DEF F, N, O
<1>7. SizingOf(u)'
  BY DEF Contents, SizingOf, Planned, Wanted
<1>8. LaidOut(u)'
  BY <1>3, <1>5 DEF Contents, LaidOut
<1>9. Linked(u)'
  BY <1>1, <1>2, <1>3, ReachesKept DEF Contents, Linked, F, N, O
<1>10. InOrder(u)'
  BY <1>1, <1>2, <1>3, <1>4, <1>6, AdjacentKept DEF Contents, InOrder, F, N, O
<1>11. Amounts(u)'
  <2>1. SizeSum(header', F) = SizeSum(header, F)
          /\ SizeSum(header', N) = SizeSum(header, N)
    BY <1>2, ChainFinite, SumSame DEF F, N
  <2> QED BY <1>1, <1>3, <1>5, <2>1 DEF Contents, Amounts, F, N
<1> QED BY <1>7, <1>8, <1>9, <1>10, <1>11 DEF Contents

-----------------------------------------------------------------------------
(* The invariant as a whole: no role outlives its stage, and all is        *)
(* covered.                                                                *)

(* Block a is in a slot of task t. *)
PlannedFor(a, t) == a \in Planned(t) \/ \E s \in plan[t] : a \in BlocksOf(s)

(* Each role is held only at the stages of an operation that need it. *)
Stage(a) ==
  /\ role[a] = "plan" => owner[a] \in Tasks /\ PlannedFor(a, owner[a])
  /\ role[a] = "new" => pc[owner[a]] = "write"
  /\ role[a] = "old" => Freeing(owner[a])
  /\ role[a] = "file" =>
       ~(op[owner[a]] = "delete" /\ pc[owner[a]] \in {"freeing", "clear"})
Stages == \A a \in Addr : Stage(a)

(* Every live block is of an extent. *)
Covered ==
  \A b \in Addr : Live(b) => \E a \in Addr : Starts(a) /\ b \in Footprint(a)

(* The invariant of the chains. *)
Chaining == Stages /\ Covered /\ \A t \in Tasks : Contents(t)

-----------------------------------------------------------------------------
(* Slots: how many blocks and bytes a set of them has. *)

(* Slots as allocate returns them: disjoint, each inside one group. *)
SlotSet(S) ==
  /\ Disjoint(S)
  /\ \A s \in S : /\ s.addr \in Addr /\ s.count \in 1 .. BlocksPerGroup
                  /\ InOneGroup(s.addr, s.count)

(* The blocks of the slots in S. *)
BlocksIn(S) == UNION {BlocksOf(s) : s \in S}
(* The first blocks of the slots in S. *)
AddrsIn(S) == {s.addr : s \in S}

(* The slots of a set are finitely many and known by their addresses. *)
LEMMA SlotBlocks ==
  ASSUME NEW S, SlotSet(S)
  PROVE  /\ BlocksIn(S) \subseteq Addr /\ AddrsIn(S) \subseteq BlocksIn(S)
         /\ IsFiniteSet(BlocksIn(S)) /\ IsFiniteSet(AddrsIn(S))
              /\ IsFiniteSet(S)
         /\ Cardinality(BlocksIn(S)) \in Nat /\ Cardinality(AddrsIn(S)) \in Nat
         /\ Cardinality(AddrsIn(S)) <= Cardinality(BlocksIn(S))
         /\ \A s, r \in S : s.addr = r.addr => s = r
PROOF
<1>1. \A s \in S : BlocksOf(s) \subseteq Addr /\ s.addr \in BlocksOf(s)
  BY BlocksOfSlot DEF SlotSet
<1>2. BlocksIn(S) \subseteq Addr /\ AddrsIn(S) \subseteq BlocksIn(S)
  BY <1>1 DEF BlocksIn, AddrsIn
<1>3. IsFiniteSet(Addr)
  BY FS_Interval, GeometryAssumption DEF Addr
<1>4. IsFiniteSet(BlocksIn(S))
  BY <1>2, <1>3, FS_Subset
<1>5. IsFiniteSet(AddrsIn(S))
        /\ Cardinality(AddrsIn(S)) <= Cardinality(BlocksIn(S))
  BY <1>2, <1>4, FS_Subset
<1>6. \A s, r \in S : s.addr = r.addr => s = r
  BY <1>1 DEF SlotSet, Disjoint
<1>7. IsFiniteSet(S)
  <2> DEFINE f == [s \in S |-> s.addr]
  <2>1. f \in Injection(S, Addr)
    BY <1>6 DEF Injection, IsInjective, SlotSet
  <2> QED BY <1>3, <2>1, FS_Injection
<1> QED BY <1>2, <1>4, <1>5, <1>6, <1>7, FS_CardinalityType

(* Some of the slots are slots. *)
LEMMA SlotSubset ==
  ASSUME NEW S, SlotSet(S), NEW T, T \subseteq S
  PROVE  SlotSet(T)
BY DEF SlotSet, Disjoint

(* Blocks and addresses of two parts of a set of slots add up. *)
LEMMA SlotSplit ==
  ASSUME NEW S, SlotSet(S), NEW T, T \subseteq S
  PROVE  /\ Cardinality(BlocksIn(S))
           = Cardinality(BlocksIn(T)) + Cardinality(BlocksIn(S \ T))
         /\ Cardinality(AddrsIn(S))
              = Cardinality(AddrsIn(T)) + Cardinality(AddrsIn(S \ T))
PROOF
<1>1. SlotSet(T) /\ SlotSet(S \ T)
  BY SlotSubset
<1>2. BlocksIn(S) = BlocksIn(T) \cup BlocksIn(S \ T)
        /\ BlocksIn(T) \cap BlocksIn(S \ T) = {}
  BY DEF BlocksIn, SlotSet, Disjoint
<1>3. AddrsIn(S) = AddrsIn(T) \cup AddrsIn(S \ T)
  BY DEF AddrsIn
<1>4. AddrsIn(T) \cap AddrsIn(S \ T) = {}
  BY <1>1, <1>2, SlotBlocks
<1>5. /\ IsFiniteSet(BlocksIn(T)) /\ IsFiniteSet(BlocksIn(S \ T))
      /\ IsFiniteSet(AddrsIn(T)) /\ IsFiniteSet(AddrsIn(S \ T))
  BY <1>1, SlotBlocks
<1>6. /\ Cardinality(BlocksIn(T)) \in Nat
        /\ Cardinality(BlocksIn(S \ T)) \in Nat
      /\ Cardinality(AddrsIn(T)) \in Nat /\ Cardinality(AddrsIn(S \ T)) \in Nat
  BY <1>1, SlotBlocks
<1>7. Cardinality({}) = 0
  BY FS_EmptySet
<1>8. Cardinality(BlocksIn(S))
        = Cardinality(BlocksIn(T)) + Cardinality(BlocksIn(S \ T)) - 0
  BY <1>2, <1>5, <1>7, FS_Union
<1>9. Cardinality(AddrsIn(S))
        = Cardinality(AddrsIn(T)) + Cardinality(AddrsIn(S \ T)) - 0
  BY <1>3, <1>4, <1>5, <1>7, FS_Union
<1> QED BY <1>6, <1>8, <1>9

(* One slot has its count of blocks, and one address. *)
LEMMA SlotSingle ==
  ASSUME NEW S, SlotSet(S), NEW s \in S
  PROVE  /\ Cardinality(BlocksIn({s})) = s.count
         /\ Cardinality(AddrsIn({s})) = 1
PROOF
<1>1. BlocksIn({s}) = s.addr .. (s.addr + s.count - 1)
        /\ AddrsIn({s}) = {s.addr}
  BY DEF BlocksIn, AddrsIn, BlocksOf, RunFrom
<1>2. s.addr \in Int /\ s.count \in Nat \ {0}
  BY GeometryAssumption DEF SlotSet, Addr
<1>3. Cardinality(s.addr .. (s.addr + s.count - 1)) = s.count
  <2> DEFINE b == s.addr + s.count - 1
  <2>1. b \in Int /\ ~(s.addr > b) /\ b - s.addr + 1 = s.count
    BY <1>2
  <2> HIDE DEF b
  <2>2. Cardinality(s.addr .. b) = s.count
    BY <1>2, <2>1, FS_Interval
  <2> QED BY <2>2 DEF b
<1>4. Cardinality({s.addr}) = 1
  BY FS_Singleton
<1> QED BY <1>1, <1>3, <1>4

(* No slot is longer than a group. *)
LEMMA SlotCount ==
  ASSUME NEW S, SlotSet(S)
  PROVE  Cardinality(BlocksIn(S)) <= Cardinality(AddrsIn(S)) * BlocksPerGroup
PROOF
<1> DEFINE F == {T \in SUBSET S : Cardinality(BlocksIn(T))
      <= Cardinality(AddrsIn(T)) * BlocksPerGroup}
<1>1. {} \in F
  <2>1. BlocksIn({}) = {} /\ AddrsIn({}) = {} /\ Cardinality({}) = 0
    BY FS_EmptySet DEF BlocksIn, AddrsIn
  <2> QED BY <2>1, GeometryAssumption
<1>2. ASSUME NEW T \in SUBSET S, T # {}, \A x \in T : T \ {x} \in F
      PROVE  T \in F
  <2>1. PICK x \in T : TRUE
    BY <1>2
  <2>2. SlotSet(T) /\ {x} \subseteq T
    BY <2>1, SlotSubset
  <2> DEFINE n == Cardinality(BlocksIn(T \ {x}))
             k == Cardinality(AddrsIn(T \ {x}))
  <2>3. /\ Cardinality(BlocksIn(T)) = x.count + n
        /\ Cardinality(AddrsIn(T)) = 1 + k
    <3>1. /\ Cardinality(BlocksIn({x})) = x.count
          /\ Cardinality(AddrsIn({x})) = 1
      BY <2>1, <2>2, SlotSingle
    <3>2. /\ Cardinality(BlocksIn(T)) = Cardinality(BlocksIn({x})) + n
          /\ Cardinality(AddrsIn(T)) = Cardinality(AddrsIn({x})) + k
      BY <2>2, SlotSplit
    <3> QED BY <3>1, <3>2
  <2>4. x.count \in 1 .. BlocksPerGroup /\ n \in Nat /\ k \in Nat
    BY <2>1, <2>2, SlotSubset, SlotBlocks DEF SlotSet
  <2>5. n <= k * BlocksPerGroup
    BY <1>2, <2>1
  <2> HIDE DEF n, k
  <2>6. x.count + n <= (1 + k) * BlocksPerGroup
    BY <2>4, <2>5, GeometryAssumption
  <2> QED BY <2>3, <2>6
<1> HIDE DEF F
<1>3. IsFiniteSet(S)
  BY SlotBlocks
<1>4. SUBSET S \subseteq F
  BY <1>1, <1>2, <1>3, FiniteInduction
<1> QED BY <1>4 DEF F

(* The payload is the room of the blocks less a header for each slot; it   *)
(* is a natural number.                                                    *)
LEMMA PayloadOf ==
  ASSUME NEW S, SlotSet(S)
  PROVE  /\ Payload(S)
           = BlockSize * Cardinality(BlocksIn(S))
               - HeaderSize * Cardinality(AddrsIn(S))
         /\ Payload(S) \in Nat
PROOF
<1>1. Payload(S)
        = BlockSize * Cardinality(BlocksIn(S))
            - HeaderSize * Cardinality(AddrsIn(S))
  BY DEF Payload, BlocksIn, AddrsIn
<1>2. /\ Cardinality(BlocksIn(S)) \in Nat /\ Cardinality(AddrsIn(S)) \in Nat
      /\ Cardinality(AddrsIn(S)) <= Cardinality(BlocksIn(S))
  BY SlotBlocks
<1>3. ASSUME NEW n \in Nat, NEW k \in Nat, k <= n
      PROVE  BlockSize * n - HeaderSize * k \in Nat
  <2>1. BlockSize * n >= HeaderSize * n /\ HeaderSize * n >= HeaderSize * k
    BY <1>3, GeometryAssumption
  <2>2. BlockSize * n \in Int /\ HeaderSize * n \in Int
          /\ HeaderSize * k \in Int
    BY <1>3, GeometryAssumption
  <2> QED BY <2>1, <2>2
<1> QED BY <1>1, <1>2, <1>3

(* The payloads of two parts add up. *)
LEMMA PayloadSplit ==
  ASSUME NEW S, SlotSet(S), NEW T, T \subseteq S
  PROVE  Payload(S) = Payload(T) + Payload(S \ T)
PROOF
<1>1. SlotSet(T) /\ SlotSet(S \ T)
  BY SlotSubset
<1> DEFINE n == Cardinality(BlocksIn(T))
           k == Cardinality(AddrsIn(T))
           m == Cardinality(BlocksIn(S \ T))
           l == Cardinality(AddrsIn(S \ T))
<1>3. n \in Nat /\ k \in Nat /\ m \in Nat /\ l \in Nat
  BY <1>1, SlotBlocks
<1>4. /\ Cardinality(BlocksIn(S)) = n + m
      /\ Cardinality(AddrsIn(S)) = k + l
  BY SlotSplit
<1>5. /\ Payload(S) = BlockSize * (n + m) - HeaderSize * (k + l)
      /\ Payload(T) = BlockSize * n - HeaderSize * k
      /\ Payload(S \ T) = BlockSize * m - HeaderSize * l
  BY <1>1, <1>4, PayloadOf
<1> HIDE DEF n, k, m, l
<1>6. BlockSize * (n + m) - HeaderSize * (k + l)
        = (BlockSize * n - HeaderSize * k) + (BlockSize * m - HeaderSize * l)
  BY <1>3, GeometryAssumption
<1> QED BY <1>5, <1>6

(* One slot more adds its room. *)
LEMMA PayloadAdd ==
  ASSUME NEW S, SlotSet(S), NEW s \in S
  PROVE  /\ Payload(S) = Payload(S \ {s}) + Room(s)
         /\ Room(s) \in Nat
PROOF
<1>1. SlotSet({s}) /\ {s} \subseteq S
  BY SlotSubset
<1>2. Payload({s}) = BlockSize * s.count - HeaderSize * 1
        /\ Payload({s}) \in Nat
  BY <1>1, SlotSingle, PayloadOf
<1>3. s.count \in Nat /\ Payload(S \ {s}) \in Nat
  BY <1>1, SlotSubset, PayloadOf, GeometryAssumption DEF SlotSet
<1>4. Room(s) = Payload({s})
  BY <1>2, <1>3, GeometryAssumption DEF Room
<1>5. Payload(S) = Payload({s}) + Payload(S \ {s})
  BY <1>1, PayloadSplit
<1> QED BY <1>2, <1>3, <1>4, <1>5

(* No slots, no payload. *)
LEMMA PayloadNone == Payload({}) = 0
PROOF
<1>1. SlotSet({}) /\ BlocksIn({}) = {} /\ AddrsIn({}) = {}
        /\ Cardinality({}) = 0
  BY FS_EmptySet DEF SlotSet, Disjoint, BlocksIn, AddrsIn
<1> QED BY <1>1, PayloadOf, GeometryAssumption

-----------------------------------------------------------------------------
(* The layout: the slots of an allocation hold the bytes asked for, the    *)
(* last of them not in vain.                                               *)

(* Slots have a last one. *)
LEMMA TopSlot ==
  ASSUME NEW S, SlotSet(S), S # {}
  PROVE  \E z \in S : Topmost(S, z)
PROOF
<1>1. AddrsIn(S) \in SUBSET Nat /\ AddrsIn(S) # {}
  BY DEF AddrsIn, SlotSet, Addr
<1>2. GroupCount * BlocksPerGroup \in Nat
  BY GeometryAssumption
<1>3. \A a \in AddrsIn(S) : a <= GroupCount * BlocksPerGroup
  BY DEF AddrsIn, SlotSet, Addr
<1>4. PICK a \in AddrsIn(S) : \A b \in AddrsIn(S) : b <= a
  BY <1>1, <1>2, <1>3, LargestExists
<1> QED BY <1>4 DEF AddrsIn, Topmost

(* All other slots are below the last. *)
LEMMA TopIsAbove ==
  ASSUME NEW S, SlotSet(S), NEW z \in S, Topmost(S, z)
  PROVE  Below(S, z) = S \ {z}
PROOF
<1>1. \A s, r \in S : s.addr = r.addr => s = r
  BY SlotBlocks
<1>2. \A s \in S : s.addr \in Int
  BY DEF SlotSet, Addr
<1> QED BY <1>1, <1>2 DEF Below, Topmost

(* BlocksFor rounds up, to less than a block more. *)
LEMMA RoundUp ==
  ASSUME NEW n \in Nat, NEW c \in Nat, BlocksFor(n) = c
  PROVE  n <= c * BlockSize /\ (c - 1) * BlockSize < n
PROOF
<1>1. n + BlockSize - 1 \in Nat /\ BlockSize \in Nat \ {0}
  BY GeometryAssumption
<1>2. c * BlockSize <= n + BlockSize - 1
        /\ n + BlockSize - 1 < (c + 1) * BlockSize
  BY <1>1, DivisionBounds DEF BlocksFor
<1>3. /\ (c + 1) * BlockSize = c * BlockSize + BlockSize
      /\ (c - 1) * BlockSize = c * BlockSize - BlockSize
      /\ c * BlockSize \in Nat
  BY <1>1
<1> QED BY <1>1, <1>2, <1>3

(* BlocksFor is the only number that does. *)
LEMMA WholeBlocks ==
  ASSUME NEW n \in Nat, NEW c \in Nat \ {0},
         n <= c * BlockSize, (c - 1) * BlockSize < n
  PROVE  BlocksFor(n) = c
PROOF
<1> DEFINE b == BlockSize
           q == (n + b - 1) \div b
<1>1. n + b - 1 \in Nat /\ b \in Nat \ {0}
  BY GeometryAssumption
<1>2. q \in Nat /\ q * b <= n + b - 1 /\ n + b - 1 < (q + 1) * b
  BY <1>1, DivisionBounds
<1>3. q = BlocksFor(n)
  BY DEF BlocksFor
<1>4. n <= c * b /\ (c - 1) * b < n
  OBVIOUS
<1> HIDE DEF q, b
<1>5. (q + 1) * b = q * b + b /\ (c - 1) * b = c * b - b /\ q * b \in Nat
        /\ c * b \in Nat
  BY <1>1, <1>2
<1>6. q * b < (c + 1) * b /\ c * b < (q + 1) * b
  <2>1. (c + 1) * b = c * b + b
    BY <1>1
  <2> QED BY <1>1, <1>2, <1>4, <1>5, <2>1
<1>7. ~(q >= c + 1)
  <2> SUFFICES ASSUME q >= c + 1 PROVE FALSE
    OBVIOUS
  <2>1. q * b >= (c + 1) * b
    BY <1>1, <1>2, <2>1
  <2>2. (c + 1) * b \in Nat
    BY <1>1
  <2> QED BY <1>5, <1>6, <2>1, <2>2
<1>8. ~(c >= q + 1)
  <2> SUFFICES ASSUME c >= q + 1 PROVE FALSE
    OBVIOUS
  <2>1. c * b >= (q + 1) * b
    BY <1>1, <1>2, <2>1
  <2>2. (q + 1) * b \in Nat
    BY <1>1, <1>2
  <2> QED BY <1>5, <1>6, <2>1, <2>2
<1>9. q = c
  BY <1>2, <1>7, <1>8
<1> QED BY <1>3, <1>9

(* Division with remainder. *)
LEMMA Divided ==
  ASSUME NEW n \in Nat, NEW d \in Nat \ {0}
  PROVE  /\ n \div d \in Nat
         /\ n % d \in 0 .. (d - 1)
         /\ n = (n \div d) * d + (n % d)
  BY SMT

(* BlocksNeeded, with quotient and remainder named. *)
LEMMA WantedBlocks ==
  ASSUME NEW n \in Nat
  PROVE  \E q, r, m \in Nat :
           /\ n = q * MaxPayload + r
           /\ BlocksNeeded(n) = q * BlocksPerGroup + m
           /\ \/ r = 0 /\ m = 0
              \/ /\ r > 0 /\ m > 0
                 /\ (m - 1) * BlockSize < HeaderSize + r
PROOF
<1> DEFINE q == n \div MaxPayload
           r == n % MaxPayload
           m == IF r = 0 THEN 0 ELSE BlocksFor(HeaderSize + r)
<1>1. q \in Nat /\ r \in Nat /\ n = q * MaxPayload + r
  BY PayloadRoom, Divided
<1>2. BlocksNeeded(n) = q * BlocksPerGroup + m
  BY DEF BlocksNeeded
<1> HIDE DEF q, r
<1>3. m \in Nat
  BY <1>1, BlocksForType, GeometryAssumption
<1>4. r > 0 => m > 0 /\ (m - 1) * BlockSize < HeaderSize + r
  <2> SUFFICES ASSUME r > 0 PROVE m > 0 /\ (m - 1) * BlockSize < HeaderSize + r
    OBVIOUS
  <2>1. HeaderSize + r \in Nat /\ HeaderSize + r > 0
          /\ m = BlocksFor(HeaderSize + r)
    BY <1>1, GeometryAssumption
  <2>2. HeaderSize + r <= m * BlockSize /\ (m - 1) * BlockSize < HeaderSize + r
    BY <1>3, <2>1, RoundUp
  <2>3. m # 0
    BY <2>1, <2>2, GeometryAssumption
  <2> QED BY <1>3, <2>2, <2>3
<1>5. r = 0 => m = 0
  OBVIOUS
<1> HIDE DEF m
<1> QED BY <1>1, <1>2, <1>3, <1>4, <1>5

(* However the blocks are split into slots, what the slots before the last *)
(* cannot hold is more than nothing, and needs all blocks of the last: a   *)
(* header more for every slot is less than what the blocks were rounded up *)
(* for.                                                                    *)
LEMMA LastSlot ==
  ASSUME NEW q \in Nat, NEW r \in Nat, NEW m \in Nat, NEW k \in Nat,
         NEW c \in 1 .. BlocksPerGroup, NEW n \in Nat, NEW w \in Nat,
         w = q * MaxPayload + r, n = q * BlocksPerGroup + m,
         \/ r = 0 /\ m = 0
         \/ r > 0 /\ m > 0 /\ (m - 1) * BlockSize < HeaderSize + r,
         n <= k * BlocksPerGroup, n - c <= (k - 1) * BlocksPerGroup
  PROVE  /\ w - (BlockSize * n - HeaderSize * k
                   - (c * BlockSize - HeaderSize)) > 0
         /\ HeaderSize + (w - (BlockSize * n - HeaderSize * k
                                - (c * BlockSize - HeaderSize)))
              > (c - 1) * BlockSize
PROOF
<1> DEFINE B == BlockSize
           P == BlocksPerGroup
           H == HeaderSize
           rest == w - (B * n - H * k - (c * B - H))
<1>1. B \in Nat /\ P \in Nat \ {0} /\ H \in Nat \ {0} /\ H < B
        /\ c \in Nat \ {0}
  BY GeometryAssumption
<1>2. w = q * (P * B - H) + r
  BY DEF MaxPayload
<1>3. n = q * P + m /\ n <= k * P /\ n - c <= (k - 1) * P
      /\ (r > 0 => m > 0 /\ (m - 1) * B < H + r) /\ (r = 0 => m = 0)
  OBVIOUS
<1> SUFFICES rest > 0 /\ H + rest > (c - 1) * B
  OBVIOUS
<1> HIDE DEF B, P, H
<1>4. rest = r + (k - q) * H - m * B + c * B - H
  <2> DEFINE x == q * (P * B)
  <2>1. P * B \in Int /\ q * P \in Int /\ q * H \in Int /\ k * H \in Int
          /\ m * B \in Int /\ c * B \in Int
    BY <1>1
  <2>2. q * (P * B - H) = x - q * H /\ x \in Int
    BY <1>1, <2>1
  <2>3. B * n = B * (q * P) + B * m
    BY <1>1, <1>3, <2>1
  <2>4. B * (q * P) = x /\ B * m = m * B
    BY <1>1
  <2>5. (k - q) * H = k * H - q * H /\ H * k = k * H
    BY <1>1
  <2> DEFINE qH == q * H
             kH == k * H
             mB == m * B
             cB == c * B
             Bn == B * n
             y == (k - q) * H
  <2>6. /\ x \in Int /\ qH \in Int /\ kH \in Int /\ mB \in Int /\ cB \in Int
        /\ w = x - qH + r /\ Bn = x + mB /\ y = kH - qH
    BY <1>2, <2>1, <2>2, <2>3, <2>4, <2>5
  <2>7. rest = w - (Bn - kH - (cB - H))
    BY <2>5
  <2> HIDE DEF rest, x, qH, kH, mB, cB, Bn, y
  <2>8. rest = r + y - mB + cB - H
    BY <1>1, <2>6, <2>7
  <2> QED BY <2>8 DEF y, mB, cB
<1>5. k >= q /\ (r > 0 => k >= q + 1)
  <2>1. ~(k < q)
    <3> SUFFICES ASSUME k < q PROVE FALSE
      OBVIOUS
    <3>1. (k + 1) * P <= q * P
      BY <1>1
    <3>2. k * P \in Nat /\ q * P \in Nat /\ (k + 1) * P = k * P + P
      BY <1>1
    <3> QED BY <1>1, <1>3, <3>1, <3>2
  <2>2. ASSUME r > 0 PROVE k # q
    <3>1. m > 0 /\ k * P \in Nat
      BY <1>1, <1>3, <2>2
    <3> QED BY <1>3, <3>1
  <2> QED BY <2>1, <2>2
<1>6. c * B >= B /\ (c - 1) * B = c * B - B /\ c * B \in Nat /\ m * B \in Nat
  BY <1>1
<1> HIDE DEF rest
<1>7. CASE r = 0
  <2>1. (k - q) * H \in Nat
    BY <1>1, <1>5
  <2>2. m * B = 0
    BY <1>1, <1>3, <1>7
  <2> QED BY <1>1, <1>4, <1>6, <1>7, <2>1, <2>2
<1>8. CASE r > 0 /\ k >= q + 2
  <2>1. (k - q) * H >= 2 * H /\ (k - q) * H \in Nat
    BY <1>1, <1>5, <1>8
  <2>2. m * B - B < H + r
    BY <1>1, <1>3, <1>8
  <2> QED BY <1>1, <1>4, <1>6, <2>1, <2>2
<1>9. CASE r > 0 /\ k = q + 1
  <2>1. m <= c
    <3>1. (k - 1) * P = q * P /\ q * P \in Nat
      BY <1>1, <1>9
    <3> QED BY <1>1, <1>3, <3>1
  <2>2. m * B <= c * B
    BY <1>1, <2>1
  <2>3. (k - q) * H = H
    BY <1>1, <1>9
  <2>4. m * B - B < H + r
    BY <1>1, <1>3, <1>9
  <2> QED BY <1>1, <1>4, <1>6, <1>9, <2>2, <2>3, <2>4
<1> QED BY <1>5, <1>7, <1>8, <1>9

(* What is planned is a set of slots. *)
LEMMA SlotsTyped ==
  ASSUME TypeInv, Ownership, NEW t \in Tasks
  PROVE  SlotSet(slots[t]) /\ SlotSet(plan[t])
BY DEF TypeInv, TypeOK, SlotsInGroup, Ownership, Allocation, SlotSet, Slot,
   SerialSlot

(* A slot that is not the last lies with its room below the last. *)
LEMMA BelowRoom ==
  ASSUME NEW S, SlotSet(S), NEW s \in S, NEW z \in S, s # z, Topmost(S, z)
  PROVE  Payload(Below(S, s)) + Room(s) <= Payload(S \ {z})
PROOF
<1> DEFINE T == Below(S, s) \cup {s}
<1>1. s.addr \in Int /\ z.addr \in Int /\ s.addr < z.addr
  BY SlotBlocks DEF Topmost, SlotSet, Addr
<1>2. T \subseteq S \ {z} /\ s \in T /\ T \ {s} = Below(S, s) /\ T \subseteq S
  BY <1>1 DEF Below
<1> HIDE DEF T
<1>3. SlotSet(T) /\ SlotSet(S \ {z}) /\ SlotSet(T \ {s})
        /\ SlotSet((S \ {z}) \ T)
  BY <1>2, SlotSubset
<1>4. Payload(T) = Payload(T \ {s}) + Room(s)
  BY <1>2, <1>3, PayloadAdd
<1>5. Payload(S \ {z}) = Payload(T) + Payload((S \ {z}) \ T)
  BY <1>2, <1>3, PayloadSplit
<1>6. Payload(T) \in Nat /\ Payload((S \ {z}) \ T) \in Nat
  BY <1>3, PayloadOf
<1>7. Payload(T) <= Payload(S \ {z})
  BY <1>5, <1>6
<1> QED BY <1>2, <1>4, <1>7

(* divide_evenly fills every slot but the last, gives the last what is     *)
(* left, which is not nothing, and needs all blocks of each.               *)
LEMMA LayoutFills ==
  ASSUME TypeInv, Ownership, NEW t \in Tasks, SizingOf(t), pc[t] = "layout",
         want[t] <= Payload(slots[t]), NEW s \in slots[t]
  PROVE  /\ Offset(t, s) = Payload(Below(slots[t], s)) /\ Offset(t, s) \in Nat
         /\ Chunk(t, s) \in Nat \ {0}
         /\ BlocksFor(HeaderSize + Chunk(t, s)) = s.count
         /\ IF Topmost(slots[t], s) THEN Offset(t, s) + Chunk(t, s) = want[t]
                                    ELSE Chunk(t, s) = Room(s)
PROOF
<1> DEFINE S == slots[t]
           w == want[t]
<1>1. SlotSet(S) /\ s \in S /\ w \in Nat /\ w <= Payload(S)
  BY SlotsTyped DEF TypeInv, TypeOK
<1>2. \A x \in S : Offset(t, x) = Payload(Below(S, x))
  BY DEF Offset, Below
<1>3. \A x \in S : Payload(Below(S, x)) \in Nat
  <2>1. \A x \in S : Below(S, x) \subseteq S
    BY DEF Below
  <2> QED BY <1>1, <2>1, SlotSubset, PayloadOf
<1>4. \A x \in S : Chunk(t, x) = IF w - Offset(t, x) <= Room(x)
                                 THEN w - Offset(t, x) ELSE Room(x)
  BY DEF Chunk, Room
<1>5. Cardinality(BlocksIn(S)) = BlocksNeeded(w)
  BY DEF SizingOf, Planned, Wanted, BlocksIn
<1>6. \A x \in S : /\ x.count \in Nat \ {0} /\ x.count * BlockSize \in Nat
                   /\ x.count * BlockSize >= BlockSize
                   /\ (x.count - 1) * BlockSize
                        = x.count * BlockSize - BlockSize
  BY <1>1, GeometryAssumption DEF SlotSet
<1> HIDE DEF S, w
<1>7. ASSUME NEW z \in S, Topmost(S, z)
      PROVE  /\ w - Offset(t, z) > 0
             /\ HeaderSize + (w - Offset(t, z)) > (z.count - 1) * BlockSize
             /\ w - Offset(t, z) <= Room(z)
  <2> DEFINE n == Cardinality(BlocksIn(S))
             k == Cardinality(AddrsIn(S))
  <2>1. n \in Nat /\ k \in Nat /\ n <= k * BlocksPerGroup
    BY <1>1, SlotBlocks, SlotCount
  <2>2. SlotSet(S \ {z}) /\ {z} \subseteq S /\ Below(S, z) = S \ {z}
    BY <1>1, <1>7, SlotSubset, TopIsAbove
  <2>3. /\ Cardinality(BlocksIn({z})) = z.count
        /\ Cardinality(AddrsIn({z})) = 1
    BY <1>1, SlotSingle
  <2>4. /\ n = Cardinality(BlocksIn({z})) + Cardinality(BlocksIn(S \ {z}))
        /\ k = Cardinality(AddrsIn({z})) + Cardinality(AddrsIn(S \ {z}))
    BY <1>1, <2>2, SlotSplit
  <2>5. /\ Cardinality(BlocksIn(S \ {z})) \in Nat
        /\ Cardinality(AddrsIn(S \ {z})) \in Nat
        /\ Cardinality(BlocksIn(S \ {z}))
             <= Cardinality(AddrsIn(S \ {z})) * BlocksPerGroup
    BY <2>2, SlotBlocks, SlotCount
  <2>6. z.count \in 1 .. BlocksPerGroup
    BY <1>1 DEF SlotSet
  <2>7. /\ Cardinality(BlocksIn(S \ {z})) = n - z.count
        /\ Cardinality(AddrsIn(S \ {z})) = k - 1
    BY <2>1, <2>3, <2>4, <2>5, <2>6
  <2>8. n - z.count <= (k - 1) * BlocksPerGroup
    BY <2>5, <2>7
  <2>9. Payload(S) = BlockSize * n - HeaderSize * k
    BY <1>1, PayloadOf
  <2>10. Payload(S) = Payload(S \ {z}) + Room(z) /\ Room(z) \in Nat
        /\ Payload(S \ {z}) \in Nat /\ Payload(S) \in Nat
    BY <1>1, <2>2, PayloadAdd, PayloadOf
  <2>11. PICK q, r, m \in Nat :
           /\ w = q * MaxPayload + r
           /\ n = q * BlocksPerGroup + m
           /\ \/ r = 0 /\ m = 0
              \/ /\ r > 0 /\ m > 0
                 /\ (m - 1) * BlockSize < HeaderSize + r
    BY <1>1, <1>5, WantedBlocks
  <2> HIDE DEF n, k
  <2> DEFINE rest == w - (BlockSize * n - HeaderSize * k
                            - (z.count * BlockSize - HeaderSize))
  <2>12. rest > 0 /\ HeaderSize + rest > (z.count - 1) * BlockSize
    BY <1>1, <2>1, <2>6, <2>8, <2>11, LastSlot
  <2>13. rest = w - (Payload(S) - Room(z))
    BY <2>9 DEF Room
  <2>14. Offset(t, z) \in Nat /\ Offset(t, z) = Payload(S) - Room(z)
    <3>1. Offset(t, z) = Payload(S \ {z})
      BY <1>2, <2>2
    <3> QED BY <2>10, <3>1
  <2> HIDE DEF rest
  <2>15. rest = w - Offset(t, z)
    BY <1>1, <2>10, <2>13, <2>14
  <2>16. w - Offset(t, z) <= Room(z)
    BY <1>1, <2>10, <2>14
  <2> QED BY <2>12, <2>15, <2>16
<1>8. CASE Topmost(S, s)
  <2> DEFINE c == w - Offset(t, s)
  <2>1. Chunk(t, s) = c
    BY <1>1, <1>4, <1>7, <1>8
  <2>2. Offset(t, s) \in Nat
    BY <1>1, <1>2, <1>3
  <2>3. c \in Nat \ {0} /\ Offset(t, s) + c = w
    BY <1>1, <1>7, <1>8, <2>2
  <2>4. HeaderSize + c > (s.count - 1) * BlockSize /\ c <= Room(s)
    BY <1>1, <1>7, <1>8
  <2> HIDE DEF c
  <2>5. BlocksFor(HeaderSize + c) = s.count
    <3>1. HeaderSize + c \in Nat /\ HeaderSize + c <= s.count * BlockSize
      BY <1>1, <1>6, <2>3, <2>4, GeometryAssumption DEF Room
    <3> QED BY <1>1, <1>6, <2>4, <3>1, WholeBlocks
  <2> QED BY <1>1, <1>2, <1>8, <2>1, <2>2, <2>3, <2>5 DEF S, w
<1>9. CASE ~Topmost(S, s)
  <2>1. PICK z \in S : Topmost(S, z)
    BY <1>1, TopSlot
  <2>2. w - Offset(t, z) > 0 /\ Offset(t, z) = Payload(S \ {z})
    BY <1>1, <1>2, <1>7, <2>1, TopIsAbove
  <2>3. Offset(t, s) + Room(s) <= Offset(t, z)
    BY <1>1, <1>2, <1>9, <2>1, <2>2, BelowRoom
  <2>4. Offset(t, z) \in Nat /\ Offset(t, s) \in Nat /\ Room(s) \in Nat
    BY <1>1, <1>2, <1>3, PayloadAdd
  <2>5. Chunk(t, s) = Room(s)
    BY <1>1, <1>4, <2>2, <2>3, <2>4
  <2>6. Room(s) \in Nat \ {0} /\ HeaderSize + Room(s) = s.count * BlockSize
    BY <1>1, <1>6, <2>4, GeometryAssumption DEF Room
  <2>7. BlocksFor(HeaderSize + Room(s)) = s.count
    <3>1. HeaderSize + Room(s) \in Nat
            /\ (s.count - 1) * BlockSize < HeaderSize + Room(s)
      BY <1>1, <1>6, <2>6, GeometryAssumption
    <3> QED BY <1>1, <1>6, <2>6, <3>1, WholeBlocks
  <2> QED BY <1>1, <1>2, <1>9, <2>4, <2>5, <2>6, <2>7 DEF S, w
<1> QED BY <1>8, <1>9

(* allocate returns no slots only for no bytes. *)
LEMMA NothingWanted ==
  ASSUME TypeInv, Ownership, NEW t \in Tasks, SizingOf(t),
         pc[t] \in {"commit", "layout"}, slots[t] = {}
  PROVE  want[t] = 0
PROOF
<1>1. BlocksNeeded(want[t]) = 0 /\ want[t] \in Nat
  <2>1. Planned(t) = {}
    BY DEF Planned
  <2>2. Cardinality({}) = 0 /\ Cardinality(Planned(t)) = BlocksNeeded(want[t])
    BY FS_EmptySet DEF SizingOf, Wanted
  <2> QED BY <2>1, <2>2 DEF TypeInv, TypeOK
<1>2. PICK q, r, m \in Nat :
        /\ want[t] = q * MaxPayload + r
        /\ 0 = q * BlocksPerGroup + m
        /\ \/ r = 0 /\ m = 0
           \/ r > 0 /\ m > 0 /\ (m - 1) * BlockSize < HeaderSize + r
  BY <1>1, WantedBlocks
<1>3. q * BlocksPerGroup \in Nat /\ (q > 0 => q * BlocksPerGroup >= 1)
  BY GeometryAssumption
<1>4. q = 0 /\ m = 0
  BY <1>2, <1>3
<1> QED BY <1>2, <1>4, PayloadRoom

-----------------------------------------------------------------------------
(* The runs of a set of free blocks have all of its blocks. *)

(* There are finitely many blocks. *)
LEMMA AddrFinite == IsFiniteSet(Addr) /\ Addr \subseteq Nat
BY FS_Interval, GeometryAssumption DEF Addr

(* The addresses between two of a group are in the group. *)
LEMMA InGroup ==
  ASSUME NEW a \in Addr, NEW b \in Int, FirstOf(GroupOf(a)) <= b,
         b <= LastOf(GroupOf(a))
  PROVE  b \in Addr /\ GroupOf(b) = GroupOf(a)
PROOF
<1> DEFINE g == GroupOf(a)
           f == FirstOf(g)
<1>1. g \in Nat /\ f = g * BlocksPerGroup + 1 /\ g * BlocksPerGroup \in Nat
      /\ LastOf(g) = (g + 1) * BlocksPerGroup /\ f <= a /\ a <= LastOf(g)
      /\ LastOf(g) <= GroupCount * BlocksPerGroup
  BY GroupBounds, GeometryAssumption DEF Groups, FirstOf, LastOf
<1>2. f \in Addr
  BY <1>1, GeometryAssumption DEF Addr
<1>3. GroupOf(f) = g
  <2>1. (g * BlocksPerGroup) \div BlocksPerGroup = g
    BY <1>1, GeometryAssumption, SMT
  <2>2. f - 1 = g * BlocksPerGroup
    BY <1>1
  <2> QED BY <2>1, <2>2 DEF GroupOf
<1> HIDE DEF f, g
<1>4. f <= b /\ b <= LastOf(GroupOf(f))
  BY <1>3 DEF f, g
<1> QED BY <1>2, <1>3, <1>4, SameGroup DEF g

(* Each free block is in a run: the longest one around it. *)
LEMMA RunsCover ==
  ASSUME NEW S \in SUBSET Addr
  PROVE  UNION {BlocksOf(s) : s \in RunsOf(S)} = S
PROOF
<1>1. \A s \in RunsOf(S) : BlocksOf(s) \subseteq S
  BY RunsOfFree
<1>2. ASSUME NEW a \in S
      PROVE  \E s \in RunsOf(S) : a \in BlocksOf(s)
  <2> DEFINE g == GroupOf(a)
             f == FirstOf(g)
             e == LastOf(g)
             Left == {x \in f .. a : x .. a \subseteq S}
             Right == {y \in a .. e : a .. y \subseteq S}
  <2>1. /\ a \in Nat /\ f \in Nat /\ e \in Nat /\ f <= a /\ a <= e
        /\ e <= GroupCount * BlocksPerGroup
    <3>1. g \in Nat /\ f <= a /\ a <= e /\ e <= GroupCount * BlocksPerGroup
      BY GroupBounds, GeometryAssumption DEF Groups
    <3>2. f = g * BlocksPerGroup + 1 /\ e = (g + 1) * BlocksPerGroup
      BY DEF FirstOf, LastOf
    <3> HIDE DEF g, f, e
    <3>3. f \in Nat /\ e \in Nat /\ a \in Nat
      BY <3>1, <3>2, GeometryAssumption DEF Addr
    <3> QED BY <3>1, <3>3
  <2>2. \A b \in f .. e : b \in Addr /\ GroupOf(b) = g
    BY InGroup, <2>1
  <2> HIDE DEF f, e, g
  <2>3. a \in Left /\ a \in Right /\ Left \in SUBSET Nat
          /\ Right \in SUBSET Nat
    BY <2>1
  <2>4. PICK l \in Left : \A x \in Left : l <= x
    BY <2>3, LeastExists
  <2>5. PICK r \in Right : \A y \in Right : y <= r
    <3>1. \A y \in Right : y <= e
      BY <2>1
    <3> HIDE DEF Right
    <3> QED BY <2>1, <2>3, <3>1, LargestExists
  <2>6. /\ l \in Nat /\ r \in Nat /\ f <= l /\ l <= a /\ a <= r /\ r <= e
        /\ l .. r \subseteq S
    BY <2>1, <2>3, <2>4, <2>5
  <2>7. l = f \/ l - 1 \notin S
    <3> SUFFICES ASSUME l # f, l - 1 \in S PROVE FALSE
      OBVIOUS
    <3>1. l - 1 \in Left
      BY <2>1, <2>4, <2>6
    <3> QED BY <2>4, <2>6, <3>1
  <2>8. r = e \/ r + 1 \notin S
    <3> SUFFICES ASSUME r # e, r + 1 \in S PROVE FALSE
      OBVIOUS
    <3>1. r + 1 \in Right
      BY <2>1, <2>5, <2>6
    <3> QED BY <2>5, <2>6, <3>1
  <2> DEFINE s == [addr |-> l, count |-> r - l + 1]
  <2>9. s.addr = l /\ s.count = r - l + 1 /\ l + (r - l + 1) - 1 = r
          /\ l + (r - l + 1) = r + 1
    BY <2>6
  <2>10. l \in Addr /\ GroupOf(l) = g
    BY <2>1, <2>2, <2>6
  <2>11. InOneGroup(l, r - l + 1)
    BY <2>6, <2>9, <2>10 DEF InOneGroup, e
  <2>12. r - l + 1 \in 1 .. BlocksPerGroup
    BY <2>6, <2>10, <2>11, RunFitsGroup
  <2>13. s \in Slot
    BY <2>10, <2>12 DEF Slot
  <2>14. BlocksOf(s) = l .. r
    BY <2>9 DEF BlocksOf, RunFrom
  <2>15. s \in RunsOf(S)
    BY <2>6, <2>7, <2>8, <2>9, <2>10, <2>11, <2>13, <2>14 DEF RunsOf, f, e
  <2>16. a \in BlocksOf(s)
    BY <2>1, <2>6, <2>14
  <2> QED BY <2>15, <2>16
<1> QED BY <1>1, <1>2

(* Lowest takes as many blocks as it is asked for: their ranks are a       *)
(* bijection.                                                              *)
LEMMA LowestCount ==
  ASSUME NEW S \in SUBSET Addr, NEW n \in Nat, n <= Cardinality(S)
  PROVE  /\ Lowest(S, n) \subseteq S
         /\ Cardinality(Lowest(S, n)) = n
PROOF
<1> DEFINE UpTo1(a) == {b \in S : b <= a}
           f == [a \in S |-> Cardinality(UpTo1(a))]
<1>1. IsFiniteSet(S) /\ S \subseteq Nat /\ Cardinality(S) \in Nat
  BY AddrFinite, FS_Subset, FS_CardinalityType
<1>2. ASSUME NEW a \in S
      PROVE  f[a] \in 1 .. Cardinality(S)
  <2>1. UpTo1(a) \in SUBSET S /\ a \in UpTo1(a)
    BY <1>1
  <2>2. IsFiniteSet(UpTo1(a)) /\ Cardinality(UpTo1(a)) <= Cardinality(S)
    BY <1>1, <2>1, FS_Subset
  <2>3. Cardinality(UpTo1(a)) \in Nat /\ Cardinality(UpTo1(a)) # 0
    BY <2>1, <2>2, FS_CardinalityType, FS_EmptySet
  <2> HIDE DEF UpTo1
  <2> QED BY <1>1, <2>2, <2>3
<1>3. ASSUME NEW a \in S, NEW b \in S, a < b
      PROVE  f[a] # f[b]
  <2>0. a \in Nat /\ b \in Nat /\ \A c \in S : c \in Nat
    BY <1>1
  <2>a. \A c \in S : c <= a => c <= b
    BY <2>0, <1>3
  <2>b. b <= b /\ ~(b <= a)
    BY <2>0, <1>3
  <2>1. UpTo1(a) \in SUBSET UpTo1(b) /\ b \in UpTo1(b) /\ b \notin UpTo1(a)
    BY <2>a, <2>b
  <2>2. IsFiniteSet(UpTo1(b))
    BY <1>1, FS_Subset
  <2>3. Cardinality(UpTo1(a)) # Cardinality(UpTo1(b))
    BY <2>1, <2>2, FS_Subset
  <2> QED BY <2>3
<1>4. DOMAIN f = S
  OBVIOUS
<1>5. Lowest(S, n) = {a \in S : f[a] <= n}
  BY DEF Lowest
<1> HIDE DEF f
<1>6. f \in [S -> 1 .. Cardinality(S)]
  <2>1. f = [a \in S |-> f[a]]
    BY DEF f
  <2> QED BY <1>2, <2>1
<1>7. \A a, b \in S : f[a] = f[b] => a = b
  BY <1>1, <1>3
<1>8. IsFiniteSet(1 .. Cardinality(S))
        /\ Cardinality(1 .. Cardinality(S)) = Cardinality(S)
  BY <1>1, FS_Interval
<1>9. f \in Injection(S, 1 .. Cardinality(S))
  BY <1>6, <1>7 DEF Injection, IsInjective
<1>10. f \in Surjection(S, 1 .. Cardinality(S))
  BY <1>8, <1>9, FS_Injection
<1> DEFINE L == {a \in S : f[a] <= n}
           h == [a \in L |-> f[a]]
<1>11. h \in [L -> 1 .. n]
  <2>1. \A a \in L : f[a] \in 1 .. n
    BY <1>2
  <2> HIDE DEF L
  <2> QED BY <2>1
<1>12. h \in Injection(L, 1 .. n)
  BY <1>7, <1>11 DEF Injection, IsInjective
<1>13. ASSUME NEW i \in 1 .. n PROVE \E a \in L : h[a] = i
  <2>1. i \in 1 .. Cardinality(S)
    BY <1>1
  <2>2. PICK a \in S : f[a] = i
    BY <1>10, <2>1 DEF Surjection
  <2> QED BY <2>2
<1>14. h \in Surjection(L, 1 .. n)
  BY <1>11, <1>13 DEF Surjection
<1>15. IsFiniteSet(1 .. n) /\ Cardinality(1 .. n) = n
  BY FS_Interval
<1> HIDE DEF h, L
<1>16. Cardinality(L) = n
  BY <1>12, <1>14, <1>15, FS_Injection
<1> QED BY <1>5, <1>16 DEF L

-----------------------------------------------------------------------------
(* Following a chain meets each of its extents once. *)

(* The extent after a. *)
After(a) == IF a = None THEN None ELSE header[a].next
(* at follows next n times from h. *)
IsWalk(at, h, n) ==
  at = [i \in 0 .. n |-> IF i = 0 THEN h
                         ELSE IF at[i - 1] = None THEN None
                         ELSE header[at[i - 1]].next]

(* Such a walk exists, by induction on its length. *)
LEMMA WalkExists ==
  ASSUME NEW h, NEW n \in Nat
  PROVE  \E at : IsWalk(at, h, n)
PROOF
<1> DEFINE S == {k \in Nat : \E at : IsWalk(at, h, k)}
<1>1. 0 \in S
  <2> DEFINE f == [i \in 0 .. 0 |-> h]
  <2>1. IsWalk(f, h, 0)
    BY DEF IsWalk
  <2> HIDE DEF f
  <2> QED BY <2>1
<1>2. ASSUME NEW k \in Nat, k \in S PROVE k + 1 \in S
  <2>1. PICK f : IsWalk(f, h, k)
    BY <1>2
  <2> DEFINE g == [i \in 0 .. (k + 1) |-> IF i
        = k + 1 THEN After(f[k]) ELSE f[i]]
             e == [i \in 0 .. (k + 1) |-> IF i = 0 THEN h
                                          ELSE IF g[i - 1] = None THEN None
                                          ELSE header[g[i - 1]].next]
  <2>2. \A i \in 0 .. (k + 1) : g[i] = e[i]
    <3>1. /\ f[0] = h
          /\ \A i \in 1 .. k : f[i] = After(f[i - 1])
      BY <2>1 DEF IsWalk, After
    <3>2. /\ g[0] = h /\ g[k + 1] = After(f[k]) /\ k + 1 \in 0 .. (k + 1)
          /\ \A i \in 0 .. k : g[i] = f[i]
      BY <3>1
    <3>3. \A i \in 0 .. (k + 1) : e[i] = IF i = 0 THEN h ELSE After(g[i - 1])
      BY DEF After
    <3> HIDE DEF g, e
    <3>4. \A i \in 1 .. (k + 1) : g[i] = After(g[i - 1])
      <4> SUFFICES ASSUME NEW i \in 1 .. (k + 1) PROVE g[i] = After(g[i - 1])
        OBVIOUS
      <4>1. i - 1 \in 0 .. k /\ (i = k + 1 \/ i \in 1 .. k)
        OBVIOUS
      <4>2. i = k + 1 => i - 1 = k
        OBVIOUS
      <4> QED BY <3>1, <3>2, <4>1, <4>2
    <3> QED BY <3>2, <3>3, <3>4
  <2>3. g = [i \in 0 .. (k + 1) |-> g[i]] /\ e = [i \in 0 .. (k + 1) |-> e[i]]
    OBVIOUS
  <2> HIDE DEF g, e
  <2>4. g = e
    BY <2>2, <2>3
  <2>5. IsWalk(g, h, k + 1)
    BY <2>4 DEF IsWalk, e
  <2> QED BY <2>5
<1> HIDE DEF S
<1>3. n \in S
  BY <1>1, <1>2, SetInduction
<1> QED BY <1>3 DEF S

(* Extents collects what a walk meets that is as long as there are blocks. *)
LEMMA ExtentsMet ==
  ASSUME NEW h
  PROVE  \E at : /\ IsWalk(at, h, Cardinality(Addr))
                 /\ Extents(h)
                      = {at[i] : i \in 0 .. Cardinality(Addr)} \ {None}
PROOF
<1>1. Cardinality(Addr) \in Nat
  BY AddrFinite, FS_CardinalityType
<1> DEFINE at == CHOOSE f : IsWalk(f, h, Cardinality(Addr))
<1>2. IsWalk(at, h, Cardinality(Addr))
  BY <1>1, WalkExists
<1>3. Extents(h) = {at[i] : i \in 0 .. Cardinality(Addr)} \ {None}
  BY DEF Extents, IsWalk
<1> QED BY <1>2, <1>3

(* A walk from the head of a chain meets its extents and no others. It     *)
(* stays in the chain; it does not repeat an extent, because no two have   *)
(* the same successor and none has the head; so it ends within as many     *)
(* steps as there are blocks; and what it met is closed under next, so it  *)
(* is all of it.                                                           *)
LEMMA ExtentsOfChain ==
  ASSUME NEW h \in Addr \cup {None}, NEW X \in SUBSET Addr,
         Reaches(h, X, header), h # None => h \in X,
         \A a \in X : header[a].next = None \/ header[a].next \in X,
         \A a, b \in X : a # b /\ header[a].next # None
                           => header[a].next # header[b].next,
         \A a \in X : h # None => header[a].next # h
  PROVE  Extents(h) = X
PROOF
<1> DEFINE c == Cardinality(Addr)
<1>1. IsFiniteSet(Addr) /\ c \in Nat /\ None \notin Addr
  BY AddrFinite, FS_CardinalityType DEF Addr, None
<1>2. PICK at : /\ IsWalk(at, h, c)
                /\ Extents(h) = {at[i] : i \in 0 .. c} \ {None}
  BY ExtentsMet
<1> HIDE DEF c
<1>3. /\ at[0] = h
      /\ \A i \in 0 .. c : i + 1 \in 0 .. c => at[i + 1] = After(at[i])
  BY <1>1, <1>2 DEF IsWalk, After
<1>4. \A i \in 0 .. c : at[i] \in X \cup {None}
  <2> DEFINE S == {i \in Nat : i \in 0 .. c => at[i] \in X \cup {None}}
  <2>1. 0 \in S
    BY <1>3
  <2>2. ASSUME NEW i \in Nat, i \in S PROVE i + 1 \in S
    BY <1>1, <1>3, <2>2 DEF After
  <2> HIDE DEF S
  <2>3. Nat \subseteq S
    BY <2>1, <2>2, SetInduction
  <2> QED BY <2>3, <1>1 DEF S
<1>5. Extents(h) \subseteq X
  BY <1>2, <1>4
<1>6. \A i \in Nat : \A j \in 0 .. c : i < j /\ at[j] # None => at[i] # at[j]
  <2> DEFINE S == {i \in Nat : \A j \in 0 .. c : i < j
        /\ at[j] # None => at[i] # at[j]}
  <2>0. \A j \in 1 .. c : j - 1 \in 0 .. c /\ at[j] = After(at[j - 1])
          /\ (j - 1) + 1 = j
    BY <1>1, <1>3
  <2>1. 0 \in S
    <3> SUFFICES ASSUME NEW j \in 0 .. c, 0 < j, at[j] # None, h = at[j]
                 PROVE  FALSE
      BY <1>3
    <3>1. j \in 1 .. c
      BY <1>1
    <3>2. at[j] = After(at[j - 1]) /\ at[j - 1] \in X \cup {None}
      BY <1>4, <2>0, <3>1
    <3> QED BY <3>2 DEF After
  <2>2. ASSUME NEW i \in Nat, i \in S PROVE i + 1 \in S
    <3> SUFFICES ASSUME NEW j \in 0 .. c, i + 1 < j, at[j] # None,
                          at[i + 1] = at[j]
                 PROVE  FALSE
      OBVIOUS
    <3>1. j \in 1 .. c /\ i + 1 \in 1 .. c /\ i < j - 1 /\ (i + 1) - 1 = i
            /\ i \in 0 .. c
      BY <1>1
    <3>2. /\ at[j] = After(at[j - 1]) /\ at[j - 1] \in X \cup {None}
          /\ at[i + 1] = After(at[i]) /\ at[i] \in X \cup {None}
          /\ j - 1 \in 0 .. c
      BY <1>3, <1>4, <2>0, <3>1
    <3>3. at[i] = at[j - 1] /\ at[j - 1] # None
      BY <3>2 DEF After
    <3> QED BY <2>2, <3>1, <3>2, <3>3
  <2> HIDE DEF S
  <2>3. Nat \subseteq S
    BY <2>1, <2>2, SetInduction
  <2> QED BY <2>3 DEF S
<1>7. at[c] = None
  <2> SUFFICES ASSUME at[c] # None PROVE FALSE
    OBVIOUS
  <2>1. \A i \in 0 .. c : at[i] # None
    <3> DEFINE S == {i \in Nat : i <= c => at[c - i] # None}
    <3>1. 0 \in S
      BY <1>1
    <3>2. ASSUME NEW i \in Nat, i \in S PROVE i + 1 \in S
      <4> SUFFICES ASSUME i + 1 <= c PROVE at[c - (i + 1)] # None
        OBVIOUS
      <4> DEFINE k == c - (i + 1)
      <4>1. k \in 0 .. c /\ k + 1 \in 0 .. c /\ k + 1 = c - i /\ i <= c
        BY <1>1
      <4>2. at[k + 1] # None
        BY <3>2, <4>1
      <4> HIDE DEF k
      <4>3. at[k] # None
        BY <1>3, <4>1, <4>2 DEF After
      <4> QED BY <4>3 DEF k
    <3> HIDE DEF S
    <3>3. Nat \subseteq S
      BY <3>1, <3>2, SetInduction
    <3>4. \A i \in 0 .. c : c - i \in Nat /\ c - i <= c /\ c - (c - i) = i
      BY <1>1
    <3> QED BY <3>3, <3>4 DEF S
  <2>2. at \in [0 .. c -> Addr]
    <3>1. \A i \in 0 .. c : at[i] \in Addr
      BY <1>4, <2>1
    <3>2. DOMAIN at = 0 .. c /\ at = [i \in DOMAIN at |-> at[i]]
      BY <1>2 DEF IsWalk
    <3> QED BY <3>1, <3>2
  <2>3. IsFiniteSet(0 .. c) /\ Cardinality(0 .. c) = c + 1
    <3>1. 0 \in Int /\ c \in Int /\ ~(0 > c) /\ c - 0 + 1 = c + 1
      BY <1>1
    <3> QED BY <3>1, FS_Interval
  <2>4. Cardinality(Addr) < Cardinality(0 .. c)
    BY <1>1, <2>3 DEF c
  <2>5. PICK i \in 0 .. c, j \in 0 .. c : i # j /\ at[i] = at[j]
    BY <1>1, <2>2, <2>3, <2>4, FS_PigeonHole
  <2>6. i \in Nat /\ j \in Nat /\ (i < j \/ j < i) /\ at[i] # None
          /\ at[j] # None
    BY <1>1, <2>1, <2>5
  <2> QED BY <1>6, <2>5, <2>6
<1>8. \A a \in Extents(h) \cap X : header[a].next # None
        => header[a].next \in Extents(h)
  <2> SUFFICES ASSUME NEW i \in 0 .. c, at[i] # None, header[at[i]].next # None
               PROVE  header[at[i]].next \in Extents(h)
    BY <1>2
  <2>1. i # c
    BY <1>7
  <2>2. i + 1 \in 0 .. c
    BY <1>1, <2>1
  <2>3. at[i + 1] = header[at[i]].next
    BY <1>3, <2>2 DEF After
  <2> QED BY <1>2, <2>2, <2>3
<1>9. Extents(h) \in SUBSET Addr
  BY <1>5
<1>10. h # None => h \in Extents(h)
  BY <1>1, <1>2, <1>3
<1> HIDE DEF c
<1>11. X \subseteq Extents(h)
  BY <1>8, <1>9, <1>10 DEF Reaches
<1> QED BY <1>5, <1>11

-----------------------------------------------------------------------------
(* What follows from the invariant. *)

(* The extents found from an inode are those of the file. *)
LEMMA FileExtents ==
  ASSUME TypeInv, Ownership, Chaining, NEW t \in Tasks, Intact(t)
  PROVE  Extents(head[t]) = Chain(t, "file")
PROOF
<1> DEFINE X == Chain(t, "file")
           h == head[t]
<1>1. h \in Addr \cup {None} /\ X \in SUBSET Addr
  BY DEF TypeInv, TypeOK, Chain
<1>2. Reaches(h, X, header)
  BY DEF Chaining, Contents, Linked
<1>3. h # None => h \in X
  BY HeadsInChain
<1>4. \A a \in X : header[a].next = None \/ header[a].next \in X
  BY ChainClosed
<1>5. \A a, b \in X : a # b /\ header[a].next # None
                        => header[a].next # header[b].next
  BY DEF Ownership, Extents3, Chain, StartsFor
<1>6. \A a \in X : h # None => header[a].next # h
  BY DEF Ownership, Heads, HeadsOf, NoPredecessor, Chain, StartsFor
<1> HIDE DEF X, h
<1>7. Extents(h) = X
  BY <1>1, <1>2, <1>3, <1>4, <1>5, <1>6, ExtentsOfChain
<1> QED BY <1>7 DEF X, h

(* The blocks found from an inode are those the file holds. *)
LEMMA FileBlocks ==
  ASSUME TypeInv, Ownership, Chaining, NEW t \in Tasks, Intact(t)
  PROVE  ChainBlocks(head[t]) = Held(t, "file")
PROOF
<1>1. ChainBlocks(head[t]) = UNION {Footprint(x) : x \in Chain(t, "file")}
  BY FileExtents DEF ChainBlocks
<1>2. ASSUME NEW x \in Chain(t, "file")
      PROVE Footprint(x) \subseteq Held(t, "file")
  <2>1. /\ x \in Addr /\ Starts(x) /\ owner[x] = t /\ role[x] = "file"
        /\ InOneGroup(x, BlocksFor(HeaderSize + header[x].size))
        /\ \A b \in Footprint(x) : role[b] = role[x] /\ owner[b] = owner[x]
    BY DEF Chain, StartsFor, Ownership, Extents1
  <2>2. Footprint(x) \subseteq Addr
    BY <2>1, FootprintType
  <2> QED BY <2>1, <2>2 DEF Held
<1>3. ASSUME NEW b \in Held(t, "file")
      PROVE  \E x \in Chain(t, "file") : b \in Footprint(x)
  <2>1. b \in Addr /\ Live(b) /\ role[b] = "file" /\ owner[b] = t
    BY DEF Held, Live
  <2>2. PICK x \in Addr : Starts(x) /\ b \in Footprint(x)
    BY <2>1 DEF Chaining, Covered
  <2>3. role[x] = "file" /\ owner[x] = t
    BY <2>1, <2>2 DEF Ownership, Extents1
  <2> QED BY <2>2, <2>3 DEF Chain, StartsFor
<1> QED BY <1>1, <1>2, <1>3

(* No two files share a block, and all they have is marked. *)
LEMMA ChainsOwn ==
  TypeInv /\ Ownership /\ Chaining => ChainsAreOwn
BY FileBlocks DEF ChainsAreOwn

(* The content is found in order and is all there. *)
LEMMA ContentOrdered ==
  TypeInv /\ Ownership /\ Chaining => ContentInOrder
PROOF
<1> SUFFICES ASSUME TypeInv, Ownership, Chaining, NEW t \in Tasks, Intact(t)
             PROVE
               /\ ChainBytes(head[t]) >= size[t]
               /\ t \notin overrun =>
                    /\ ChainBytes(head[t])
                         = size[t] + (IF pc[t]
                           = "register" THEN want[t] ELSE 0)
                    /\ head[t] # None => header[head[t]].from = 0
                    /\ \A x \in Extents(head[t]) : header[x].next # None =>
                         header[header[x].next].from
                           = header[x].from + header[x].size
  BY DEF ContentInOrder
<1>1. Extents(head[t]) = Chain(t, "file")
  BY FileExtents
<1>2. ChainBytes(head[t]) = SizeSum(header, Chain(t, "file"))
  BY <1>1 DEF ChainBytes, SizeSum
<1>3. InOrder(t) /\ Amounts(t)
  BY DEF Chaining, Contents
<1>4. SizeSum(header, Chain(t, "file")) \in Nat
  <2>1. IsFiniteSet(Chain(t, "file"))
          /\ \A a \in Chain(t, "file") : header[a].size \in Nat
    BY ChainFinite
  <2>2. Chain(t, "file") \in SUBSET Chain(t, "file")
    OBVIOUS
  <2> QED BY <2>1, <2>2, SumRemove
<1>5. size[t] \in Nat /\ want[t] \in Nat
  BY DEF TypeInv, TypeOK
<1>6. ChainBytes(head[t]) >= size[t]
  BY <1>2, <1>3, <1>4, <1>5 DEF Amounts, Total
<1>7. ASSUME t \notin overrun
      PROVE  /\ ChainBytes(head[t]) = Total(t)
             /\ head[t] # None => header[head[t]].from = 0
             /\ Adjacent(Chain(t, "file"), header, Total(t))
  BY <1>2, <1>3, <1>7 DEF Amounts, InOrder
<1> QED BY <1>1, <1>6, <1>7 DEF Total, Adjacent

(* At rest every block in use is found from an inode or was lost. *)
LEMMA NoLeak ==
  TypeInv /\ Ownership /\ Chaining => NothingLeaks
PROOF
<1> SUFFICES ASSUME TypeInv, Ownership, Chaining,
                    \A t \in Tasks : pc[t] = "idle" /\ t \notin torn
             PROVE  used = {a \in Addr : role[a] = "lost"}
                             \cup UNION {ChainBlocks(head[t]) : t \in Tasks}
  BY DEF NothingLeaks
<1>1. \A t \in Tasks : ChainBlocks(head[t]) = Held(t, "file")
  BY FileBlocks DEF Intact
<1>2. UNION {ChainBlocks(head[t]) : t \in Tasks} = UNION {Held(t,
        "file") : t \in Tasks}
  BY <1>1
<1>3. used = {a \in Addr : role[a] # "free"}
  BY DEF Ownership, Bitmaps
<1>4. \A a \in Addr : role[a] # "free" => role[a] = "lost"
        \/ (role[a] = "file" /\ owner[a] \in Tasks)
  <2> SUFFICES ASSUME NEW a \in Addr, role[a] # "free", role[a] # "lost"
               PROVE  role[a] = "file" /\ owner[a] \in Tasks
    OBVIOUS
  <2>1. Stage(a) /\ role[a] \in {"plan", "new", "file", "old"}
    BY DEF Chaining, Stages, TypeInv, TypeOK, Roles
  <2>2. role[a] # "plan" => owner[a] \in Tasks
    BY <2>1 DEF Ownership, Bitmaps, Live
  <2>3. role[a] # "plan"
    <3> SUFFICES ASSUME role[a] = "plan" PROVE FALSE
      OBVIOUS
    <3>1. owner[a] \in Tasks /\ PlannedFor(a, owner[a])
      BY <2>1 DEF Stage
    <3>2. slots[owner[a]] = {} /\ plan[owner[a]] = {}
      BY <3>1 DEF Ownership, Control
    <3> QED BY <3>1, <3>2 DEF PlannedFor, Planned
  <2>4. role[a] # "new" /\ role[a] # "old"
    BY <2>1, <2>2 DEF Stage, Freeing
  <2> QED BY <2>1, <2>2, <2>3, <2>4
<1>5. used = {a \in Addr : role[a] = "lost"} \cup UNION {Held(t,
        "file") : t \in Tasks}
  BY <1>3, <1>4 DEF Held
<1> QED BY <1>2, <1>5

-----------------------------------------------------------------------------
(* Steps that leave the chains as they are. *)

(* Blocks stay covered where whole chains stay live. *)
LEMMA CoveredKept ==
  ASSUME TypeInv, Ownership, Chaining,
         \A a \in Addr : header'[a].size = header[a].size,
         \A a \in Addr : Live(a)' => Live(a),
         \A a, b \in Addr :
           Live(b)' /\ role[a] = role[b] /\ owner[a] = owner[b] => Live(a)'
  PROVE  Covered'
PROOF
<1> SUFFICES ASSUME NEW b \in Addr, Live(b)'
             PROVE  \E a \in Addr : Starts(a)' /\ b \in Footprint(a)'
  BY DEF Covered
<1>1. PICK a \in Addr : Starts(a) /\ b \in Footprint(a)
  BY DEF Chaining, Covered
<1>2. role[b] = role[a] /\ owner[b] = owner[a]
  BY <1>1 DEF Ownership, Extents1
<1>3. Starts(a)'
  BY <1>1, <1>2 DEF Starts
<1>4. Footprint(a)' = Footprint(a)
  BY DEF Footprint
<1> QED BY <1>1, <1>3, <1>4

(* What is said of the task that takes the step holds after a step that    *)
(* touches none of its chains.                                             *)
LEMMA ContentsResting ==
  ASSUME TypeInv, Ownership, NEW t \in Tasks, Contents(t), Untouched(t),
         head'[t] = head[t], size'[t] = size[t],
         t \in torn' <=> t \in torn, t \in overrun' <=> t \in overrun,
         pc'[t] \notin {"write", "register"}, pc[t] # "register",
         Intact(t)' => Intact(t),
         Freeing(t)' => Freeing(t) /\ cur'[t] = cur[t],
         plan'[t] = {},
         pc'[t] \in {"commit", "layout"}
           => Cardinality(Planned(t)') = Wanted(t)'
  PROVE  Contents(t)'
PROOF
<1> DEFINE F == Chain(t, "file")
           O == Chain(t, "old")
<1>1. F' = F /\ O' = O
  BY ChainSame
<1>2. /\ \A a \in F : header'[a] = header[a]
      /\ \A a \in O : header'[a] = header[a]
  BY ChainSame
<1>3. Intact(t)' => Total(t)' = Total(t)
  BY DEF Total
<1>4. Intact(t) /\ head[t] # None => head[t] \in F
  BY HeadsInChain
<1>6. \A a \in F : header[a].next = None \/ header[a].next \in F
  BY ChainClosed
<1> HIDE DEF F, O
<1>7. SizingOf(t)'
  BY DEF SizingOf
<1>8. LaidOut(t)'
  BY DEF LaidOut
<1>9. Linked(t)'
  BY <1>1, <1>2, ReachesKept DEF Contents, Linked, F, O
<1>10. InOrder(t)'
  BY <1>1, <1>2, <1>3, <1>4, <1>6, AdjacentKept DEF Contents, InOrder, F
<1>11. Amounts(t)'
  <2>1. SizeSum(header', F) = SizeSum(header, F)
    BY <1>2, ChainFinite, SumSame DEF F
  <2> QED BY <1>1, <1>3, <2>1 DEF Contents, Amounts, F
<1> QED BY <1>7, <1>8, <1>9, <1>10, <1>11 DEF Contents

(* The same of the stages. *)
LEMMA StagesResting ==
  ASSUME TypeInv, Ownership, Stages, NEW t \in Tasks,
         role' = role, owner' = owner,
         \A u \in Tasks \ {t} : SameTask(u),
         pc[t] \notin {"commit", "layout", "write"},
         Freeing(t) => Freeing(t)' \/ Held(t, "old") = {},
         op'[t] = "delete" /\ pc'[t] \in {"freeing", "clear"} =>
           op[t] = "delete" /\ pc[t] \in {"freeing", "clear"}
  PROVE  Stages'
PROOF
<1>1. slots[t] = {} /\ plan[t] = {}
  BY DEF Ownership, Control
<1>2. ~\E a \in Addr : PlannedFor(a, t)
  BY <1>1 DEF PlannedFor, Planned
<1>3. \A u \in Tasks \ {t} : \A a \in Addr : PlannedFor(a, u)'
        <=> PlannedFor(a, u)
  BY DEF SameTask, PlannedFor, Planned
<1> SUFFICES ASSUME NEW a \in Addr PROVE Stage(a)'
  BY DEF Stages
<1>4. Stage(a)
  BY DEF Stages
<1>5. Live(a) => owner[a] \in Tasks
  BY DEF Ownership, Bitmaps
<1>6. CASE owner[a] = t
  BY <1>2, <1>4, <1>6 DEF Stage, Held
<1>7. CASE owner[a] # t
  <2>1. role[a] \in {"plan", "new", "old", "file"} => owner[a] \in Tasks \ {t}
    BY <1>4, <1>5, <1>7 DEF Stage, Live
  <2>2. owner[a] \in Tasks \ {t} =>
          /\ pc'[owner[a]] = pc[owner[a]] /\ op'[owner[a]] = op[owner[a]]
    BY DEF SameTask
  <2> QED BY <1>3, <1>4, <2>1, <2>2 DEF Stage, Freeing
<1> QED BY <1>6, <1>7

(* A step that changes no block, header or inode keeps the invariant. *)
LEMMA Resting ==
  ASSUME TypeInv, Ownership, Chaining, NEW t \in Tasks,
         role' = role, owner' = owner, header' = header,
         \A u \in Tasks \ {t} : SameTask(u),
         pc[t] \notin {"commit", "layout", "write", "register"},
         Freeing(t) => Freeing(t)' \/ Held(t, "old") = {},
         op'[t] = "delete" /\ pc'[t] \in {"freeing", "clear"} <=>
           op[t] = "delete" /\ pc[t] \in {"freeing", "clear"},
         head'[t] = head[t], size'[t] = size[t],
         t \in torn' <=> t \in torn, t \in overrun' <=> t \in overrun,
         pc'[t] \notin {"write", "register"},
         Freeing(t)' => Freeing(t) /\ cur'[t] = cur[t],
         plan'[t] = {},
         pc'[t] \in {"commit", "layout"}
           => Cardinality(Planned(t)') = Wanted(t)'
  PROVE  Chaining'
PROOF
<1>1. Stages'
  BY StagesResting DEF Chaining
<1>2. Covered'
  BY CoveredKept DEF Live
<1>3. \A u \in Tasks : Untouched(u)
  BY DEF Untouched
<1>4. \A u \in Tasks \ {t} : Contents(u)'
  BY <1>3, ContentsKept DEF Chaining
<1>5. Intact(t)' => Intact(t)
  BY DEF Intact
<1>6. Contents(t)'
  BY <1>3, <1>5, ContentsResting DEF Chaining
<1> QED BY <1>1, <1>2, <1>4, <1>6 DEF Chaining

-----------------------------------------------------------------------------
(* Each action keeps the invariant. *)

(* A role without extents has no blocks. *)
LEMMA HeldIsChained ==
  ASSUME Ownership, Chaining, NEW t, NEW r \in {"new", "file", "old"},
         Chain(t, r) = {}
  PROVE  Held(t, r) = {}
PROOF
<1> SUFFICES ASSUME NEW b \in Addr, role[b] = r, owner[b] = t PROVE FALSE
  BY DEF Held
<1>1. Live(b)
  BY DEF Live
<1>2. PICK a \in Addr : Starts(a) /\ b \in Footprint(a)
  BY <1>1 DEF Chaining, Covered
<1>3. role[a] = r /\ owner[a] = t
  BY <1>2 DEF Ownership, Extents1
<1> QED BY <1>2, <1>3 DEF Chain, StartsFor

(* There is an old chain only while it is freed. *)
LEMMA NotFreeing ==
  ASSUME Ownership, Stages, NEW t \in Tasks, ~Freeing(t)
  PROVE  Chain(t, "old") = {} /\ Held(t, "old") = {}
BY DEF Stages, Stage, Chain, StartsFor, Held

(* There is a new chain only while it is written. *)
LEMMA NotWriting ==
  ASSUME Ownership, Stages, NEW t \in Tasks, pc[t] # "write"
  PROVE  Chain(t, "new") = {} /\ Held(t, "new") = {}
BY DEF Stages, Stage, Chain, StartsFor, Held

(* What is reserved is what was wanted. *)
LEMMA ReservedSize ==
  ASSUME TypeInv, Ownership, NEW t \in Tasks, NEW S \in SUBSET Slot,
           Reserve(t, S),
         Cardinality(UNION {BlocksOf(s) : s \in S}) = Wanted(t),
           pc[t] = "alloc"
  PROVE  Cardinality(Planned(t)') = Wanted(t)'
PROOF
<1>1. slots'[t] = S /\ want'[t] = want[t]
  BY DEF Reserve, TypeInv, TypeOK
<1> QED BY <1>1 DEF Planned, Wanted

(* A reservation of as many blocks as are wanted. *)
LEMMA ReserveChaining ==
  ASSUME TypeInv, Ownership, Chaining, NEW t \in Tasks, NEW S \in SUBSET Slot,
         Reserve(t, S), pc[t] = "alloc",
         Cardinality(UNION {BlocksOf(s) : s \in S}) = Wanted(t)
  PROVE  Chaining'
PROOF
<1> USE DEF TypeInv, TypeOK, Reserve, Goto, device, history
<1>1. plan'[t] = {}
  BY DEF Ownership, Control
<1>2. \A u \in Tasks \ {t} : SameTask(u)
  BY DEF SameTask
<1>3. pc' = [pc EXCEPT ![t] = "commit"] /\ pc'[t] = "commit"
  OBVIOUS
<1>4. Cardinality(Planned(t)') = Wanted(t)'
  BY ReservedSize
<1>5. ~Freeing(t) /\ ~Freeing(t)'
  BY <1>3 DEF Freeing
<1> QED BY <1>1, <1>2, <1>3, <1>4, <1>5, Resting

(* A contiguous reservation is as long as what is wanted. *)
LEMMA PlanContiguousChaining ==
  ASSUME TypeInv, Ownership, Chaining, NEW t \in Tasks, PlanContiguous(t)
  PROVE  Chaining'
PROOF
<1>1. PICK a \in Addr : /\ Fits(a, Wanted(t))
                        /\ Reserve(t, {[addr |-> a, count |-> Wanted(t)]})
  BY DEF PlanContiguous
<1>2. Wanted(t) \in Nat /\ Wanted(t) > 0 /\ pc[t] = "alloc"
  BY BlocksNeededType DEF PlanContiguous, CanPlan, Wanted, TypeInv, TypeOK
<1> DEFINE s == [addr |-> a, count |-> Wanted(t)]
<1>3. Wanted(t) \in 1 .. BlocksPerGroup
  BY <1>1, <1>2, RunFitsGroup DEF Fits
<1>4. {s} \in SUBSET Slot
  BY <1>3 DEF Slot
<1>5. UNION {BlocksOf(r) : r \in {s}} = a .. (a + Wanted(t) - 1)
  BY DEF BlocksOf, RunFrom
<1>6. Cardinality(a .. (a + Wanted(t) - 1)) = Wanted(t)
  <2> DEFINE b == a + Wanted(t) - 1
  <2>1. a \in Int /\ b \in Int /\ ~(a > b) /\ b - a + 1 = Wanted(t)
    BY <1>2 DEF Addr
  <2> HIDE DEF b
  <2>2. Cardinality(a .. b) = Wanted(t)
    BY <2>1, FS_Interval
  <2> QED BY <2>2 DEF b
<1> QED BY <1>1, <1>2, <1>4, <1>5, <1>6, ReserveChaining

(* So are the runs of the lowest free blocks. *)
LEMMA PlanFragmentsChaining ==
  ASSUME TypeInv, Ownership, Chaining, NEW t \in Tasks, PlanFragments(t)
  PROVE  Chaining'
PROOF
<1> DEFINE L == Lowest(Free, Wanted(t))
<1>1. Reserve(t, RunsOf(L)) /\ pc[t] = "alloc"
        /\ Cardinality(Free) >= Wanted(t)
  BY DEF PlanFragments, CanPlan
<1>2. Wanted(t) \in Nat
  BY BlocksNeededType DEF Wanted, TypeInv, TypeOK
<1>3. Free \in SUBSET Addr /\ Cardinality(Free) \in Nat
  <2>1. Free \in SUBSET Addr
    BY DEF Free
  <2> QED BY <2>1, AddrFinite, FS_Subset, FS_CardinalityType
<1>4. L \in SUBSET Addr /\ Cardinality(L) = Wanted(t)
  BY <1>1, <1>2, <1>3, LowestCount
<1> HIDE DEF L
<1>5. UNION {BlocksOf(s) : s \in RunsOf(L)} = L
  BY <1>4, RunsCover
<1>6. RunsOf(L) \in SUBSET Slot
  BY RunsOfFree
<1>7. Cardinality(UNION {BlocksOf(s) : s \in RunsOf(L)}) = Wanted(t)
  BY <1>4, <1>5
<1> QED BY <1>1, <1>6, <1>7, ReserveChaining

(* An operation starts with reading. *)
LEMMA BeginChaining ==
  ASSUME TypeInv, Ownership, Chaining, NEW t \in Tasks, Begin(t)
  PROVE  Chaining'
PROOF
<1> USE DEF TypeInv, TypeOK, Start, Goto, device, history
<1>1. pc[t] = "idle" /\ plan[t] = {} /\ op[t] = "write"
  BY DEF Begin, StartWrite, StartRewrite, StartAppend, StartDelete,
     Ownership, Control
<1>2. /\ role' = role /\ owner' = owner /\ header' = header /\ head' = head
      /\ size' = size /\ torn' = torn /\ overrun' = overrun /\ plan' = plan
      /\ \A u \in Tasks \ {t} : SameTask(u)
  BY DEF Begin, StartWrite, StartRewrite, StartAppend, StartDelete, SameTask
<1>3. \/ pc'[t] \in {"alloc", "walk"}
      \/ pc'[t] = "free" /\ op'[t] = "delete"
  BY DEF Begin, StartWrite, StartRewrite, StartAppend, StartDelete
<1>4. ~Freeing(t) /\ ~Freeing(t)'
  BY <1>1, <1>3 DEF Freeing
<1> QED BY <1>1, <1>2, <1>3, <1>4, Resting

(* The walk to the last extent only reads. *)
LEMMA WalkChaining ==
  ASSUME TypeInv, Ownership, Chaining, NEW t \in Tasks,
         WalkExtent(t) \/ WalkDone(t)
  PROVE  Chaining'
PROOF
<1> USE DEF TypeInv, TypeOK, Goto, device, history
<1>1. pc[t] = "walk" /\ plan[t] = {} /\ op[t] = "append"
  BY DEF WalkExtent, WalkDone, Ownership, Control
<1>2. /\ role' = role /\ owner' = owner /\ header' = header /\ head' = head
      /\ size' = size /\ torn' = torn /\ overrun' = overrun /\ plan' = plan
      /\ op' = op
      /\ \A u \in Tasks \ {t} : SameTask(u)
  BY DEF WalkExtent, WalkDone, SameTask
<1>3. pc'[t] \in {"alloc", "walk"}
  BY <1>1 DEF WalkExtent, WalkDone
<1>4. ~Freeing(t) /\ ~Freeing(t)'
  BY <1>1, <1>3 DEF Freeing
<1> QED BY <1>1, <1>2, <1>3, <1>4, Resting

(* An allocation that fails, or of nothing, plans nothing. *)
LEMMA PlanNoneChaining ==
  ASSUME TypeInv, Ownership, Chaining, NEW t \in Tasks,
         PlanInsufficient(t) \/ PlanNothing(t)
  PROVE  Chaining'
PROOF
<1> USE DEF TypeInv, TypeOK, Goto, device, history, CanPlan, Return
<1>1. pc[t] = "alloc" /\ plan[t] = {} /\ slots[t] = {} /\ op[t] # "delete"
  BY DEF PlanInsufficient, PlanNothing, Ownership, Control
<1>2. /\ role' = role /\ owner' = owner /\ header' = header /\ head' = head
      /\ size' = size /\ torn' = torn /\ overrun' = overrun /\ plan'[t] = {}
      /\ op'[t] # "delete"
      /\ \A u \in Tasks \ {t} : SameTask(u)
  BY <1>1 DEF PlanInsufficient, PlanNothing, SameTask
<1>3. pc'[t] = "idle" \/ (pc'[t] = "layout" /\ slots'[t] = {}
        /\ want'[t] = want[t] /\ Wanted(t) = 0)
  BY <1>1 DEF PlanInsufficient, PlanNothing
<1>4. ~Freeing(t) /\ ~Freeing(t)'
  BY <1>1, <1>3 DEF Freeing
<1>5. pc'[t] = "layout" => Cardinality(Planned(t)') = Wanted(t)'
  <2> SUFFICES ASSUME slots'[t] = {}, want'[t] = want[t], Wanted(t) = 0
               PROVE  Cardinality(Planned(t)') = Wanted(t)'
    BY <1>3
  <2>1. Planned(t)' = {}
    BY DEF Planned
  <2>2. Cardinality({}) = 0
    BY FS_EmptySet
  <2> QED BY <2>1, <2>2 DEF Wanted
<1> QED BY <1>1, <1>2, <1>3, <1>4, <1>5, Resting

(* Freeing ends at the end of the chain: nothing is left of it. *)
LEMMA FreeDoneChaining ==
  ASSUME TypeInv, Ownership, Chaining, NEW t \in Tasks, FreeDone(t)
  PROVE  Chaining'
PROOF
<1> USE DEF TypeInv, TypeOK, Goto, device, history, Return
<1>1. pc[t] = "freeing" /\ plan[t] = {} /\ cur[t] = None
  BY DEF FreeDone, Ownership, Control
<1>2. /\ role' = role /\ owner' = owner /\ header' = header /\ head' = head
      /\ size' = size /\ torn' = torn /\ overrun' = overrun /\ plan'[t] = {}
      /\ \A u \in Tasks \ {t} : SameTask(u)
  BY <1>1 DEF FreeDone, SameTask
<1>3. \/ op[t] = "delete" /\ op'[t] = op[t] /\ pc'[t] = "clear"
      \/ op[t] # "delete" /\ op'[t] # "delete" /\ pc'[t] = "idle"
  BY DEF FreeDone
<1>4. Freeing(t) /\ ~Freeing(t)'
  BY <1>1, <1>3 DEF Freeing
<1>5. Reaches(None, Chain(t, "old"), header)
  BY <1>1, <1>4 DEF Chaining, Contents, Linked
<1>6. Held(t, "old") = {}
  BY <1>5, ReachesNone, HeldIsChained
<1> QED BY <1>1, <1>2, <1>3, <1>4, <1>6, Resting

(* The inode that is cleared has no chain left: it was freed. *)
LEMMA ClearInodeChaining ==
  ASSUME TypeInv, Ownership, Chaining, NEW t \in Tasks, ClearInode(t)
  PROVE  Chaining'
PROOF
<1> USE DEF TypeInv, TypeOK, Goto, Return
<1>1. pc[t] = "clear" /\ op[t] = "delete" /\ plan[t] = {}
  BY DEF ClearInode, Ownership, Control
<1>2. /\ role' = role /\ owner' = owner /\ header' = header /\ torn' = torn
      /\ plan'[t] = {} /\ pc'[t] = "idle" /\ op'[t] = "write"
      /\ head'[t] = None /\ size'[t] = 0
      /\ \A u \in Tasks \ {t} : SameTask(u)
  BY <1>1 DEF ClearInode, SameTask
<1>3. ~Freeing(t) /\ ~Freeing(t)'
  BY <1>1, <1>2 DEF Freeing
<1>4. Stages'
  BY <1>1, <1>2, <1>3, StagesResting DEF Chaining
<1>5. Covered'
  BY <1>2, CoveredKept DEF Live
<1>6. \A u \in Tasks : Untouched(u)
  BY <1>2 DEF Untouched
<1>7. \A u \in Tasks \ {t} : Contents(u)'
  BY <1>2, <1>6, ContentsKept DEF Chaining
<1>8. Chain(t, "file")' = {}
  <2>1. Chain(t, "file") = {}
    BY <1>1 DEF Chaining, Stages, Stage, Chain, StartsFor
  <2> QED BY <1>6, <2>1, ChainSame
<1>9. Contents(t)'
  <2>1. Linked(t)'
    BY <1>2, <1>3, <1>8, NoneReached DEF Linked
  <2>2. InOrder(t)'
    BY <1>2, <1>8 DEF InOrder, Adjacent
  <2>3. Amounts(t)'
    <3>1. SizeSum(header', {}) = 0
      BY SumPick, FS_EmptySet
    <3>2. Total(t)' = 0
      BY <1>2 DEF Total
    <3>3. SizeSum(header', Chain(t, "file")') = 0
      BY <1>8, <3>1
    <3>4. pc'[t] # "write"
      BY <1>2
    <3> HIDE DEF TypeInv, TypeOK, Goto, Return
    <3> QED BY <3>2, <3>3, <3>4 DEF Amounts
  <2> QED BY <1>2, <2>1, <2>2, <2>3 DEF Contents, SizingOf, LaidOut
<1> QED BY <1>4, <1>5, <1>7, <1>9 DEF Chaining

(* The bitmap commit turns free blocks into planned ones. *)
LEMMA CommitChaining ==
  ASSUME TypeInv, Ownership, Chaining, NEW t \in Tasks, CommitBitmap(t)
  PROVE  Chaining'
PROOF
<1> USE DEF TypeInv, TypeOK
<1>1. PICK g \in todo[t] :
        /\ role' = [a \in Addr |-> IF a \in PlannedIn(t, g) THEN "plan"
                                   ELSE role[a]]
        /\ owner' = [a \in Addr |-> IF a \in PlannedIn(t, g) THEN t
                                    ELSE owner[a]]
        /\ IF todo[t] = {g}
           THEN guard' = NoTask /\ Goto(t, "layout")
           ELSE UNCHANGED <<guard, pc>>
  BY DEF CommitBitmap
<1>2. /\ header' = header /\ head' = head /\ size' = size /\ torn' = torn
      /\ overrun' = overrun /\ plan' = plan /\ slots' = slots /\ op' = op
      /\ want' = want /\ link' = link /\ cur' = cur
  BY DEF CommitBitmap
<1>3. pc[t] = "commit" /\ plan[t] = {} /\ pc'[t] \in {"commit", "layout"}
  BY <1>1 DEF CommitBitmap, Ownership, Control, Goto
<1>4. \A u \in Tasks \ {t} : SameTask(u)
  BY <1>1, <1>2 DEF SameTask, Goto
<1>5. \A a \in PlannedIn(t, g) : a \in Planned(t) /\ role[a] = "free"
        /\ role'[a] = "plan" /\ owner'[a] = t
  BY <1>1, PlannedBlocks DEF PlannedIn, Ownership, Allocation
<1>6. \A a \in Addr : a \notin PlannedIn(t, g) => role'[a] = role[a]
        /\ owner'[a] = owner[a]
  BY <1>1
<1>7. ~Freeing(t) /\ ~Freeing(t)'
  BY <1>3 DEF Freeing
<1>8. Stages'
  <2> SUFFICES ASSUME NEW a \in Addr PROVE Stage(a)'
    BY DEF Stages
  <2>1. CASE a \in PlannedIn(t, g)
    <3>1. Planned(t)' = Planned(t)
      BY <1>2 DEF Planned
    <3> QED BY <1>5, <2>1, <3>1 DEF Stage, PlannedFor
  <2>2. CASE a \notin PlannedIn(t, g)
    <3>1. Stage(a) /\ role'[a] = role[a] /\ owner'[a] = owner[a]
      BY <1>6, <2>2 DEF Chaining, Stages
    <3>2. PlannedFor(a, owner[a])' <=> PlannedFor(a, owner[a])
      BY <1>2, <3>1 DEF PlannedFor, Planned
    <3>3. Live(a) => owner[a] \in Tasks
      BY DEF Ownership, Bitmaps
    <3>4. owner[a] \in Tasks \ {t} => pc'[owner[a]] = pc[owner[a]]
            /\ op'[owner[a]] = op[owner[a]]
      BY <1>4 DEF SameTask
    <3>5. op'[t] # "delete"
      BY <1>2, <1>3 DEF Ownership, Control
    <3> QED BY <1>3, <1>7, <3>1, <3>2, <3>3, <3>4, <3>5
               DEF Stage, Freeing, Live
  <2> QED BY <2>1, <2>2
<1>9. Covered'
  BY <1>2, <1>5, <1>6, CoveredKept DEF Live
<1>10. \A u \in Tasks : Untouched(u)
  BY <1>2, <1>5, <1>6 DEF Untouched, Live
<1>11. \A u \in Tasks \ {t} : Contents(u)'
  BY <1>4, <1>10, ContentsKept DEF Chaining
<1>12. Contents(t)'
  <2>1. Cardinality(Planned(t)') = Wanted(t)'
    BY <1>2, <1>3 DEF Chaining, Contents, SizingOf, Planned, Wanted
  <2>2. Intact(t)' => Intact(t)
    BY <1>2, <1>3 DEF Intact
  <2> QED BY <1>2, <1>3, <1>7, <1>10, <2>1, <2>2, ContentsResting DEF Chaining
<1> QED BY <1>8, <1>9, <1>11, <1>12 DEF Chaining

(* A layout that does not fit gives the planned blocks up. *)
LEMMA LayoutMismatchChaining ==
  ASSUME TypeInv, Ownership, Chaining, NEW t \in Tasks, LayoutMismatch(t)
  PROVE  Chaining'
PROOF
<1> USE DEF TypeInv, TypeOK, Goto, device, Return, Turn
<1>1. pc[t] = "layout" /\ plan[t] = {} /\ op[t] # "delete"
  BY DEF LayoutMismatch, Ownership, Control
<1>2. /\ owner' = owner /\ header' = header /\ head' = head
      /\ size' = size /\ torn' = torn /\ overrun' = overrun /\ plan'[t] = {}
      /\ pc'[t] = "idle" /\ op'[t] = "write"
      /\ \A u \in Tasks \ {t} : SameTask(u)
  BY DEF LayoutMismatch, SameTask
<1>3. \A a \in Addr : role'[a] = IF owner[a] = t
        /\ role[a] = "plan" THEN "lost" ELSE role[a]
  BY DEF LayoutMismatch
<1> HIDE DEF TypeInv, TypeOK, Goto, device, Return, Turn
<1>4. ~Freeing(t) /\ ~Freeing(t)'
  BY <1>1, <1>2 DEF Freeing
<1>5. Stages'
  <2> SUFFICES ASSUME NEW a \in Addr PROVE Stage(a)'
    BY DEF Stages
  <2>1. Stage(a)
    BY DEF Chaining, Stages
  <2>2. CASE owner[a] = t
    BY <1>1, <1>2, <1>3, <1>4, <2>1, <2>2 DEF Stage
  <2>3. CASE owner[a] # t
    <3>1. role'[a] = role[a] /\ owner'[a] = owner[a]
      BY <1>2, <1>3, <2>3
    <3>2. role[a] \in {"plan", "new", "old", "file"}
            => owner[a] \in Tasks \ {t}
      BY <2>1, <2>3 DEF Stage, Ownership, Bitmaps, Live
    <3>3. owner[a] \in Tasks \ {t} =>
            /\ pc'[owner[a]] = pc[owner[a]] /\ op'[owner[a]] = op[owner[a]]
            /\ PlannedFor(a, owner[a])' <=> PlannedFor(a, owner[a])
      BY <1>2, <3>1 DEF SameTask, PlannedFor, Planned
    <3> QED BY <2>1, <3>1, <3>2, <3>3 DEF Stage, Freeing
  <2> QED BY <2>2, <2>3
<1>6. Covered'
  BY <1>2, <1>3, CoveredKept DEF Live
<1>7. \A u \in Tasks : Untouched(u)
  BY <1>2, <1>3 DEF Untouched, Live
<1>8. \A u \in Tasks \ {t} : Contents(u)'
  BY <1>2, <1>7, ContentsKept DEF Chaining
<1>9. Contents(t)'
  <2>1. Intact(t)' => Intact(t)
    BY <1>1, <1>2 DEF Intact
  <2>2. head'[t] = head[t] /\ size'[t] = size[t]
          /\ pc'[t] \notin {"write", "register"}
        /\ pc'[t] \notin {"commit", "layout"} /\ pc[t] # "register"
    BY <1>1, <1>2
  <2> QED BY <1>2, <1>4, <1>7, <2>1, <2>2, ContentsResting DEF Chaining
<1> QED BY <1>5, <1>6, <1>8, <1>9 DEF Chaining

(* The slot s with its data, as Layout plans it. *)
Laid(t, s) ==
  [addr |-> s.addr, count |-> s.count, bytes |-> Chunk(t, s),
   from |-> Offset(t, s) + Base(t)]

(* The payload is of the blocks and the addresses alone. *)
LEMMA SamePayload ==
  ASSUME NEW S, NEW T, BlocksIn(S) = BlocksIn(T), AddrsIn(S) = AddrsIn(T)
  PROVE  Payload(S) = Payload(T)
BY DEF Payload, BlocksIn, AddrsIn

(* Laying out keeps where slots are and in which order. *)
LEMMA LayoutPlan ==
  ASSUME TypeInv, Ownership, Chaining, NEW t \in Tasks, Layout(t)
  PROVE  /\ plan'[t] = {Laid(t, s) : s \in slots[t]}
         /\ \A s \in slots[t] :
              /\ BlocksOf(Laid(t, s)) = BlocksOf(s)
              /\ Payload(Below(plan'[t], Laid(t,
                   s))) = Payload(Below(slots[t], s))
              /\ Topmost(plan'[t], Laid(t, s)) <=> Topmost(slots[t], s)
              /\ Room(Laid(t, s)) = Room(s)
PROOF
<1>1. SizingOf(t) /\ pc[t] = "layout" /\ want[t] <= Payload(slots[t])
  BY DEF Chaining, Contents, Layout
<1>2. \A s \in slots[t] : Chunk(t, s) > 0
  BY <1>1, LayoutFills
<1>3. plan'[t] = {Laid(t, s) : s \in slots[t]}
  <2>1. {r \in slots[t] : Chunk(t, r) > 0} = slots[t]
    BY <1>2
  <2> QED BY <2>1 DEF Layout, Laid, Base, TypeInv, TypeOK
<1>4. \A s \in slots[t] : /\ Laid(t, s).addr = s.addr
        /\ Laid(t, s).count = s.count
                          /\ BlocksOf(Laid(t, s)) = BlocksOf(s)
                          /\ Room(Laid(t, s)) = Room(s)
  BY DEF Laid, BlocksOf, Room
<1> ASSUME NEW s \in slots[t]
    PROVE  /\ Payload(Below(plan'[t], Laid(t, s))) = Payload(Below(slots[t],
             s))
           /\ Topmost(plan'[t], Laid(t, s)) <=> Topmost(slots[t], s)
  <2>1. Topmost(plan'[t], Laid(t, s)) <=> Topmost(slots[t], s)
    BY <1>3, <1>4 DEF Topmost
  <2>2. Below(plan'[t], Laid(t, s)) = {Laid(t, r) : r \in Below(slots[t], s)}
    BY <1>3, <1>4 DEF Below
  <2>3. Below(slots[t], s) \subseteq slots[t]
    BY DEF Below
  <2> DEFINE A == Below(slots[t], s)
  <2> HIDE DEF A
  <2>4. /\ BlocksIn({Laid(t, r) : r \in A}) = BlocksIn(A)
        /\ AddrsIn({Laid(t, r) : r \in A}) = AddrsIn(A)
    BY <1>4, <2>3 DEF BlocksIn, AddrsIn, A
  <2> QED BY <2>1, <2>2, <2>4, SamePayload DEF A
<1> QED BY <1>3, <1>4

(* Laying out fills the slots as LaidOut says. *)
LEMMA LayoutChaining ==
  ASSUME TypeInv, Ownership, Chaining, NEW t \in Tasks, Layout(t)
  PROVE  Chaining'
PROOF
<1> USE DEF TypeInv, TypeOK, Goto, device, history
<1>1. pc[t] = "layout" /\ plan[t] = {} /\ op[t] # "delete" /\ link[t] = None
      /\ want[t] <= Payload(slots[t]) /\ t \notin torn
  BY DEF Layout, Ownership, Control
<1>2. /\ role' = role /\ owner' = owner /\ header' = header /\ head' = head
      /\ size' = size /\ torn' = torn /\ overrun' = overrun
      /\ pc'[t] = "write" /\ op' = op /\ link' = link /\ want' = want
      /\ slots'[t] = {} /\ cur' = cur
      /\ \A u \in Tasks \ {t} : SameTask(u)
  BY DEF Layout, SameTask
<1>3. want[t] \in Nat /\ size[t] \in Nat
  OBVIOUS
<1> HIDE DEF TypeInv, TypeOK, Goto, device, history
<1>4. ~Freeing(t) /\ ~Freeing(t)'
  BY <1>1, <1>2 DEF Freeing
<1>5. /\ plan'[t] = {Laid(t, s) : s \in slots[t]}
      /\ \A s \in slots[t] :
           /\ BlocksOf(Laid(t, s)) = BlocksOf(s)
           /\ Payload(Below(plan'[t], Laid(t, s))) = Payload(Below(slots[t],
                s))
           /\ Topmost(plan'[t], Laid(t, s)) <=> Topmost(slots[t], s)
           /\ Room(Laid(t, s)) = Room(s)
  BY LayoutPlan
<1>6. Stages'
  <2> SUFFICES ASSUME NEW a \in Addr PROVE Stage(a)'
    BY DEF Stages
  <2>1. Stage(a)
    BY DEF Chaining, Stages
  <2>2. CASE owner[a] = t
    <3>1. PlannedFor(a, t) => PlannedFor(a, t)'
      BY <1>1, <1>5 DEF PlannedFor, Planned
    <3> QED BY <1>1, <1>2, <1>4, <2>1, <2>2, <3>1 DEF Stage
  <2>3. CASE owner[a] # t
    <3>1. role'[a] = role[a] /\ owner'[a] = owner[a]
      BY <1>2
    <3>2. role[a] \in {"plan", "new", "old", "file"}
            => owner[a] \in Tasks \ {t}
      BY <2>1, <2>3 DEF Stage, Ownership, Bitmaps, Live
    <3>3. owner[a] \in Tasks \ {t} =>
            /\ pc'[owner[a]] = pc[owner[a]] /\ op'[owner[a]] = op[owner[a]]
            /\ PlannedFor(a, owner[a])' <=> PlannedFor(a, owner[a])
      BY <1>2, <3>1 DEF SameTask, PlannedFor, Planned
    <3> QED BY <2>1, <3>1, <3>2, <3>3 DEF Stage, Freeing
  <2> QED BY <2>2, <2>3
<1>7. Covered'
  BY <1>2, CoveredKept DEF Live
<1>8. \A u \in Tasks : Untouched(u)
  BY <1>2 DEF Untouched
<1>9. \A u \in Tasks \ {t} : Contents(u)'
  BY <1>2, <1>8, ContentsKept DEF Chaining
<1>10. Contents(t)'
  <2> DEFINE N == Chain(t, "new")
             F == Chain(t, "file")
  <2>1. N = {} /\ N' = N /\ F' = F
    <3>1. N = {}
      BY <1>1, NotWriting DEF Chaining
    <3> QED BY <1>8, <3>1, ChainSame
  <2>2. Base(t)' = Base(t) /\ Base(t) \in Nat /\ Limit(t)' = Base(t) + want[t]
    BY <1>1, <1>2, <1>3 DEF Base, Limit
  <2>3. Intact(t) /\ Total(t)' = Total(t) /\ Total(t) = size[t]
    BY <1>1, <1>2, <1>3 DEF Intact, Total
  <2>4. Contents(t)
    BY DEF Chaining
  <2> HIDE DEF N, F
  <2>5. \A s \in slots[t] :
          /\ Offset(t, s) = Payload(Below(slots[t], s)) /\ Offset(t, s) \in Nat
          /\ Chunk(t, s) \in Nat \ {0}
          /\ BlocksFor(HeaderSize + Chunk(t, s)) = s.count
          /\ IF Topmost(slots[t], s) THEN Offset(t, s) + Chunk(t, s) = want[t]
                                     ELSE Chunk(t, s) = Room(s)
    BY <1>1, <2>4, LayoutFills DEF Contents
  <2>6. SizingOf(t)'
    BY <1>2, <1>5, <2>5 DEF SizingOf, Laid
  <2>7. LaidOut(t)'
    <3>1. ASSUME NEW s \in slots[t]
          PROVE  /\ Laid(t, s).from = Base(t) + Payload(Below(plan'[t],
                   Laid(t, s)))
                 /\ IF Topmost(plan'[t], Laid(t, s))
                    THEN Laid(t, s).from + Laid(t, s).bytes = Base(t) + want[t]
                    ELSE Laid(t, s).bytes = Room(Laid(t, s))
      <4>1. Laid(t, s).from = Offset(t, s) + Base(t)
              /\ Laid(t, s).bytes = Chunk(t, s)
        BY DEF Laid
      <4>2. Offset(t, s) = Payload(Below(plan'[t], Laid(t, s)))
              /\ Offset(t, s) \in Nat
        BY <1>5, <2>5
      <4>3. Chunk(t, s) \in Nat
        BY <2>5
      <4>4. CASE Topmost(slots[t], s)
        BY <1>3, <1>5, <2>2, <2>5, <4>1, <4>2, <4>3, <4>4
      <4>5. CASE ~Topmost(slots[t], s)
        BY <1>5, <2>2, <2>5, <4>1, <4>2, <4>3, <4>5
      <4> QED BY <4>4, <4>5
    <3>2. plan'[t] = {} => Limit(t)' = Base(t)
      <4> SUFFICES ASSUME plan'[t] = {} PROVE want[t] = 0
        BY <2>2
      <4>1. slots[t] = {}
        BY <1>5
      <4> QED BY <1>1, <2>4, <4>1, NothingWanted DEF Contents
    <3> QED BY <1>5, <2>2, <3>1, <3>2 DEF LaidOut
  <2>8. Linked(t)'
    <3>1. Reaches(link[t], N, header)
      BY <1>1, <2>1, NoneReached
    <3> QED BY <1>2, <1>4, <2>1, <2>3, <2>4, <3>1 DEF Contents, Linked, N, F
  <2>9. InOrder(t)'
    <3>1. Adjacent(N', header', Base(t) + want[t])
      BY <2>1 DEF Adjacent
    <3> QED BY <1>2, <2>1, <2>2, <2>3, <2>4, <3>1 DEF Contents, InOrder, N, F
  <2>10. Amounts(t)'
    <3>1. SizeSum(header', N') = 0
      BY <2>1, SumPick, FS_EmptySet
    <3>2. Base(t) + want[t] - (Base(t) + want[t]) = 0
      BY <1>3, <2>2
    <3> QED BY <1>2, <2>1, <2>2, <2>3, <2>4, <3>1, <3>2
               DEF Contents, Amounts, N, F
  <2> QED BY <2>6, <2>7, <2>8, <2>9, <2>10 DEF Contents
<1> QED BY <1>6, <1>7, <1>9, <1>10 DEF Chaining

(* A block of another task stays at its stage. *)
LEMMA StageElsewhere ==
  ASSUME Ownership, Stages, NEW t \in Tasks, NEW a \in Addr, owner[a] # t,
         role'[a] = role[a], owner'[a] = owner[a],
         \A u \in Tasks \ {t} : SameTask(u)
  PROVE  Stage(a)'
PROOF
<1>1. Stage(a)
  BY DEF Stages
<1>2. role[a] \in {"plan", "new", "old", "file"} => owner[a] \in Tasks \ {t}
  BY <1>1 DEF Stage, Ownership, Bitmaps, Live
<1>3. owner[a] \in Tasks \ {t} =>
        /\ pc'[owner[a]] = pc[owner[a]] /\ op'[owner[a]] = op[owner[a]]
        /\ PlannedFor(a, owner[a])' <=> PlannedFor(a, owner[a])
  BY DEF SameTask, PlannedFor, Planned
<1> QED BY <1>1, <1>2, <1>3 DEF Stage, Freeing

(* The write of an extent takes the last of the slots left and links it to *)
(* the chain written before.                                               *)
LEMMA WriteEffect ==
  ASSUME TypeInv, Ownership, Chaining, NEW t \in Tasks, WriteExtent(t)
  PROVE  \E s \in plan[t] :
           /\ Topmost(plan[t], s) /\ s.addr \in Addr /\ s.addr \in BlocksOf(s)
           /\ s.bytes \in Nat \ {0} /\ s.from \in Int
           /\ BlocksFor(HeaderSize + s.bytes) = s.count
           /\ BlocksOf(s) \subseteq Addr
           /\ \A a \in BlocksOf(s) : /\ role[a] = "plan" /\ owner[a] = t
                                     /\ role'[a] = "new" /\ owner'[a] = t
           /\ \A a \in Addr : a \notin BlocksOf(s) =>
                /\ role'[a] = role[a] /\ owner'[a] = owner[a]
                /\ header'[a] = header[a]
           /\ header'[s.addr] = [size |-> s.bytes, next |-> link[t],
                from |-> s.from]
           /\ \A a \in BlocksOf(s) : a # s.addr => header'[a].size = 0
           /\ link'[t] = s.addr
           /\ plan'[t] = plan[t] \ {s}
PROOF
<1> USE DEF TypeInv, TypeOK
<1>1. PICK s \in HighestSlot(t) :
       /\ header' = [a \in Addr |->
            IF a = s.addr
            THEN [size |-> s.bytes, next |-> NextOf(t, s), from |-> s.from]
            ELSE IF a \in BlocksOf(s) THEN Blank
            ELSE header[a]]
       /\ role' = [a \in Addr |-> IF a \in BlocksOf(s) THEN "new"
                                  ELSE role[a]]
       /\ link' = [link EXCEPT ![t] = s.addr]
       /\ plan' = [plan EXCEPT ![t] = @ \ {s}]
  BY DEF WriteExtent
<1>2. s \in plan[t] /\ Topmost(plan[t], s) /\ owner' = owner
  BY <1>1 DEF WriteExtent, HighestSlot, Topmost
<1>3. s.addr \in Addr /\ s.bytes \in Nat \ {0} /\ s.from \in Int
  BY <1>2 DEF SerialSlot
<1>4. BlocksOf(s) \subseteq Addr /\ s.addr \in BlocksOf(s)
  <2>1. SlotSet(plan[t])
    BY SlotsTyped
  <2> QED BY <1>2, <2>1, BlocksOfSlot DEF SlotSet
<1>5. \A a \in BlocksOf(s) : role[a] = "plan" /\ owner[a] = t
  BY <1>2 DEF Ownership, Allocation
<1>6. BlocksFor(HeaderSize + s.bytes) = s.count
  BY <1>2 DEF Chaining, Contents, SizingOf
<1>7. header'[s.addr] = [size |-> s.bytes, next |-> link[t], from |-> s.from]
  BY <1>1, <1>3 DEF NextOf
<1>8. \A a \in BlocksOf(s) : a # s.addr => header'[a].size = 0
  BY <1>1, <1>4 DEF Blank
<1>9. \A a \in BlocksOf(s) : role'[a] = "new" /\ owner'[a] = t
  BY <1>1, <1>2, <1>4, <1>5
<1>10. \A a \in Addr : a \notin BlocksOf(s) =>
                /\ role'[a] = role[a] /\ owner'[a] = owner[a]
                /\ header'[a] = header[a]
  BY <1>1, <1>2, <1>4
<1>11. link'[t] = s.addr /\ plan'[t] = plan[t] \ {s}
  BY <1>1
<1> QED BY <1>2, <1>3, <1>4, <1>5, <1>6, <1>7, <1>8, <1>9, <1>10, <1>11

(* The extent written goes before the others, and ends where they begin. *)
LEMMA WriteChaining ==
  ASSUME TypeInv, Ownership, Chaining, NEW t \in Tasks, WriteExtent(t)
  PROVE  Chaining'
PROOF
<1>1. PICK s \in plan[t] :
           /\ Topmost(plan[t], s) /\ s.addr \in Addr /\ s.addr \in BlocksOf(s)
           /\ s.bytes \in Nat \ {0} /\ s.from \in Int
           /\ BlocksFor(HeaderSize + s.bytes) = s.count
           /\ BlocksOf(s) \subseteq Addr
           /\ \A a \in BlocksOf(s) : /\ role[a] = "plan" /\ owner[a] = t
                                     /\ role'[a] = "new" /\ owner'[a] = t
           /\ \A a \in Addr : a \notin BlocksOf(s) =>
                /\ role'[a] = role[a] /\ owner'[a] = owner[a]
                /\ header'[a] = header[a]
           /\ header'[s.addr] = [size |-> s.bytes, next |-> link[t],
                from |-> s.from]
           /\ \A a \in BlocksOf(s) : a # s.addr => header'[a].size = 0
           /\ link'[t] = s.addr
           /\ plan'[t] = plan[t] \ {s}
  BY WriteEffect
<1>2. /\ pc[t] = "write" /\ pc' = pc /\ op' = op /\ want' = want
        /\ slots' = slots
      /\ head' = head /\ size' = size /\ torn' = torn /\ overrun' = overrun
      /\ cur' = cur
      /\ \A u \in Tasks \ {t} : SameTask(u)
  BY DEF WriteExtent, TypeInv, TypeOK, SameTask
<1>3. \A u \in Tasks \ {t} : Untouched(u)
  BY <1>1 DEF Untouched, Live
<1>4. \A u \in Tasks \ {t} : Contents(u)'
  BY <1>2, <1>3, ContentsKept DEF Chaining
<1>5. SlotSet(plan[t]) /\ slots[t] = {} /\ op[t] # "delete" /\ ~Freeing(t)
      /\ t \notin torn
  BY <1>2, SlotsTyped DEF Ownership, Control, Freeing
<1>6. Stages'
  <2> SUFFICES ASSUME NEW a \in Addr PROVE Stage(a)'
    BY DEF Stages
  <2>1. Stage(a)
    BY DEF Chaining, Stages
  <2>2. CASE a \in BlocksOf(s)
    BY <1>1, <1>2, <2>2 DEF Stage
  <2>3. CASE a \notin BlocksOf(s) /\ owner[a] = t
    <3>1. role'[a] = role[a] /\ owner'[a] = owner[a]
      BY <1>1, <2>3
    <3>2. PlannedFor(a, t) => PlannedFor(a, t)'
      BY <1>1, <1>5, <2>3 DEF PlannedFor, Planned
    <3> QED BY <1>2, <1>5, <2>1, <2>3, <3>1, <3>2 DEF Stage
  <2>4. CASE a \notin BlocksOf(s) /\ owner[a] # t
    BY <1>1, <1>2, <2>4, StageElsewhere DEF Chaining
  <2> QED BY <2>2, <2>3, <2>4
<1>7. Covered'
  <2> SUFFICES ASSUME NEW b \in Addr, Live(b)'
               PROVE  \E a \in Addr : Starts(a)' /\ b \in Footprint(a)'
    BY DEF Covered
  <2>1. CASE b \in BlocksOf(s)
    <3>1. Starts(s.addr)'
      BY <1>1 DEF Starts, Live
    <3>2. Footprint(s.addr)' = BlocksOf(s)
      BY <1>1 DEF Footprint, BlocksOf
    <3> QED BY <1>1, <2>1, <3>1, <3>2
  <2>2. CASE b \notin BlocksOf(s)
    <3>1. Live(b)
      BY <1>1, <2>2 DEF Live
    <3>2. PICK a \in Addr : Starts(a) /\ b \in Footprint(a)
      BY <3>1 DEF Chaining, Covered
    <3>3. a \notin BlocksOf(s)
      BY <1>1, <3>2 DEF Starts, Live
    <3>4. Starts(a)' /\ Footprint(a)' = Footprint(a)
      BY <1>1, <3>2, <3>3 DEF Starts, Live, Footprint
    <3> QED BY <3>2, <3>4
  <2> QED BY <2>1, <2>2
<1> DEFINE N == Chain(t, "new")
           F == Chain(t, "file")
           x == s.addr
<1>8. /\ N' = N \cup {x} /\ x \notin N /\ F' = F
      /\ \A a \in N : header'[a] = header[a]
      /\ \A a \in F : header'[a] = header[a]
  <2>1. \A a \in BlocksOf(s) : a \notin N /\ a \notin F /\ a \notin F'
    BY <1>1 DEF Chain, StartsFor
  <2>2. \A a \in BlocksOf(s) : a \in N' <=> a = x
    BY <1>1 DEF Chain, StartsFor, Starts, Live
  <2>3. \A a \in Addr : a \notin BlocksOf(s) => (a \in N' <=> a \in N)
          /\ (a \in F' <=> a \in F)
    BY <1>1 DEF Chain, StartsFor, Starts, Live
  <2>4. N' \in SUBSET Addr /\ N \in SUBSET Addr /\ F' \in SUBSET Addr
          /\ F \in SUBSET Addr
    BY DEF Chain
  <2> QED BY <1>1, <2>1, <2>2, <2>3, <2>4
<1>9. /\ Base(t)' = Base(t) /\ Base(t) \in Int /\ want[t] \in Int
      /\ Limit(t)' = s.from
      /\ s.from + s.bytes = Limit(t)
      /\ Intact(t) /\ Intact(t)' /\ Total(t)' = Total(t)
      /\ ~Freeing(t)'
  <2>1. LaidOut(t)
    BY DEF Chaining, Contents
  <2>2. s.from + s.bytes = Limit(t)
    BY <1>1, <1>2, <2>1 DEF LaidOut
  <2>3. Limit(t)' = s.from
    BY <1>1 DEF Limit, None, Addr
  <2> QED BY <1>2, <1>5, <2>2, <2>3
             DEF Base, Intact, Total, TypeInv, TypeOK, Freeing
<1>10. Contents(t)
  BY DEF Chaining
<1>11. /\ \A a \in N : header[a].next = None \/ header[a].next \in N
       /\ \A a \in F : header[a].next = None \/ header[a].next \in F
       /\ link[t] # None => link[t] \in N
       /\ head[t] # None => head[t] \in F
  BY <1>2, <1>9, ChainClosed, HeadsInChain
<1>12. /\ IsFiniteSet(N) /\ \A a \in N : header[a].size \in Nat
       /\ IsFiniteSet(F)
  BY ChainFinite
<1> HIDE DEF N, F
<1>13. SizingOf(t)'
  BY <1>1, <1>2, <1>10 DEF Contents, SizingOf
<1>14. LaidOut(t)'
  <2>1. ASSUME NEW r \in plan'[t]
        PROVE  /\ r.from = Base(t) + Payload(Below(plan'[t], r))
               /\ IF Topmost(plan'[t], r) THEN r.from + r.bytes = s.from
                                          ELSE r.bytes = Room(r)
    <3>1. r \in plan[t] /\ r # s
      BY <1>1, <2>1
    <3>2. /\ r.addr # s.addr /\ r.addr \in Int /\ s.addr \in Int
          /\ r.addr < s.addr
      BY <1>1, <1>5, <3>1, SlotBlocks DEF SlotSet, Topmost, Addr
    <3>3. Below(plan'[t], r) = Below(plan[t], r) /\ ~Topmost(plan[t], r)
      BY <1>1, <3>1, <3>2 DEF Below, Topmost
    <3>4. r.from = Base(t) + Payload(Below(plan[t], r)) /\ r.bytes = Room(r)
      BY <1>2, <1>10, <3>1, <3>3 DEF Contents, LaidOut
    <3>5. CASE Topmost(plan'[t], r)
      <4>1. SlotSet(plan'[t])
        BY <1>1, <1>5, SlotSubset
      <4>2. Below(plan'[t], r) = plan'[t] \ {r}
        BY <2>1, <3>5, <4>1, TopIsAbove
      <4>3. Payload(plan'[t]) = Payload(plan'[t] \ {r}) + Room(r)
              /\ Room(r) \in Nat
        BY <2>1, <4>1, PayloadAdd
      <4>4. Below(plan[t], s) = plan'[t]
        BY <1>1, <1>5, TopIsAbove
      <4>5. s.from = Base(t) + Payload(plan'[t])
        BY <1>1, <1>2, <1>10, <4>4 DEF Contents, LaidOut
      <4>6. Payload(plan'[t] \ {r}) \in Nat /\ Payload(plan'[t]) \in Nat
        BY <4>1, SlotSubset, PayloadOf
      <4>7. r.from = Base(t) + Payload(plan'[t] \ {r})
        BY <3>3, <3>4, <4>2
      <4>8. r.from + r.bytes = s.from
        BY <1>9, <3>4, <4>3, <4>5, <4>6, <4>7
      <4> QED BY <3>3, <3>4, <3>5, <4>8
    <3> QED BY <3>3, <3>4, <3>5
  <2>2. ASSUME plan'[t] = {} PROVE s.from = Base(t)
    <3>1. Below(plan[t], s) = {}
      BY <1>1, <1>5, <2>2, TopIsAbove
    <3>2. s.from = Base(t) + Payload({})
      BY <1>1, <1>2, <1>10, <3>1 DEF Contents, LaidOut
    <3> QED BY <1>9, <3>2, PayloadNone
  <2> QED BY <1>9, <2>1, <2>2 DEF LaidOut
<1>15. Linked(t)'
  <2>1. Reaches(link[t], N, header)
    BY <1>2, <1>10 DEF Contents, Linked, N
  <2>2. \A a \in N : header'[a].next = header[a].next
    BY <1>8
  <2>3. header'[x].next = link[t]
    BY <1>1
  <2>4. Reaches(x, N \cup {x}, header')
    BY <1>1, <2>1, <2>2, <2>3, ReachesPrepend
  <2>5. Reaches(head[t], F, header')
    BY <1>8, <1>9, <1>10, ReachesKept DEF Contents, Linked, F
  <2> QED BY <1>1, <1>2, <1>8, <1>9, <2>4, <2>5 DEF Linked, N, F
<1>16. InOrder(t)'
  <2>1. Adjacent(N, header, Base(t) + want[t])
    BY <1>2, <1>10 DEF Contents, InOrder, N
  <2>2. \A a \in N : header'[a].next # None
          => header'[header'[a].next] = header[header[a].next]
    BY <1>8, <1>11
  <2>3. header'[x].from + header'[x].size
          = IF header'[x].next
            = None THEN Base(t) + want[t] ELSE header'[header'[x].next].from
    BY <1>1, <1>8, <1>9, <1>11 DEF Limit
  <2>4. Adjacent(N \cup {x}, header', Base(t) + want[t])
    BY <1>8, <2>1, <2>2, <2>3 DEF Adjacent
  <2>5. t \notin overrun => Adjacent(F, header', Total(t))
          /\ (head[t] # None => header'[head[t]].from = 0)
    BY <1>8, <1>9, <1>10, <1>11, AdjacentKept DEF Contents, InOrder, F
  <2> QED BY <1>2, <1>8, <1>9, <2>4, <2>5 DEF InOrder, N, F
<1>17. Amounts(t)'
  <2>1. SizeSum(header', F) = SizeSum(header, F)
    BY <1>8, <1>12, SumSame
  <2>2. SizeSum(header', N) = SizeSum(header, N)
    BY <1>8, <1>12, SumSame
  <2>3. \A a \in N \cup {x} : header'[a].size \in Nat
    BY <1>1, <1>8, <1>12
  <2>4. SizeSum(header', N) \in Nat
          /\ SizeSum(header', N \cup {x}) = SizeSum(header',
               N) + header'[x].size
    <3>1. IsFiniteSet(N) /\ x \notin N
      BY <1>8, <1>12
    <3> HIDE DEF x
    <3> QED BY <2>3, <3>1, SumAdd
  <2>5. SizeSum(header, N) = Base(t) + want[t] - Limit(t)
    BY <1>2, <1>10 DEF Contents, Amounts, N
  <2>6. header'[x].size = s.bytes
    BY <1>1
  <2>7. SizeSum(header', N \cup {x}) = Base(t) + want[t] - s.from
    BY <1>1, <1>9, <2>2, <2>4, <2>5, <2>6
  <2> QED BY <1>2, <1>8, <1>9, <1>10, <2>1, <2>7 DEF Contents, Amounts, N, F
<1> QED BY <1>4, <1>6, <1>7, <1>13, <1>14, <1>15, <1>16, <1>17
           DEF Chaining, Contents

(* Two chains without gaps, joined where the first ends, have none. *)
LEMMA AdjacentJoin ==
  ASSUME NEW F, NEW N, NEW H, NEW K, NEW x \in F, NEW l, NEW mid, NEW end,
         Adjacent(F, H, mid), Adjacent(N, H, end), x \notin N,
         H[x].next = None, K[x].next = l,
         \A a \in F : a # x => H[a].next # None,
         \A a \in (F \cup N) \ {x} : K[a].next = H[a].next,
         \A a \in F \cup N : K[a].from = H[a].from /\ K[a].size = H[a].size,
         \A a \in F : H[a].next # None => H[a].next \in F,
         \A a \in N : H[a].next # None => H[a].next \in N,
         l # None => l \in N /\ H[l].from = mid,
         l = None => mid = end
  PROVE  Adjacent(F \cup N, K, end)
PROOF
<1>1. ASSUME NEW a \in N
      PROVE  K[a].from + K[a].size = IF K[a].next
               = None THEN end ELSE K[K[a].next].from
  BY DEF Adjacent
<1>2. ASSUME NEW a \in F, a # x
      PROVE  K[a].from + K[a].size = IF K[a].next
               = None THEN end ELSE K[K[a].next].from
  BY <1>2 DEF Adjacent
<1>3. K[x].from + K[x].size = IF K[x].next
        = None THEN end ELSE K[K[x].next].from
  BY DEF Adjacent
<1> QED BY <1>1, <1>2, <1>3 DEF Adjacent

(* When all slots are written the new chain begins at Base and holds what  *)
(* was wanted.                                                             *)
LEMMA Finished ==
  ASSUME TypeInv, Ownership, Chaining, NEW t \in Tasks, Written(t)
  PROVE  /\ pc[t] = "write" /\ plan[t] = {} /\ slots[t] = {}
           /\ op[t] # "delete"
         /\ Limit(t) = Base(t) /\ Intact(t) /\ ~Freeing(t)
         /\ link[t] = None => want[t] = 0
         /\ link[t] # None => header[link[t]].from = Base(t)
         /\ SizeSum(header, Chain(t, "new")) = want[t]
         /\ Held(t, "old") = {} /\ Chain(t, "old") = {}
         /\ want[t] \in Nat /\ size[t] \in Nat /\ Base(t) \in Nat
              /\ Total(t) = size[t]
         /\ \A a \in Addr : ~PlannedFor(a, t)
PROOF
<1>1. pc[t] = "write" /\ plan[t] = {} /\ slots[t] = {} /\ op[t] # "delete"
        /\ t \notin torn
  BY DEF Written, Ownership, Control
<1>2. Intact(t) /\ ~Freeing(t)
  BY <1>1 DEF Intact, Freeing
<1>3. want[t] \in Nat /\ size[t] \in Nat /\ Base(t) \in Nat
        /\ Total(t) = size[t]
  BY <1>1 DEF TypeInv, TypeOK, Base, Total
<1>4. Limit(t) = Base(t)
  BY <1>1 DEF Chaining, Contents, LaidOut
<1>5. link[t] = None => want[t] = 0
  BY <1>3, <1>4 DEF Limit
<1>6. link[t] # None => header[link[t]].from = Base(t)
  BY <1>4 DEF Limit
<1>7. SizeSum(header, Chain(t, "new")) = Base(t) + want[t] - Limit(t)
  BY <1>1 DEF Chaining, Contents, Amounts
<1>8. SizeSum(header, Chain(t, "new")) = want[t]
  BY <1>3, <1>4, <1>7
<1>9. Held(t, "old") = {} /\ Chain(t, "old") = {}
  BY <1>2, NotFreeing DEF Chaining
<1>10. \A a \in Addr : ~PlannedFor(a, t)
  BY <1>1 DEF PlannedFor, Planned
<1> QED BY <1>1, <1>2, <1>3, <1>4, <1>5, <1>6, <1>8, <1>9, <1>10

(* An append prolongs the chain of the file by the new one, at its end:    *)
(* from then on the file holds both.                                       *)
LEMMA LinkAppendChaining ==
  ASSUME TypeInv, Ownership, Chaining, NEW t \in Tasks, LinkAppend(t)
  PROVE  Chaining'
PROOF
<1> USE DEF TypeInv, TypeOK
<1> DEFINE x == last[t]
           N == Chain(t, "new")
           F == Chain(t, "file")
<1>1. Written(t) /\ op[t] = "append" /\ x # None /\ x \in Addr
  BY DEF LinkAppend
<1>2. /\ pc'[t] = "register" /\ op' = op /\ want' = want /\ slots' = slots
      /\ plan' = plan
      /\ head' = head /\ size' = size /\ torn' = torn /\ overrun' = overrun
      /\ cur' = cur /\ owner' = owner
      /\ \A u \in Tasks \ {t} : SameTask(u)
  BY DEF LinkAppend, SameTask, Goto
<1>3. \A a \in Addr : role'[a] = IF owner[a] = t
        /\ role[a] = "new" THEN "file" ELSE role[a]
  BY DEF LinkAppend, Turn
<1>4. /\ \A a \in Addr : a # x => header'[a] = header[a]
      /\ header'[x].next = link[t] /\ header'[x].size = header[x].size
      /\ header'[x].from = header[x].from
  BY <1>1 DEF LinkAppend, Tail, Extent
<1>5. StartsFor(x, t, "file") /\ header[x].next = None
  BY <1>1 DEF Ownership, Walk, Written
<1> HIDE DEF TypeInv, TypeOK
<1>6. /\ pc[t] = "write" /\ plan[t] = {} /\ slots[t] = {} /\ op[t] # "delete"
      /\ Limit(t) = Base(t) /\ Intact(t) /\ ~Freeing(t)
      /\ link[t] = None => want[t] = 0
      /\ link[t] # None => header[link[t]].from = Base(t)
      /\ SizeSum(header, N) = want[t]
      /\ want[t] \in Nat /\ size[t] \in Nat /\ Base(t) = size[t]
      /\ Total(t) = size[t]
      /\ \A a \in Addr : ~PlannedFor(a, t)
      /\ Held(t, "old") = {}
  BY <1>1, Finished DEF Base
<1>7. \A u \in Tasks \ {t} : Untouched(u)
  BY <1>2, <1>3, <1>4, <1>5 DEF Untouched, StartsFor
<1>8. \A u \in Tasks \ {t} : Contents(u)'
  BY <1>2, <1>7, ContentsKept DEF Chaining
<1>9. Stages'
  <2> SUFFICES ASSUME NEW a \in Addr PROVE Stage(a)'
    BY DEF Stages
  <2>1. Stage(a)
    BY DEF Chaining, Stages
  <2>2. CASE owner[a] = t
    BY <1>2, <1>3, <1>6, <2>1, <2>2 DEF Stage, Held
  <2>3. CASE owner[a] # t
    BY <1>2, <1>3, <2>3, StageElsewhere DEF Chaining
  <2> QED BY <2>2, <2>3
<1>10. Covered'
  <2>1. \A a \in Addr : header'[a].size = header[a].size
    BY <1>4
  <2> QED BY <1>2, <1>3, <2>1, CoveredKept DEF Live
<1>11. F' = F \cup N /\ x \in F /\ x \notin N
  BY <1>1, <1>2, <1>3, <1>4, <1>5 DEF Chain, StartsFor, Starts, Live
<1>12. /\ \A a \in N : header[a].next = None \/ header[a].next \in N
       /\ \A a \in F : header[a].next = None \/ header[a].next \in F
       /\ link[t] # None => link[t] \in N
       /\ head[t] # None => head[t] \in F
  BY <1>6, ChainClosed, HeadsInChain
<1>13. /\ IsFiniteSet(N) /\ \A a \in N : header[a].size \in Nat
         /\ header[a].next \in Addr \cup {None}
       /\ IsFiniteSet(F) /\ \A a \in F : header[a].size \in Nat
            /\ header[a].next \in Addr \cup {None}
       /\ N \in SUBSET Addr /\ F \in SUBSET Addr /\ F \cap N = {}
  <2>1. F \cap N = {}
    BY DEF Chain, StartsFor
  <2> QED BY <2>1, ChainFinite
<1>14. Contents(t) /\ head[t] \in Addr \cup {None}
  BY DEF Chaining, TypeInv, TypeOK
<1>15. Intact(t)' /\ Total(t)' = size[t] + want[t] /\ ~Freeing(t)'
  BY <1>2, <1>6 DEF Intact, Total, Freeing
<1>16. Reaches(head[t], F, header) /\ Reaches(link[t], N, header)
  BY <1>6, <1>14 DEF Contents, Linked
<1> HIDE DEF N, F, x
<1>17. \A a \in F : a # x => header[a].next # None
  BY <1>5, <1>11, <1>13, <1>14, <1>16, OneTail
<1>18. SizingOf(t)' /\ LaidOut(t)'
  BY <1>2, <1>6 DEF SizingOf, LaidOut
<1>19. Linked(t)'
  <2>1. \A a \in (F \cup N) \ {x} : header'[a].next = header[a].next
    BY <1>4, <1>13
  <2>2. header[x].next = None /\ header'[x].next = link[t]
    BY <1>4, <1>5
  <2>3. Reaches(head[t], F \cup N, header')
    BY <1>11, <1>16, <2>1, <2>2, ReachesJoin
  <2> QED BY <1>2, <1>11, <1>15, <2>3 DEF Linked, F
<1>20. InOrder(t)'
  <2> SUFFICES ASSUME t \notin overrun
               PROVE  /\ Adjacent(F \cup N, header', size[t] + want[t])
                      /\ head[t] # None => header'[head[t]].from = 0
    BY <1>2, <1>11, <1>15 DEF InOrder, F
  <2>1. Adjacent(F, header, size[t]) /\ Adjacent(N, header, size[t] + want[t])
        /\ (head[t] # None => header[head[t]].from = 0)
    BY <1>6, <1>14 DEF Contents, InOrder, F, N
  <2>2. \A a \in F \cup N : header'[a].from = header[a].from
          /\ header'[a].size = header[a].size
    BY <1>4, <1>13
  <2>3. \A a \in (F \cup N) \ {x} : header'[a].next = header[a].next
    BY <1>4, <1>13
  <2>4. link[t] # None => link[t] \in N /\ header[link[t]].from = size[t]
    BY <1>6, <1>12
  <2>5. link[t] = None => size[t] = size[t] + want[t]
    BY <1>6
  <2>6. /\ \A a \in F : header[a].next # None => header[a].next \in F
        /\ \A a \in N : header[a].next # None => header[a].next \in N
    BY <1>12
  <2>7. header[x].next = None /\ header'[x].next = link[t]
    BY <1>4, <1>5
  <2>8. Adjacent(F \cup N, header', size[t] + want[t])
    BY <1>11, <1>17, <2>1, <2>2, <2>3, <2>4, <2>5, <2>6, <2>7, AdjacentJoin
  <2> QED BY <1>12, <2>1, <2>2, <2>8
<1>21. Amounts(t)'
  <2>1. \A a \in F \cup N : header'[a].size = header[a].size
    BY <1>4, <1>13
  <2>2. IsFiniteSet(F \cup N)
    BY <1>13, FS_Union
  <2>3. SizeSum(header', F \cup N) = SizeSum(header, F \cup N)
    BY <2>1, <2>2, SumSame
  <2>4. \A a \in F \cup N : header[a].size \in Nat
    BY <1>13
  <2>5. /\ SizeSum(header, F) \in Nat
        /\ SizeSum(header, F \cup N) = SizeSum(header, F) + SizeSum(header, N)
    BY <1>13, <2>4, SumUnion
  <2>6. /\ SizeSum(header, F) >= size[t]
        /\ t \notin overrun => SizeSum(header, F) = size[t]
    BY <1>6, <1>14 DEF Contents, Amounts, F
  <2>7. /\ SizeSum(header', F \cup N) >= size[t] + want[t]
        /\ t \notin overrun => SizeSum(header', F \cup N) = size[t] + want[t]
    BY <1>6, <2>3, <2>5, <2>6
  <2> QED BY <1>2, <1>11, <1>15, <2>7 DEF Amounts, F
<1> QED BY <1>8, <1>9, <1>10, <1>18, <1>19, <1>20, <1>21 DEF Chaining, Contents

(* The inode takes the size the chain already has, or its head if the file *)
(* had none.                                                               *)
LEMMA RegisterAppendChaining ==
  ASSUME TypeInv, Ownership, Chaining, NEW t \in Tasks, RegisterAppend(t)
  PROVE  Chaining'
PROOF
<1> USE DEF TypeInv, TypeOK, Return, Goto
<1> DEFINE N == Chain(t, "new")
           F == Chain(t, "file")
<1>1. /\ pc'[t] = "idle" /\ op'[t] = "write" /\ plan'[t] = {} /\ slots'[t] = {}
      /\ torn' = torn /\ overrun' = overrun /\ owner' = owner
           /\ header' = header
      /\ size'[t] = size[t] + want[t] /\ op[t] = "append"
      /\ \A u \in Tasks \ {t} : SameTask(u)
  BY DEF RegisterAppend, SameTask
<1>2. \A a \in Addr : role'[a] = IF owner[a] = t
        /\ role[a] = "new" THEN "file" ELSE role[a]
  BY DEF RegisterAppend, Turn
<1>3. \/ pc[t] = "register" /\ head' = head
      \/ Written(t) /\ last[t] = None /\ head'[t] = link[t]
  BY DEF RegisterAppend
<1>4. Contents(t) /\ want[t] \in Nat /\ size[t] \in Nat
  BY DEF Chaining
<1>5. plan[t] = {} /\ slots[t] = {} /\ Intact(t) /\ ~Freeing(t)
  BY <1>1, <1>3 DEF Written, Ownership, Control, Intact, Freeing
<1> HIDE DEF TypeInv, TypeOK, Return, Goto
<1>6. Intact(t)' /\ ~Freeing(t)' /\ Total(t)' = size[t] + want[t]
  BY <1>1, <1>4, <1>5 DEF Intact, Freeing, Total
<1>7. \A u \in Tasks \ {t} : Untouched(u)
  BY <1>1, <1>2 DEF Untouched
<1>8. \A u \in Tasks \ {t} : Contents(u)'
  BY <1>1, <1>7, ContentsKept DEF Chaining
<1>9. Stages'
  <2> SUFFICES ASSUME NEW a \in Addr PROVE Stage(a)'
    BY DEF Stages
  <2>1. Stage(a)
    BY DEF Chaining, Stages
  <2>2. CASE owner[a] = t
    <3>1. ~PlannedFor(a, t) /\ Held(t, "old") = {}
      BY <1>5, NotFreeing DEF PlannedFor, Planned, Chaining
    <3> QED BY <1>1, <1>2, <2>1, <2>2, <3>1 DEF Stage, Held
  <2>3. CASE owner[a] # t
    BY <1>1, <1>2, <2>3, StageElsewhere DEF Chaining
  <2> QED BY <2>2, <2>3
<1>10. Covered'
  BY <1>1, <1>2, CoveredKept DEF Live
<1>11. F' = F \cup N
  BY <1>1, <1>2 DEF Chain, StartsFor, Starts, Live
<1>12. SizingOf(t)' /\ LaidOut(t)'
  BY <1>1 DEF SizingOf, LaidOut
<1>13. CASE pc[t] = "register" /\ head' = head
  <2>1. N = {}
    BY <1>13, NotWriting DEF Chaining
  <2>2. F' = F
    BY <1>11, <2>1
  <2>3. Total(t) = size[t] + want[t]
    BY <1>13 DEF Total
  <2> HIDE DEF F
  <2>4. Linked(t)' /\ InOrder(t)' /\ Amounts(t)'
    BY <1>1, <1>4, <1>5, <1>6, <1>13, <2>2, <2>3
       DEF Contents, Linked, InOrder, Amounts, F
  <2> QED BY <1>8, <1>9, <1>10, <1>12, <2>4 DEF Chaining, Contents
<1>14. CASE Written(t) /\ last[t] = None /\ head'[t] = link[t]
  <2>1. /\ pc[t] = "write"
        /\ link[t] # None => header[link[t]].from = Base(t)
        /\ SizeSum(header, N) = want[t]
        /\ Base(t) = size[t] /\ Total(t) = size[t]
    BY <1>1, <1>14, Finished DEF Base
  <2>2. head[t] = None
    BY <1>1, <1>14, <2>1 DEF Ownership, Walk
  <2>3. F = {}
    BY <1>4, <1>5, <2>2, ReachesNone DEF Contents, Linked
  <2>4. F' = N
    BY <1>11, <2>3
  <2>5. SizeSum(header, {}) = 0
    BY SumPick, FS_EmptySet
  <2>6. size[t] = 0
    <3>1. SizeSum(header, F) >= Total(t)
      BY <1>4, <1>5 DEF Contents, Amounts
    <3> QED BY <1>4, <2>1, <2>3, <2>5, <3>1
  <2>7. Reaches(link[t], N, header) /\ Adjacent(N, header, size[t] + want[t])
    BY <1>4, <2>1 DEF Contents, Linked, InOrder
  <2> HIDE DEF F, N
  <2>8. Linked(t)'
    BY <1>1, <1>6, <1>14, <2>4, <2>7 DEF Linked, F
  <2>9. InOrder(t)'
    BY <1>1, <1>6, <1>14, <2>1, <2>4, <2>6, <2>7 DEF InOrder, F
  <2>10. Amounts(t)'
    <3>1. size[t] + want[t] = want[t]
      BY <1>4, <2>6
    <3>2. SizeSum(header', F') = Total(t)' /\ Total(t)' \in Nat
      BY <1>1, <1>4, <1>6, <2>1, <2>4, <3>1
    <3>3. SizeSum(header', F') >= Total(t)'
      BY <3>2
    <3> QED BY <1>1, <3>2, <3>3 DEF Amounts, F
  <2> QED BY <1>8, <1>9, <1>10, <1>12, <2>8, <2>9, <2>10 DEF Chaining, Contents
<1> QED BY <1>3, <1>13, <1>14

(* The inode takes the new chain; the one it had, if any, becomes old, or  *)
(* the operation is over.                                                  *)
LEMMA RegisterWriteChaining ==
  ASSUME TypeInv, Ownership, Chaining, NEW t \in Tasks, RegisterWrite(t)
  PROVE  Chaining'
PROOF
<1> USE DEF TypeInv, TypeOK, Goto
<1> DEFINE N == Chain(t, "new")
           F == Chain(t, "file")
           O == Chain(t, "old")
<1>1. /\ pc'[t] = "free" /\ op' = op /\ plan' = plan /\ slots' = slots
      /\ torn' = torn /\ owner' = owner /\ header' = header
      /\ size'[t] = want[t] /\ op[t] \in {"write", "rewrite"} /\ Written(t)
      /\ head'[t] = link[t] /\ cur'[t] = head[t] /\ want' = want
      /\ \A u \in Tasks \ {t} : SameTask(u)
  BY DEF RegisterWrite, SameTask
<1>2. \A a \in Addr : role'[a] = IF owner[a] # t THEN role[a]
                                 ELSE IF role[a] = "new" THEN "file"
                                 ELSE IF role[a]
                                   = "file" THEN "old" ELSE role[a]
  BY DEF RegisterWrite, Turn
<1> HIDE DEF TypeInv, TypeOK, Goto
<1>3. /\ pc[t] = "write" /\ plan[t] = {} /\ slots[t] = {} /\ Intact(t)
        /\ ~Freeing(t)
      /\ link[t] # None => header[link[t]].from = 0
      /\ SizeSum(header, N) = want[t] /\ O = {} /\ Base(t) = 0
      /\ want[t] \in Nat
      /\ \A a \in Addr : ~PlannedFor(a, t)
      /\ Held(t, "old") = {}
  BY <1>1, Finished DEF Base
<1>4. Contents(t)
  BY DEF Chaining
<1>5. Intact(t)' /\ Freeing(t)' /\ Total(t)' = want[t]
  BY <1>1, <1>3 DEF Intact, Freeing, Total
<1>6. \A u \in Tasks \ {t} : Untouched(u)
  BY <1>1, <1>2 DEF Untouched
<1>7. \A u \in Tasks \ {t} : Contents(u)'
  BY <1>1, <1>6, ContentsKept DEF Chaining
<1>8. Stages'
  <2> SUFFICES ASSUME NEW a \in Addr PROVE Stage(a)'
    BY DEF Stages
  <2>1. Stage(a)
    BY DEF Chaining, Stages
  <2>2. CASE owner[a] = t
    BY <1>1, <1>2, <1>3, <1>5, <2>1, <2>2 DEF Stage, Held
  <2>3. CASE owner[a] # t
    BY <1>1, <1>2, <2>3, StageElsewhere DEF Chaining
  <2> QED BY <2>2, <2>3
<1>9. Covered'
  BY <1>1, <1>2, CoveredKept DEF Live
<1>10. F' = N /\ O' = F
  <2>1. F' = N
    BY <1>1, <1>2 DEF Chain, StartsFor, Starts, Live
  <2>2. \A a \in Addr : ~StartsFor(a, t, "old")
    BY <1>3 DEF Chain
  <2>3. O' = F
    BY <1>1, <1>2, <2>2 DEF Chain, StartsFor, Starts, Live
  <2> QED BY <2>1, <2>3
<1>11. SizingOf(t)' /\ LaidOut(t)'
  BY <1>1, <1>3 DEF SizingOf, LaidOut
<1>12. /\ Reaches(link[t], N, header) /\ Adjacent(N, header, 0 + want[t])
       /\ Reaches(head[t], F, header)
  BY <1>3, <1>4 DEF Contents, Linked, InOrder
<1> HIDE DEF F, N, O
<1>13. Linked(t)'
  BY <1>1, <1>5, <1>10, <1>12 DEF Linked, F, O
<1>14. InOrder(t)'
  <2>1. Adjacent(N, header, want[t])
    BY <1>3, <1>12
  <2> QED BY <1>1, <1>3, <1>5, <1>10, <2>1 DEF InOrder, F
<1>15. Amounts(t)'
  <2>1. SizeSum(header', F') = Total(t)' /\ Total(t)' \in Nat
    BY <1>1, <1>3, <1>5, <1>10
  <2>2. SizeSum(header', F') >= Total(t)'
    BY <2>1
  <2> QED BY <1>1, <2>1, <2>2 DEF Amounts, F
<1> QED BY <1>7, <1>8, <1>9, <1>11, <1>13, <1>14, <1>15 DEF Chaining, Contents

(* A deletion gives its chain up here, a replacement did before. *)
LEMMA FreeStartChaining ==
  ASSUME TypeInv, Ownership, Chaining, NEW t \in Tasks, FreeStart(t)
  PROVE  Chaining'
PROOF
<1> USE DEF TypeInv, TypeOK, Goto, device
<1> DEFINE F == Chain(t, "file")
           O == Chain(t, "old")
<1>1. /\ pc[t] = "free" /\ pc'[t] = "freeing" /\ op' = op /\ plan' = plan
      /\ slots' = slots /\ size' = size /\ head' = head
      /\ torn' = torn /\ owner' = owner /\ header' = header
      /\ overrun' = overrun /\ cur' = cur /\ want' = want
      /\ \A u \in Tasks \ {t} : SameTask(u)
  BY DEF FreeStart, SameTask
<1>2. plan[t] = {} /\ slots[t] = {} /\ t \notin torn
  BY <1>1 DEF Ownership, Control
<1>3. CASE op[t] # "delete"
  <2>1. role' = role
    BY <1>3 DEF FreeStart
  <2>2. Freeing(t) /\ Freeing(t)'
    BY <1>1, <1>3 DEF Freeing
  <2> HIDE DEF TypeInv, TypeOK, Goto, device
  <2>3. plan'[t] = {} /\ head'[t] = head[t] /\ size'[t] = size[t]
          /\ cur'[t] = cur[t]
        /\ pc'[t] = "freeing" /\ pc[t] = "free" /\ op'[t] # "delete"
    BY <1>1, <1>2, <1>3
  <2> QED BY <1>1, <1>3, <2>1, <2>2, <2>3, Resting
<1>4. CASE op[t] = "delete"
  <2>1. \A a \in Addr : role'[a] = IF owner[a] = t
          /\ role[a] = "file" THEN "old" ELSE role[a]
    BY <1>4 DEF FreeStart, Turn
  <2> HIDE DEF TypeInv, TypeOK, Goto, device
  <2>2. ~Freeing(t) /\ Freeing(t)' /\ Intact(t) /\ ~Intact(t)'
    BY <1>1, <1>2, <1>4 DEF Freeing, Intact
  <2>3. O = {} /\ Held(t, "old") = {}
    BY <2>2, NotFreeing DEF Chaining
  <2>4. \A u \in Tasks \ {t} : Untouched(u)
    BY <1>1, <2>1 DEF Untouched
  <2>5. \A u \in Tasks \ {t} : Contents(u)'
    BY <1>1, <2>4, ContentsKept DEF Chaining
  <2>6. Stages'
    <3> SUFFICES ASSUME NEW a \in Addr PROVE Stage(a)'
      BY DEF Stages
    <3>1. Stage(a)
      BY DEF Chaining, Stages
    <3>2. CASE owner[a] = t
      <4>1. ~PlannedFor(a, t)
        BY <1>2 DEF PlannedFor, Planned
      <4> QED BY <1>1, <2>1, <2>2, <3>1, <3>2, <4>1 DEF Stage
    <3>3. CASE owner[a] # t
      BY <1>1, <2>1, <3>3, StageElsewhere DEF Chaining
    <3> QED BY <3>2, <3>3
  <2>7. Covered'
    BY <1>1, <2>1, CoveredKept DEF Live
  <2>8. O' = F
    <3>1. \A a \in Addr : ~StartsFor(a, t, "old")
      BY <2>3 DEF Chain
    <3> QED BY <1>1, <2>1, <3>1 DEF Chain, StartsFor, Starts, Live
  <2>9. Reaches(head[t], F, header) /\ cur[t] = head[t]
    BY <1>1, <1>4, <2>2
       DEF Chaining, Contents, Linked, Ownership, Heads, HeadsOf
  <2> HIDE DEF O, F
  <2>10. Linked(t)'
    BY <1>1, <2>2, <2>8, <2>9 DEF Linked, O
  <2>11. SizingOf(t)' /\ LaidOut(t)' /\ InOrder(t)' /\ Amounts(t)'
    BY <1>1, <1>2, <2>2 DEF SizingOf, LaidOut, InOrder, Amounts
  <2> QED BY <2>5, <2>6, <2>7, <2>10, <2>11 DEF Chaining, Contents
<1> QED BY <1>3, <1>4

(* The first extent of the old chain is freed, and the rest is reached     *)
(* from the next.                                                          *)
LEMMA FreeExtentChaining ==
  ASSUME TypeInv, Ownership, Chaining, NEW t \in Tasks, FreeExtent(t)
  PROVE  Chaining'
PROOF
<1> USE DEF TypeInv, TypeOK
<1> DEFINE x == cur[t]
           O == Chain(t, "old")
           F == Chain(t, "file")
<1>1. /\ pc[t] = "freeing" /\ x # None /\ x \in Addr /\ pc' = pc /\ op' = op
      /\ plan' = plan /\ want' = want
      /\ slots' = slots /\ size' = size /\ head' = head
      /\ torn' = torn /\ header' = header
      /\ overrun' = overrun /\ cur'[t] = header[x].next
      /\ \A u \in Tasks \ {t} : SameTask(u)
  BY DEF FreeExtent, SameTask
<1>2. \A a \in Addr : /\ a \in Footprint(x) => role'[a] = "free"
                      /\ a \notin Footprint(x) => role'[a] = role[a]
                           /\ owner'[a] = owner[a]
  BY DEF FreeExtent
<1>3. plan[t] = {} /\ slots[t] = {}
  BY <1>1 DEF Ownership, Control
<1> HIDE DEF TypeInv, TypeOK
<1>4. StartsFor(x, t, "old")
  BY <1>1 DEF Ownership, Heads, HeadsOf
<1>5. /\ x \in Footprint(x)
      /\ \A b \in Footprint(x) : /\ role[b] = "old" /\ owner[b] = t
                                 /\ b # x => header[b].size = 0
  BY <1>1, <1>4, FootprintStart DEF Ownership, Extents1, StartsFor
<1>6. /\ Freeing(t) /\ Freeing(t)' /\ (Intact(t)' <=> Intact(t))
      /\ Total(t)' = Total(t)
  BY <1>1 DEF Freeing, Intact, Total
<1>7. \A u \in Tasks \ {t} : Untouched(u)
  <2> SUFFICES ASSUME NEW u \in Tasks \ {t}, NEW a \in Addr,
                      (Live(a) /\ owner[a] = u) \/ (Live(a)' /\ owner'[a] = u)
               PROVE  role'[a] = role[a] /\ owner'[a] = owner[a]
                        /\ header'[a] = header[a]
    BY DEF Untouched
  <2>1. CASE a \in Footprint(x)
    BY <1>2, <1>5, <2>1 DEF Live
  <2> QED BY <1>1, <1>2, <2>1
<1>8. \A u \in Tasks \ {t} : Contents(u)'
  BY <1>1, <1>7, ContentsKept DEF Chaining
<1>9. Stages'
  <2> SUFFICES ASSUME NEW a \in Addr PROVE Stage(a)'
    BY DEF Stages
  <2>1. Stage(a)
    BY DEF Chaining, Stages
  <2>2. CASE a \in Footprint(x)
    BY <1>2, <2>2 DEF Stage
  <2>3. CASE a \notin Footprint(x) /\ owner[a] = t
    <3>1. role'[a] = role[a] /\ owner'[a] = owner[a]
      BY <1>2, <2>3
    <3>2. ~PlannedFor(a, t)
      BY <1>3 DEF PlannedFor, Planned
    <3> QED BY <1>1, <1>6, <2>1, <2>3, <3>1, <3>2 DEF Stage
  <2>4. CASE a \notin Footprint(x) /\ owner[a] # t
    BY <1>1, <1>2, <2>4, StageElsewhere DEF Chaining
  <2> QED BY <2>2, <2>3, <2>4
<1>10. Covered'
  <2> SUFFICES ASSUME NEW b \in Addr, Live(b)'
               PROVE  \E a \in Addr : Starts(a)' /\ b \in Footprint(a)'
    BY DEF Covered
  <2>1. b \notin Footprint(x) /\ Live(b)
    BY <1>2 DEF Live
  <2>2. PICK a \in Addr : Starts(a) /\ b \in Footprint(a)
    BY <2>1 DEF Chaining, Covered
  <2>3. a \notin Footprint(x)
    BY <1>5, <2>1, <2>2 DEF Starts
  <2>4. Starts(a)' /\ Footprint(a)' = Footprint(a)
    BY <1>1, <1>2, <2>2, <2>3 DEF Starts, Live, Footprint
  <2> QED BY <2>2, <2>4
<1>11. O' = O \ {x} /\ F' = F
  <2>1. \A a \in Addr : a \in Footprint(x) => a \notin O' /\ a \notin F
          /\ a \notin F' /\ (a \in O <=> a = x)
    BY <1>2, <1>4, <1>5 DEF Chain, StartsFor, Starts, Live
  <2>2. \A a \in Addr : a \notin Footprint(x) => (a \in O' <=> a \in O)
          /\ (a \in F' <=> a \in F)
    BY <1>1, <1>2 DEF Chain, StartsFor, Starts, Live
  <2>3. O' \in SUBSET Addr /\ O \in SUBSET Addr /\ F' \in SUBSET Addr
          /\ F \in SUBSET Addr
    BY DEF Chain
  <2> QED BY <1>1, <1>5, <2>1, <2>2, <2>3
<1>12. Contents(t) /\ Reaches(x, O, header)
  BY <1>6 DEF Chaining, Contents, Linked
<1> HIDE DEF O, F, x
<1>13. Reaches(header[x].next, O \ {x}, header)
  BY <1>1, <1>12, ReachesTail
<1>14. Linked(t)'
  BY <1>1, <1>6, <1>11, <1>12, <1>13 DEF Contents, Linked, O, F
<1>15. SizingOf(t)' /\ LaidOut(t)'
  BY <1>1, <1>3 DEF SizingOf, LaidOut
<1>16. InOrder(t)' /\ Amounts(t)'
  BY <1>1, <1>6, <1>11, <1>12 DEF Contents, InOrder, Amounts, F
<1> QED BY <1>8, <1>9, <1>10, <1>14, <1>15, <1>16 DEF Chaining, Contents

(* A crash, or the cancellation of an operation, loses what was under way; *)
(* the files keep their chains.                                            *)
LEMMA StopChaining ==
  ASSUME TypeInv, Ownership, Chaining, NEW S \in SUBSET Tasks, Stop(S)
  PROVE  Chaining'
PROOF
<1> USE DEF TypeInv, TypeOK, device
<1>1. /\ header' = header /\ head' = head /\ size' = size /\ owner' = owner
      /\ torn' = torn \cup {t \in S : op[t] = "delete"
           /\ pc[t] \in {"freeing", "clear"}}
      /\ overrun' = overrun \cup {t \in S : pc[t] = "register"}
      /\ \A t \in S : pc'[t] = "idle" /\ op'[t] = "write" /\ plan'[t] = {}
  BY DEF Stop, Unless
<1>2. \A u \in Tasks \ S : SameTask(u)
  BY DEF Stop, Unless, SameTask
<1>3. \A a \in Addr : role'[a] = IF owner[a] \in S
        /\ role[a] \in {"plan", "new", "old"}
                                 THEN "lost" ELSE role[a]
  BY DEF Stop
<1> HIDE DEF TypeInv, TypeOK, device
<1>4. \A u \in Tasks \ S : Untouched(u)
  BY <1>1, <1>3 DEF Untouched
<1>5. \A u \in Tasks \ S : Contents(u)'
  BY <1>2, <1>4, ContentsKept DEF Chaining
<1>6. Stages'
  <2> SUFFICES ASSUME NEW a \in Addr PROVE Stage(a)'
    BY DEF Stages
  <2>1. Stage(a)
    BY DEF Chaining, Stages
  <2>2. CASE owner[a] \in S
    BY <1>1, <1>3, <2>1, <2>2 DEF Stage
  <2>3. CASE owner[a] \notin S
    <3>1. role'[a] = role[a] /\ owner'[a] = owner[a]
      BY <1>1, <1>3, <2>3
    <3>2. role[a] \in {"plan", "new", "old", "file"} => owner[a] \in Tasks \ S
      BY <2>1, <2>3 DEF Stage, Ownership, Bitmaps, Live
    <3>3. owner[a] \in Tasks \ S =>
            /\ pc'[owner[a]] = pc[owner[a]] /\ op'[owner[a]] = op[owner[a]]
            /\ PlannedFor(a, owner[a])' <=> PlannedFor(a, owner[a])
      BY <1>2, <3>1 DEF SameTask, PlannedFor, Planned
    <3> QED BY <2>1, <3>1, <3>2, <3>3 DEF Stage, Freeing
  <2> QED BY <2>2, <2>3
<1>7. Covered'
  BY <1>1, <1>3, CoveredKept DEF Live
<1>8. ASSUME NEW t \in S PROVE Contents(t)'
  <2> DEFINE F == Chain(t, "file")
  <2>1. F' = F
    BY <1>1, <1>3 DEF Chain, StartsFor, Starts, Live
  <2>2. /\ Intact(t)' => Intact(t)
        /\ t \notin overrun' => t \notin overrun /\ pc[t] # "register"
        /\ Total(t)' = size[t]
        /\ ~Freeing(t)' /\ pc'[t] = "idle" /\ plan'[t] = {}
    BY <1>1, <1>8 DEF Intact, Total, Freeing, TypeInv, TypeOK
  <2>3. Contents(t) /\ size[t] \in Nat /\ want[t] \in Nat
    BY DEF Chaining, TypeInv, TypeOK
  <2>4. /\ Total(t) >= size[t] /\ pc[t] # "register" => Total(t) = size[t]
    BY <2>3 DEF Total
  <2>5. SizeSum(header, F) \in Nat
    <3>1. IsFiniteSet(F) /\ \A a \in F : header[a].size \in Nat
      BY ChainFinite
    <3>2. F \in SUBSET F
      OBVIOUS
    <3> QED BY <3>1, <3>2, SumRemove
  <2> HIDE DEF F
  <2>6. SizingOf(t)' /\ LaidOut(t)'
    BY <2>2 DEF SizingOf, LaidOut
  <2>7. Linked(t)'
    BY <1>1, <2>1, <2>2, <2>3 DEF Contents, Linked, F
  <2>8. InOrder(t)'
    <3>1. t \notin overrun' => Total(t) = size[t]
      BY <2>2, <2>3 DEF Total
    <3> QED BY <1>1, <2>1, <2>2, <2>3, <3>1 DEF Contents, InOrder, F
  <2>9. Amounts(t)'
    <3>1. t \notin overrun' => Total(t) = size[t]
      BY <2>2, <2>3 DEF Total
    <3>2. Intact(t) => SizeSum(header, F) >= size[t]
      <4>1. Total(t) \in Nat /\ Total(t) >= size[t]
        BY <2>3 DEF Total
      <4>2. Intact(t) => SizeSum(header, F) >= Total(t)
        BY <2>3 DEF Contents, Amounts, F
      <4> QED BY <2>3, <2>5, <4>1, <4>2
    <3>3. Intact(t) /\ t \notin overrun => SizeSum(header, F) = Total(t)
      BY <2>3 DEF Contents, Amounts, F
    <3>4. Intact(t)' => SizeSum(header', F') >= Total(t)'
      BY <1>1, <2>1, <2>2, <3>2
    <3>5. Intact(t)' /\ t \notin overrun' => SizeSum(header', F') = Total(t)'
      BY <1>1, <2>1, <2>2, <3>1, <3>3
    <3> QED BY <2>2, <3>4, <3>5 DEF Amounts, F
  <2> QED BY <2>6, <2>7, <2>8, <2>9 DEF Contents
<1> QED BY <1>5, <1>6, <1>7, <1>8 DEF Chaining

(* At first there are no chains. *)
LEMMA InitChaining == Init => Chaining
PROOF
<1> SUFFICES ASSUME Init PROVE Chaining
  OBVIOUS
<1>1. Stages /\ Covered
  BY DEF Init, Stages, Stage, Covered, Live
<1>2. ASSUME NEW t \in Tasks PROVE Contents(t)
  <2>1. \A r \in {"new", "file", "old"} : Chain(t, r) = {}
    BY DEF Init, Chain, StartsFor, Starts, Live
  <2>2. /\ pc[t] = "idle" /\ plan[t] = {} /\ head[t] = None /\ size[t] = 0
        /\ want[t] = 0 /\ t \notin torn
    BY DEF Init
  <2>3. SizingOf(t) /\ LaidOut(t)
    BY <2>2 DEF SizingOf, LaidOut
  <2>4. Linked(t)
    BY <2>1, <2>2, NoneReached DEF Linked, Freeing
  <2>5. InOrder(t)
    BY <2>1, <2>2 DEF InOrder, Adjacent
  <2>6. Amounts(t)
    <3>1. Total(t) = 0
      BY <2>2 DEF Total
    <3>2. SizeSum(header, {}) = 0
      BY SumPick, FS_EmptySet
    <3>3. SizeSum(header, Chain(t, "file")) = 0
      BY <2>1, <3>2
    <3> QED BY <2>2, <3>1, <3>3 DEF Amounts
  <2> QED BY <2>3, <2>4, <2>5, <2>6 DEF Contents
<1> QED BY <1>1, <1>2 DEF Chaining

(* Nothing changes. *)
LEMMA StutterChaining ==
  ASSUME TypeInv, Ownership, Chaining, UNCHANGED vars
  PROVE  Chaining'
PROOF
<1>1. \A u \in Tasks : SameTask(u) /\ Untouched(u)
  BY DEF vars, SameTask, Untouched
<1>2. \A u \in Tasks : Contents(u)'
  BY <1>1, ContentsKept DEF Chaining
<1>3. Covered'
  BY CoveredKept DEF vars, Live
<1>4. Stages'
  BY DEF Chaining, Stages, Stage, Freeing, PlannedFor, Planned, vars
<1> QED BY <1>2, <1>3, <1>4 DEF Chaining

(* Every step keeps the invariant. *)
LEMMA StepChaining == TypeInv /\ Ownership /\ Chaining
  /\ [Next]_vars => Chaining'
PROOF
<1> SUFFICES ASSUME TypeInv, Ownership, Chaining, [Next]_vars PROVE Chaining'
  OBVIOUS
<1>1. CASE UNCHANGED vars
  BY <1>1, StutterChaining
<1>2. CASE Crash
  BY <1>2, StopChaining DEF Crash
<1>3. ASSUME NEW t \in Tasks, Cancel(t) PROVE Chaining'
  BY <1>3, StopChaining DEF Cancel
<1>4. ASSUME NEW t \in Tasks, Begin(t) PROVE Chaining'
  BY <1>4, BeginChaining
<1>5. ASSUME NEW t \in Tasks, Acquire(t) PROVE Chaining'
  BY <1>5, PlanContiguousChaining, PlanFragmentsChaining, PlanNoneChaining,
     RegisterAppendChaining, RegisterWriteChaining, FreeStartChaining
  DEF Acquire
<1>6. ASSUME NEW t \in Tasks, Proceed(t) PROVE Chaining'
  BY <1>6, WalkChaining, CommitChaining, LayoutChaining,
     LayoutMismatchChaining,
     WriteChaining, LinkAppendChaining, FreeExtentChaining, FreeDoneChaining,
     ClearInodeChaining DEF Proceed
<1> QED BY <1>1, <1>2, <1>3, <1>4, <1>5, <1>6 DEF Next

(* The three invariants together. *)
LEMMA AllInvariants == Spec => [](TypeInv /\ Ownership /\ Chaining)
PROOF
<1>1. Init => Chaining
  BY InitChaining
<1>2. TypeInv /\ Ownership /\ Chaining /\ [Next]_vars => Chaining'
  BY StepChaining
<1>3. Spec => [](TypeInv /\ Ownership)
  BY Invariants
<1> QED BY <1>1, <1>2, <1>3, PTL DEF Spec

(* In every reachable state each chain is all of its task's extents, in    *)
(* order, of the size its inode says, and every block in use is of one.    *)
THEOREM ChainsInvariant == Spec => []Chaining
BY AllInvariants, PTL

(* Whatever runs concurrently, crashes or is cancelled: what following a   *)
(* file from its inode meets is exactly the blocks held for that file. It  *)
(* never runs into another file, a freed block or a block being written.   *)
THEOREM ChainsStayOwn == Spec => []ChainsAreOwn
BY AllInvariants, ChainsOwn, PTL

(* Whatever runs concurrently, crashes or is cancelled: read_stream finds  *)
(* the content of a file in order from offset 0, and all the bytes its     *)
(* inode says it has.                                                      *)
THEOREM ContentStaysInOrder == Spec => []ContentInOrder
BY AllInvariants, ContentOrdered, PTL

(* When all operations are over, used blocks are those of the files and    *)
(* those a failure is known to have lost: no sequence of operations leaks. *)
THEOREM NothingIsLeaked == Spec => []NothingLeaks
BY AllInvariants, NoLeak, PTL
=============================================================================
