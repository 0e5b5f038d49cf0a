--------------------------- MODULE NamespaceSteps ---------------------------
(***************************************************************************)
(* Theorems about Namespace: its types, and what a step leaves alone, for  *)
(* any number of tasks, groups, inodes, names, extents and crashes.        *)
(* Types are inductive once it is known which operation may be at which    *)
(* step (Placed), what a step takes from the locals (Supplied), and that   *)
(* an inode carries its own number (Numbered): an inumber read from a      *)
(* bitmap, a directory or a copy of a bitmap is then that of an inode.     *)
(* Each action is first said as what it changes (the lemmas named          *)
(* ...Steps), without its LET and IF; the proofs about types and about the *)
(* invariant both take these cases.                                        *)
(* The second half is about one step of one task, t, on a volume that is   *)
(* consistent. What it changes is in the directory of t, or free, or t's   *)
(* alone (Confined); from that follows that no other task finds anything   *)
(* changed that it relies on (Framed), and that only the directories,      *)
(* links and counts that the step is about have to be looked at            *)
(* (NodesKept, CountsKept). The changes to the device that operations are  *)
(* made of follow: an extent allocated or freed, an inode registered or    *)
(* born. A registration writes back the bitmap it has read, so what it     *)
(* makes of the others' bits is known only where the step clobbers none;   *)
(* that is what the lemmas about it assume.                                *)
(* Last are the steps that change nothing on the device: walks, lookups,   *)
(* links followed, and the steps between the parts of a deletion.          *)
(***************************************************************************)
EXTENDS NamespaceInvariant, SequenceTheorems, Induction

-----------------------------------------------------------------------------
(* Groups and inumbers, and the ends of sequences.                         *)

(* Every inumber is in its group.                                          *)
LEMMA GroupsCover ==
  ASSUME NEW i \in INumbers
  PROVE  GroupOf(i) \in Groups /\ i \in INodesOf(GroupOf(i))
<1> DEFINE n == InodesPerGroup
           g == (i - 1) \div n
<1>1. n \in Nat /\ n > 0 /\ GroupCount \in Nat /\ GroupCount > 0
  BY SizeAssumption
<1>2. i \in Nat /\ 1 <= i /\ i <= GroupCount * n
  <2>1. GroupCount * n \in Int
    BY <1>1
  <2>2. QED BY <2>1 DEF INumbers
<1>3. g \in Int /\ g * n <= i - 1 /\ i - 1 < (g + 1) * n
  <2>1. i - 1 = n * ((i - 1) \div n) + ((i - 1) % n) /\ (i - 1) % n \in 0 .. (n - 1)
    BY <1>1, <1>2
  <2>2. g \in Int
    BY <1>1, <1>2
  <2>3. g * n = n * g /\ (g + 1) * n = n * g + n
    BY <1>1, <2>2
  <2> QED BY <1>1, <1>2, <2>1, <2>2, <2>3
<1>4. 0 <= g
  BY <1>1, <1>2, <1>3
<1>5. g < GroupCount
  <2>1. SUFFICES ASSUME g >= GroupCount PROVE FALSE
    BY <1>1, <1>3
  <2>2. g * n >= GroupCount * n
    BY <2>1, <1>1, <1>3
  <2>3. GroupCount * n \in Int /\ g * n \in Int
    BY <1>1, <1>3
  <2> QED BY <2>2, <2>3, <1>2, <1>3
<1>6. i \in (g * n + 1) .. ((g + 1) * n)
  BY <1>1, <1>2, <1>3
<1> QED BY <1>1, <1>3, <1>4, <1>5, <1>6 DEF GroupOf, Groups, INodesOf

LEMMA GroupsInside ==
  ASSUME NEW g \in Groups
  PROVE  INodesOf(g) \subseteq INumbers
<1> DEFINE n == InodesPerGroup
<1>1. n \in Nat /\ n > 0 /\ GroupCount \in Nat /\ GroupCount > 0
  BY SizeAssumption
<1>2. g \in Nat /\ g + 1 <= GroupCount
  BY <1>1 DEF Groups
<1>3. g * n \in Nat /\ (g + 1) * n \in Nat /\ GroupCount * n \in Nat
  BY <1>1, <1>2
<1>4. (g + 1) * n <= GroupCount * n
  BY <1>1, <1>2
<1> QED BY <1>3, <1>4 DEF INodesOf, INumbers

LEMMA RootIsANumber == Root \in INumbers /\ Root \in Nat /\ IsFiniteSet(INumbers)
                       /\ IsFiniteSet(Extents) /\ INumbers \subseteq Nat \ {0}
                       /\ None \notin Extents /\ None \notin INumbers
<1>1. GroupCount * InodesPerGroup \in Nat /\ GroupCount * InodesPerGroup >= 1
  BY SizeAssumption
<1>2. IsFiniteSet(1 .. (GroupCount * InodesPerGroup))
  BY <1>1, FS_Interval
<1>3. IsFiniteSet(1 .. ExtentCount)
  BY SizeAssumption, FS_Interval
<1> QED BY <1>1, <1>2, <1>3, SizeAssumption DEF Root, INumbers, Extents, None

LEMMA MadeNumbers ==
  /\ Made \in Seq(Names) /\ Len(Made) \in Nat /\ DOMAIN Made = 1 .. Len(Made)
  /\ 1 .. (Len(Made) + 1) \subseteq INumbers
<1>1. Made \in Seq(Names) /\ Len(Made) \in Nat /\ DOMAIN Made = 1 .. Len(Made)
  <2>1. Made \in Seq(Names \ Unstorable)
    BY CallerAssumption
  <2>2. Made \in Seq(Names)
    BY <2>1, SeqMonotonic
  <2> QED BY <2>1, <2>2
<1>2. Len(Made) + 1 <= InodesPerGroup /\ InodesPerGroup \in Nat
  BY CallerAssumption, SizeAssumption, <1>1
<1>3. InodesPerGroup <= GroupCount * InodesPerGroup /\ GroupCount * InodesPerGroup \in Nat
  BY SizeAssumption
<1> QED BY <1>1, <1>2, <1>3 DEF INumbers

LEMMA NearestIsFree ==
  ASSUME bits \subseteq INumbers, bits # INumbers, NEW t \in Tasks,
         loc[t].parent.inumber \in INumbers
  PROVE  Nearest(t) \in Groups /\ FreeIn(Nearest(t)) # {}
<1>1. PICK i \in INumbers : i \notin bits
  OBVIOUS
<1>2. GroupOf(i) \in Groups /\ FreeIn(GroupOf(i)) # {}
  BY <1>1, GroupsCover DEF FreeIn
<1> DEFINE h == GroupOf(loc[t].parent.inumber)
           n == GroupCount
<1>3. h \in Groups /\ n \in Nat \ {0} /\ Groups = 0 .. (n - 1)
  BY GroupsCover, SizeAssumption DEF Groups
<1> HIDE DEF h, n
<1> DEFINE F(k) == FreeIn((h + k) % n) # {}
           K == {k \in Groups : F(k)}
<1>4. \E k \in Groups : (h + k) % n = GroupOf(i)
  <2> DEFINE g == GroupOf(i)
  <2>1. g \in 0 .. (n - 1) /\ h \in 0 .. (n - 1)
    BY <1>2, <1>3
  <2> HIDE DEF g
  <2>2. CASE g >= h
    <3>1. (g - h) \in 0 .. (n - 1) /\ (h + (g - h)) % n = g
      BY <2>1, <2>2, <1>3
    <3> QED BY <3>1, <1>3 DEF g
  <2>3. CASE g < h
    <3>1. (g - h + n) \in 0 .. (n - 1) /\ (h + (g - h + n)) = g + n
      BY <2>1, <2>3, <1>3
    <3>2. (g + n) % n = g
      BY <2>1, <1>3
    <3> QED BY <3>1, <3>2, <1>3 DEF g
  <2> QED BY <2>1, <2>2, <2>3, <1>3
<1>5. \E k \in Groups : F(k)
  BY <1>2, <1>4
<1> HIDE DEF F
<1>6. PICK k \in K : \A j \in K : k <= j
  <2>1. K # {} /\ K \in SUBSET Nat
    BY <1>3, <1>5
  <2> QED BY <2>1, LeastExists
<1>7. (h + k) % n \in Groups
  BY <1>3, <1>6
<1>8. \A j \in 0 .. (k - 1) : ~F(j)
  BY <1>3, <1>6
<1>9. \E g \in Groups : \E m \in Groups :
        /\ g = GroupFrom(t, m) /\ FreeIn(g) # {}
        /\ \A j \in 0 .. (m - 1) : FreeIn(GroupFrom(t, j)) = {}
  <2>1. \A m : GroupFrom(t, m) = (h + m) % n
    BY DEF GroupFrom, h, n
  <2>2. \A j \in 0 .. (k - 1) : FreeIn(GroupFrom(t, j)) = {}
    BY <1>8, <2>1 DEF F
  <2>3. FreeIn(GroupFrom(t, k)) # {} /\ GroupFrom(t, k) \in Groups /\ k \in Groups
    BY <1>6, <1>7, <2>1 DEF F
  <2> QED BY <2>2, <2>3
<1> QED BY <1>9 DEF Nearest

(* What allocate_inode_near finds is free.                                 *)
LEMMA ChosenIsFree ==
  ASSUME NEW S, S \subseteq Nat, S # {}
  PROVE  (CHOOSE i \in S : \A j \in S : i <= j) \in S
<1>1. \E i \in S : \A j \in S : i <= j
  BY LeastExists
<1> QED BY <1>1

LEMMA FreshIsFree ==
  ASSUME used \subseteq Extents, ~Full
  PROVE  Fresh \in Extents \ used
<1>1. \E e \in Extents : e \notin used
  BY DEF Full
<1>2. Extents \subseteq Nat
  BY SizeAssumption DEF Extents
<1> DEFINE S == Extents \ used
<1>3. S # {} /\ S \subseteq Nat
  BY <1>1, <1>2
<1> HIDE DEF S
<1>4. (CHOOSE e \in S : \A f \in S : e <= f) \in S
  BY <1>3, ChosenIsFree
<1> QED BY <1>4 DEF Fresh, S

LEMMA PathTypes ==
  ASSUME NEW t \in Tasks, NEW p \in PathsOf(t)
  PROVE  /\ p \in Seq(Names) /\ p # <<>> /\ Len(p) > Len(Home[t])
         /\ Len(p) \in Nat \ {0} /\ Len(Home[t]) \in Nat /\ NameOf(p) \in Names
         /\ ParentOf(p) \in Seq(Names) /\ Len(ParentOf(p)) = Len(p) - 1
         /\ \A k \in 1 .. (Len(p) - 1) : ParentOf(p)[k] = p[k]
<1>1. Home[t] \in Seq(Names) /\ Len(Home[t]) \in Nat
  BY CallerAssumption
<1>2. PICK n \in 0 .. MaxDepth : p \in [1 .. n -> Names]
  BY DEF PathsOf, Paths
<1>3. n \in Nat
  BY <1>2, SizeAssumption
<1>4. p \in Seq(Names) /\ Len(p) = n /\ Len(p) > Len(Home[t])
  BY <1>2, <1>3 DEF PathsOf
<1>5. p[Len(p)] \in Names
  BY <1>1, <1>4
<1> QED BY <1>1, <1>3, <1>4, <1>5 DEF NameOf, ParentOf

LEMMA NonEmptySequence ==
  ASSUME NEW S, NEW p \in Seq(S), p # <<>>
  PROVE  /\ p[Len(p)] \in S /\ ParentOf(p) \in Seq(S)
         /\ Head(p) \in S /\ Tail(p) \in Seq(S)
         /\ Len(ParentOf(p)) = Len(p) - 1 /\ Len(p) \in Nat \ {0}
         /\ \A k \in 1 .. (Len(p) - 1) : ParentOf(p)[k] = p[k]
<1>1. Len(p) \in Nat \ {0}
  BY EmptySeq, LenProperties
<1>2. p[Len(p)] \in S
  BY <1>1, ElementOfSeq
<1> DEFINE q == SubSeq(p, 1, Len(p) - 1)
<1>3. q \in Seq(S) /\ Len(q) = Len(p) - 1 /\ \A k \in 1 .. (Len(p) - 1) : q[k] = p[k]
  <2>1. \A i \in 1 .. (Len(p) - 1) : p[i] \in S
    BY <1>1, ElementOfSeq
  <2>2. (Len(p) - 1) - 1 + 1 = Len(p) - 1 /\ Len(p) - 1 \in Int /\ 1 \in Int
    BY <1>1
  <2>3. /\ q \in Seq(S)
        /\ Len(q) = IF 1 <= Len(p) - 1 THEN (Len(p) - 1) - 1 + 1 ELSE 0
        /\ \A i \in 1 .. ((Len(p) - 1) - 1 + 1) : q[i] = p[1 + i - 1]
    BY <2>1, <2>2, SubSeqProperties
  <2> HIDE DEF q
  <2>4. Len(q) = Len(p) - 1
    <3> DEFINE n == Len(p)
    <3>1. n \in Nat \ {0} /\ Len(q) = IF 1 <= n - 1 THEN (n - 1) - 1 + 1 ELSE 0
      BY <1>1, <2>3
    <3> SUFFICES Len(q) = n - 1
      OBVIOUS
    <3> HIDE DEF n
    <3> QED BY <3>1
  <2>5. ASSUME NEW k \in 1 .. (Len(p) - 1) PROVE q[k] = p[k]
    <3>1. 1 + k - 1 = k
      BY <1>1
    <3> QED BY <3>1, <2>2, <2>3
  <2> QED BY <2>3, <2>4, <2>5
<1>4. Head(p) \in S /\ Tail(p) \in Seq(S)
  BY HeadTailProperties
<1> QED BY <1>1, <1>2, <1>3, <1>4 DEF ParentOf

LEMMA PathNonEmpty ==
  ASSUME NEW p \in Seq(Names), p # <<>>
  PROVE  /\ NameOf(p) \in Names /\ ParentOf(p) \in Seq(Names)
         /\ Head(p) \in Names /\ Tail(p) \in Seq(Names)
         /\ Len(ParentOf(p)) = Len(p) - 1 /\ Len(p) \in Nat \ {0}
         /\ \A k \in 1 .. (Len(p) - 1) : ParentOf(p)[k] = p[k]
  BY NonEmptySequence DEF NameOf

LEMMA StackTop ==
  ASSUME NEW p \in Seq(INumbers), p # <<>>
  PROVE  /\ NameOf(p) \in INumbers /\ ParentOf(p) \in Seq(INumbers)
         /\ Len(ParentOf(p)) = Len(p) - 1 /\ Len(p) \in Nat \ {0}
         /\ \A k \in 1 .. (Len(p) - 1) : ParentOf(p)[k] = p[k]
  BY NonEmptySequence DEF NameOf

-----------------------------------------------------------------------------
(* Types of the parts of the state, and what Fail, Return and a store      *)
(* change. Moves is a step of the control of t, Others says that no other  *)
(* task moves, Stores that some bytes are given an extent, or need none.   *)

(* The task t goes on at label with the locals r. *)
Moves(t, label, r) ==
  /\ pc' = [pc EXCEPT ![t] = label]
  /\ loc' = [loc EXCEPT ![t] = r]

Others(t) ==
  \A u \in Tasks \ {t} : pc'[u] = pc[u] /\ op'[u] = op[u] /\ loc'[u] = loc[u]

(* b is stored in e, or is nothing and needs no extent. *)
Stores(b, e) ==
  /\ guard = NoTask
  /\ \/ b.form = "blank" /\ e = None /\ UNCHANGED <<used, disk>>
     \/ /\ b.form # "blank"
        /\ e \in Extents \ used
        /\ used' = used \cup {e}
        /\ disk' = [disk EXCEPT ![e] = b]

LEMMA IdleTyped == Idle \in Locals /\ NoINode \in INode /\ Blank \in Content
<1>1. NoINode \in INode
  BY DEF NoINode, INode, Kinds
<1>2. <<>> \in Seq(Names) /\ <<>> \in Seq(INumbers)
  BY EmptySeq
<1>3. Idle \in Locals
  BY <1>1, <1>2 DEF Idle, Locals
<1>4. Blank \in Content
  BY <1>2 DEF Blank, Content
<1> QED BY <1>1, <1>3, <1>4

LEMMA MovesFacts ==
  ASSUME StateTyped, NEW t \in Tasks, NEW label \in PCs, NEW r \in Locals,
         Moves(t, label, r)
  PROVE  /\ pc' \in [Tasks -> PCs] /\ loc' \in [Tasks -> Locals]
         /\ pc'[t] = label /\ loc'[t] = r
         /\ \A u \in Tasks \ {t} : pc'[u] = pc[u] /\ loc'[u] = loc[u]
  BY DEF Moves, StateTyped

(* An operation that fails leaves its extents lost and its inodes orphans. *)
LEMMA FailFacts ==
  ASSUME StateTyped, NEW t \in Tasks, Fail(t)
  PROVE  /\ Moves(t, "idle", Idle)
         /\ op' = [op EXCEPT ![t] = "ls"]
         /\ lost' = lost \cup loc[t].held
         /\ orphans' = orphans \cup loc[t].born
         /\ doomed' = doomed \cup loc[t].doomed
         /\ UNCHANGED <<bits, inodes, used, disk, guard, clobbered, crashes>>
         /\ Others(t)
         /\ pc'[t] = "idle" /\ op'[t] = "ls" /\ loc'[t] = Idle
  BY DEF Fail, Return, Goto, Moves, Others, StateTyped, device

(* An operation that returns keeps nothing.                                *)
LEMMA ReturnFacts ==
  ASSUME StateTyped, NEW t \in Tasks, Return(t)
  PROVE  /\ Moves(t, "idle", Idle)
         /\ op' = [op EXCEPT ![t] = "ls"]
         /\ Others(t)
         /\ pc'[t] = "idle" /\ op'[t] = "ls" /\ loc'[t] = Idle
  BY DEF Return, Goto, Moves, Others, StateTyped

LEMMA LocalsTyped ==
  ASSUME StateTyped, NEW t \in Tasks
  PROVE  /\ loc[t] \in Locals
         /\ loc[t].path \in Seq(Names) /\ loc[t].dest \in Seq(Names)
         /\ loc[t].body \in Bodies \cup {"empty"}
         /\ loc[t].rest \in Seq(Names) /\ loc[t].stack \in Seq(INumbers)
         /\ loc[t].node \in INode /\ loc[t].parent \in INode
         /\ loc[t].dparent \in INode /\ loc[t].child \in INode
         /\ loc[t].target \in INode /\ loc[t].put \in INode
         /\ loc[t].dput \in INode
         /\ loc[t].dir \in SUBSET Entry /\ loc[t].ddir \in SUBSET Entry
         /\ loc[t].inum \in INumbers \cup {None}
         /\ loc[t].snap \in SUBSET INumbers
         /\ loc[t].old \in Extents \cup {None}
         /\ loc[t].dold \in Extents \cup {None}
         /\ loc[t].held \in SUBSET Extents
         /\ loc[t].born \in SUBSET INumbers
         /\ loc[t].doomed \in SUBSET INumbers
         /\ pc[t] \in PCs /\ op[t] \in AllOps
<1>1. loc[t] \in Locals /\ pc[t] \in PCs /\ op[t] \in AllOps
  BY DEF StateTyped
<1> QED BY <1>1 DEF Locals

LEMMA INodeFields ==
  ASSUME NEW x \in INode
  PROVE  /\ x.inumber \in INumbers \cup {None} /\ x.kind \in Kinds
         /\ x.nlink \in Nat /\ x.ext \in Extents \cup {None}
         /\ \A e \in Extents \cup {None} :
              /\ [x EXCEPT !.ext = e] \in INode
              /\ [x EXCEPT !.ext = e].inumber = x.inumber
              /\ [x EXCEPT !.ext = e].kind = x.kind
              /\ [x EXCEPT !.ext = e].nlink = x.nlink
              /\ [x EXCEPT !.ext = e].ext = e
         /\ \A n \in Nat :
              /\ [x EXCEPT !.nlink = n] \in INode
              /\ [x EXCEPT !.nlink = n].inumber = x.inumber
              /\ [x EXCEPT !.nlink = n].kind = x.kind
              /\ [x EXCEPT !.nlink = n].nlink = n
              /\ [x EXCEPT !.nlink = n].ext = x.ext
  BY DEF INode

LEMMA BytesTyped ==
  ASSUME StateTyped, NEW e \in Extents \cup {None}
  PROVE  /\ Bytes(e) \in Content
         /\ Bytes(e).form \in {"blank", "dir", "data", "path", "number"}
         /\ Bytes(e).entries \in SUBSET Entry
         /\ Bytes(e).path \in Seq(Names)
         /\ Bytes(e).target \in INumbers \cup {None}
<1>1. Bytes(e) \in Content
  BY IdleTyped, RootIsANumber DEF Bytes, StateTyped
<1> QED BY <1>1 DEF Content

LEMMA BoundTyped ==
  ASSUME NEW d \in SUBSET Entry, NEW n, Binds(d, n)
  PROVE  /\ Bound(d, n) \in INumbers /\ n \in Names
         /\ \E e \in d : e.name = n /\ e.inumber = Bound(d, n)
<1>1. (CHOOSE e \in d : e.name = n) \in d /\ (CHOOSE e \in d : e.name = n).name = n
  BY DEF Binds
<1> QED BY <1>1 DEF Bound, Entry

LEMMA EntriesTyped ==
  ASSUME NEW d \in SUBSET Entry, NEW n
  PROVE  /\ Without(d, n) \in SUBSET Entry
         /\ n \in Names => \A i \in INumbers : With(d, n, i) \in SUBSET Entry
  BY DEF Without, With, Entry

LEMMA FoundTyped ==
  ASSUME StateTyped, Numbered, NEW i \in bits \cup {Root}
  PROVE  /\ i \in INumbers /\ inodes[i] \in INode /\ inodes[i].inumber = i
         /\ inodes[i].inumber # None
  BY RootIsANumber DEF StateTyped, Numbered

LEMMA StoresFacts ==
  ASSUME StateTyped, NEW b \in Content, NEW e, Stores(b, e)
  PROVE  /\ used' \subseteq Extents /\ disk' \in [Extents -> Content]
         /\ e \in Extents \cup {None}
         /\ b.form # "blank" => e # None
  BY RootIsANumber DEF StateTyped, Stores

LEMMA AllocatesIsStores ==
  ASSUME StateTyped, NEW b, NEW e, Allocates(b, e)
  PROVE  Stores(b, e)
  BY FreshIsFree DEF Allocates, Stores, StateTyped

(* Where content is stored for an inode, an extent is found or the         *)
(* operation fails.                                                        *)
LEMMA StoreForFacts ==
  ASSUME StateTyped, NEW t \in Tasks, NEW b \in Content, NEW x \in INode,
         NEW label \in PCs, StoreFor(t, b, x, label)
  PROVE  \/ Fail(t)
         \/ \E e \in Extents \cup {None} :
              /\ Stores(b, e)
              /\ Moves(t, label,
                   [loc[t] EXCEPT !.put = [x EXCEPT !.ext = e], !.old = x.ext,
                                  !.held = loc[t].held \cup ({e} \ {None})])
              /\ UNCHANGED <<bits, inodes, guard, op, lost, orphans, doomed,
                             clobbered, crashes>>
<1>1. CASE Insufficient(b) /\ Fail(t)
  BY <1>1
<1>2. ASSUME NEW e \in Extents \cup {None},
             Allocates(b, e),
             loc' = [loc EXCEPT ![t].put = [x EXCEPT !.ext = e],
                                ![t].old = x.ext,
                                ![t].held = @ \cup ({e} \ {None})],
             Goto(t, label),
             UNCHANGED <<bits, inodes, guard, op, history>>
      PROVE  /\ Stores(b, e)
             /\ Moves(t, label,
                  [loc[t] EXCEPT !.put = [x EXCEPT !.ext = e], !.old = x.ext,
                                 !.held = loc[t].held \cup ({e} \ {None})])
             /\ UNCHANGED <<bits, inodes, guard, op, lost, orphans, doomed,
                            clobbered, crashes>>
  <2>1. Stores(b, e)
    BY <1>2, AllocatesIsStores
  <2>2. loc' = [loc EXCEPT ![t] = [loc[t] EXCEPT
                  !.put = [x EXCEPT !.ext = e], !.old = x.ext,
                  !.held = loc[t].held \cup ({e} \ {None})]]
    BY <1>2 DEF StateTyped
  <2> QED BY <1>2, <2>1, <2>2 DEF Moves, Goto, history
<1> QED BY <1>1, <1>2 DEF StoreFor

(* Only the task that steps has to be looked at.                           *)
LEMMA TypedStep ==
  ASSUME Typed, NEW t \in Tasks, StateTyped', Numbered', Others(t),
         Placed(t)', Supplied(t)'
  PROVE  Typed'
<1>1. ASSUME NEW u \in Tasks \ {t} PROVE Placed(u)' /\ Supplied(u)'
  <2>1. pc'[u] = pc[u] /\ op'[u] = op[u] /\ loc'[u] = loc[u]
    BY DEF Others
  <2>2. Placed(u) /\ Supplied(u)
    BY DEF Typed
  <2>3. Placed(u)'
    BY <2>1, <2>2 DEF Placed
  <2>4. Supplied(u)'
    BY <2>1, <2>2 DEF Supplied
  <2> QED BY <2>3, <2>4
<1> QED BY <1>1 DEF Typed

LEMMA IdlePlaced ==
  ASSUME NEW t \in Tasks, pc'[t] = "idle", op'[t] = "ls", loc'[t] = Idle
  PROVE  Placed(t)' /\ Supplied(t)'
<1>1. Idle.dparent = NoINode
  BY DEF Idle
<1> QED BY <1>1 DEF Placed, Supplied, Walks, Deleting, Creating, Linking

LEMMA StepNumbered ==
  ASSUME Typed, NEW t \in Tasks, Others(t), StateTyped',
         UNCHANGED <<inodes>>, bits' \subseteq bits \cup loc[t].snap,
         \A i \in loc'[t].snap : inodes[i].inumber = i
  PROVE  Numbered'
  BY DEF Typed, Numbered, Others

(* An operation that fails leaves everything typed.                        *)
LEMMA TypedFail ==
  ASSUME Typed, NEW t \in Tasks, Fail(t)
  PROVE  Typed'
<1>1. /\ Moves(t, "idle", Idle)
      /\ op' = [op EXCEPT ![t] = "ls"]
      /\ lost' = lost \cup loc[t].held
      /\ orphans' = orphans \cup loc[t].born
      /\ doomed' = doomed \cup loc[t].doomed
      /\ UNCHANGED <<bits, inodes, used, disk, guard, clobbered, crashes>>
      /\ Others(t)
      /\ pc'[t] = "idle" /\ op'[t] = "ls" /\ loc'[t] = Idle
  BY FailFacts DEF Typed
<1>2. StateTyped'
  <2>1. "idle" \in PCs /\ "ls" \in AllOps
    BY DEF PCs, AllOps
  <2>2. pc' \in [Tasks -> PCs] /\ loc' \in [Tasks -> Locals]
    BY <1>1, <2>1, IdleTyped, MovesFacts DEF Typed
  <2>3. op' \in [Tasks -> AllOps]
    BY <1>1, <2>1 DEF Typed, StateTyped
  <2> QED BY <1>1, <2>2, <2>3, LocalsTyped DEF Typed, StateTyped
<1>3. Numbered'
  BY <1>1, <1>2, StepNumbered DEF Idle
<1> QED BY <1>1, <1>2, <1>3, IdlePlaced, TypedStep

-----------------------------------------------------------------------------
(* Steps that change the locals of one task and nothing on the device.     *)

(* Everything but the task's own locals and operation is left alone. *)
Kept == UNCHANGED <<bits, inodes, used, disk, guard, lost, orphans, doomed,
                    clobbered, crashes>>
(* A step that changes the locals of t to r and nothing else. *)
Steps(t, label, r) == Moves(t, label, r) /\ Kept /\ op' = op

LEMMA PrivateKept ==
  ASSUME NEW t \in Tasks, NEW label, NEW r, Moves(t, label, r), Private
  PROVE  Steps(t, label, r)
  BY DEF Private, Kept, Steps, device, history

LEMMA StepsFacts ==
  ASSUME StateTyped, NEW t \in Tasks, NEW label \in PCs, NEW r \in Locals,
         Steps(t, label, r)
  PROVE  /\ pc' \in [Tasks -> PCs] /\ loc' \in [Tasks -> Locals]
         /\ pc'[t] = label /\ loc'[t] = r /\ op'[t] = op[t]
         /\ Others(t) /\ StateTyped'
<1>1. /\ pc' \in [Tasks -> PCs] /\ loc' \in [Tasks -> Locals]
      /\ pc'[t] = label /\ loc'[t] = r
      /\ \A u \in Tasks \ {t} : pc'[u] = pc[u] /\ loc'[u] = loc[u]
  BY MovesFacts DEF Steps
<1>2. op' = op /\ Kept
  BY DEF Steps
<1> QED BY <1>1, <1>2 DEF Others, StateTyped, Kept

LEMMA TypedSteps ==
  ASSUME Typed, NEW t \in Tasks, NEW label \in PCs, NEW r \in Locals,
         Steps(t, label, r),
         \A i \in r.snap : inodes[i].inumber = i,
         Placed(t)', Supplied(t)'
  PROVE  Typed'
<1>1. /\ pc'[t] = label /\ loc'[t] = r /\ op'[t] = op[t]
      /\ Others(t) /\ StateTyped'
  BY StepsFacts DEF Typed
<1>2. Numbered'
  BY <1>1, StepNumbered DEF Steps, Kept
<1> QED BY <1>1, <1>2, TypedStep

(* A step of a walk. *)
LEMMA WalkSteps ==
  ASSUME Typed, NEW t \in Tasks, Walk(t)
  PROVE  \/ Fail(t)
         \/ LET i == Bound(Bytes(loc[t].node.ext).entries, Head(loc[t].rest))
                r == [loc[t] EXCEPT !.node = inodes[i], !.rest = Tail(loc[t].rest)]
            IN  /\ Resolves(loc[t].node, Head(loc[t].rest)) /\ i \in bits
                /\ r \in Locals /\ r.snap = loc[t].snap
                /\ Steps(t, pc[t], r)
<1> DEFINE i == Bound(Bytes(loc[t].node.ext).entries, Head(loc[t].rest))
           r == [loc[t] EXCEPT !.node = inodes[i], !.rest = Tail(loc[t].rest)]
<1> SUFFICES ASSUME Resolves(loc[t].node, Head(loc[t].rest)), ~Fail(t)
             PROVE  i \in bits /\ r \in Locals /\ r.snap = loc[t].snap
                    /\ Steps(t, pc[t], r)
  BY DEF Walk
<1>1. i \in bits
  BY DEF Resolves, Resolvable
<1>2. inodes[i] \in INode
  BY <1>1, FoundTyped DEF Typed
<1>3. Tail(loc[t].rest) \in Seq(Names) /\ loc[t] \in Locals
  BY LocalsTyped, NonEmptySequence DEF Typed, Walk
<1>4. r \in Locals /\ r.snap = loc[t].snap
  BY <1>2, <1>3 DEF Locals
<1>5. loc' = [loc EXCEPT ![t].node = inodes[i], ![t].rest = Tail(@)] /\ pc' = pc
      /\ Private
  BY DEF Walk
<1>6. Moves(t, pc[t], r)
  BY <1>5 DEF Moves, Typed, StateTyped, Locals
<1> QED BY <1>1, <1>4, <1>5, <1>6, PrivateKept

LEMMA TypedWalk ==
  ASSUME Typed, NEW t \in Tasks, Walk(t)
  PROVE  Typed'
<1> DEFINE i == Bound(Bytes(loc[t].node.ext).entries, Head(loc[t].rest))
           r == [loc[t] EXCEPT !.node = inodes[i], !.rest = Tail(loc[t].rest)]
<1>1. CASE Fail(t)
  BY <1>1, TypedFail
<1>2. CASE i \in bits /\ r \in Locals /\ r.snap = loc[t].snap /\ Steps(t, pc[t], r)
  <2>1. inodes[i].inumber # None
    BY <1>2, FoundTyped DEF Typed
  <2>2. /\ r.node = inodes[i] /\ r.parent = loc[t].parent /\ r.target = loc[t].target
        /\ r.dparent = loc[t].dparent /\ r.path = loc[t].path /\ r.dest = loc[t].dest
    BY LocalsTyped DEF Locals, Typed
  <2>3. pc[t] \in PCs /\ Placed(t) /\ Supplied(t) /\ pc[t] \in Walks \ {"mkdir"}
    BY DEF Typed, StateTyped, Walk, Walks
  <2>4. pc'[t] = pc[t] /\ loc'[t] = r /\ op'[t] = op[t]
    BY <1>2, <2>3, StepsFacts DEF Typed
  <2> HIDE DEF r
  <2>5. Placed(t)'
    BY <2>3, <2>4 DEF Placed, Walks
  <2>6. Supplied(t)'
    BY <2>1, <2>2, <2>3, <2>4 DEF Placed, Supplied, Walks, Deleting, Linking, Creating
  <2>7. \A j \in r.snap : inodes[j].inumber = j
    BY <1>2 DEF Typed, Numbered
  <2> QED BY <1>2, <2>3, <2>5, <2>6, <2>7, TypedSteps
<1> QED BY <1>1, <1>2, WalkSteps

-----------------------------------------------------------------------------
(* What each action does, said without LET and IF, so that a proof can     *)
(* take its cases: it fails, or it steps with these locals. First the      *)
(* lookups at the end of a walk.                                           *)

LEMMA HereTyped ==
  ASSUME Typed, NEW t \in Tasks
  PROVE  /\ Reached(t) \in Content /\ EntriesHere(t) \in SUBSET Entry
         /\ Reached(t).path \in Seq(Names)
         /\ Reached(t).target \in INumbers \cup {None}
         /\ \A e \in Extents \cup {None} :
              /\ Bytes(e).entries \in SUBSET Entry
              /\ Bytes(e).target \in INumbers \cup {None}
         /\ inodes[Root] \in INode /\ inodes[Root].inumber = Root /\ Root # None
<1>1. loc[t].node.ext \in Extents \cup {None}
  BY LocalsTyped, INodeFields DEF Typed
<1>2. inodes[Root] \in INode /\ inodes[Root].inumber = Root /\ Root # None
  BY FoundTyped, RootIsANumber DEF Typed
<1> QED BY <1>1, <1>2, BytesTyped DEF Reached, EntriesHere, Typed

LEMMA ContentResolvedSteps ==
  ASSUME Typed, NEW t \in Tasks, ContentResolved(t)
  PROVE  \/ Fail(t)
         \/ \E r \in Locals :
              /\ op[t] = "hardlink" => loc[t].node.kind = "File"
              /\ r = [loc[t] EXCEPT !.target = loc[t].node,
                                    !.node = inodes[Root],
                                    !.rest = ParentOf(loc[t].path)]
              /\ Steps(t, "parent", r)
<1> DEFINE r == [loc[t] EXCEPT !.target = loc[t].node, !.node = inodes[Root],
                               !.rest = ParentOf(loc[t].path)]
<1> SUFFICES ASSUME ~Fail(t) PROVE r \in Locals /\ Steps(t, "parent", r)
                                  /\ (op[t] = "hardlink" => loc[t].node.kind = "File")
  OBVIOUS
<1>1. loc[t].path # <<>>
  BY DEF Typed, Placed, Supplied, ContentResolved, At, Linking
<1>2. ParentOf(loc[t].path) \in Seq(Names)
  BY <1>1, LocalsTyped, PathNonEmpty DEF Typed
<1>3. loc[t] \in Locals /\ loc[t].node \in INode /\ inodes[Root] \in INode
  BY LocalsTyped, HereTyped DEF Typed
<1>4. r \in Locals
  BY <1>2, <1>3 DEF Locals
<1>5. Moves(t, "parent", r)
  BY DEF ContentResolved, Moves, Goto, Typed, StateTyped, Locals
<1> QED BY <1>4, <1>5, PrivateKept DEF ContentResolved

LEMMA LookupWriteSteps ==
  ASSUME Typed, NEW t \in Tasks, LookupWrite(t)
  PROVE  LET n == NameOf(loc[t].path)
             d == EntriesHere(t)
         IN  \/ Fail(t)
             \/ \E r \in Locals :
                  /\ ~Unreadable(t) /\ ~Binds(d, n)
                  /\ r = [loc[t] EXCEPT !.parent = loc[t].node, !.dir = d]
                  /\ Steps(t, "data", r)
             \/ \E r \in Locals :
                  /\ ~Unreadable(t) /\ Binds(d, n) /\ Bound(d, n) \in bits
                  /\ Writable(t, inodes[Bound(d, n)])
                  /\ r = [loc[t] EXCEPT !.child = inodes[Bound(d, n)]]
                  /\ Steps(t, "replace", r)
<1> DEFINE n == NameOf(loc[t].path)
           d == EntriesHere(t)
           q == [loc[t] EXCEPT !.parent = loc[t].node, !.dir = d]
           r == [loc[t] EXCEPT !.child = inodes[Bound(d, n)]]
<1>0. loc[t] \in Locals /\ loc[t].node \in INode /\ d \in SUBSET Entry
  BY LocalsTyped, HereTyped DEF Typed
<1>1. CASE ~Unreadable(t) /\ ~Binds(d, n)
  <2>1. q \in Locals
    BY <1>0 DEF Locals
  <2>2. Moves(t, "data", q)
    BY <1>1 DEF LookupWrite, Moves, Goto, Typed, StateTyped, Locals
  <2> QED BY <1>1, <2>1, <2>2, PrivateKept DEF LookupWrite
<1>2. CASE ~Unreadable(t) /\ Binds(d, n) /\ ~Fail(t)
  <2>1. Bound(d, n) \in bits /\ Writable(t, inodes[Bound(d, n)])
    BY <1>2 DEF LookupWrite, Resolvable
  <2>2. inodes[Bound(d, n)] \in INode
    BY <2>1, FoundTyped DEF Typed
  <2>3. r \in Locals
    BY <1>0, <2>2 DEF Locals
  <2>4. Moves(t, "replace", r)
    BY <1>2 DEF LookupWrite, Moves, Goto, Typed, StateTyped, Locals
  <2> QED BY <1>2, <2>1, <2>3, <2>4, PrivateKept DEF LookupWrite
<1> QED BY <1>1, <1>2 DEF LookupWrite

LEMMA LookupUnlinkSteps ==
  ASSUME Typed, NEW t \in Tasks, LookupUnlink(t)
  PROVE  LET n == NameOf(loc[t].path)
             d == EntriesHere(t)
         IN  \/ Fail(t)
             \/ \E r \in Locals :
                  /\ ~Unreadable(t) /\ Binds(d, n) /\ Bound(d, n) \in bits
                  /\ Removable(inodes[Bound(d, n)])
                  /\ r = [loc[t] EXCEPT !.parent = loc[t].node,
                                        !.dir = Without(d, n),
                                        !.stack = <<Bound(d, n)>>]
                  /\ Steps(t, "links", r)
<1> DEFINE n == NameOf(loc[t].path)
           d == EntriesHere(t)
           r == [loc[t] EXCEPT !.parent = loc[t].node, !.dir = Without(d, n),
                               !.stack = <<Bound(d, n)>>]
<1> SUFFICES ASSUME ~Fail(t)
             PROVE  /\ ~Unreadable(t) /\ Binds(d, n) /\ Bound(d, n) \in bits
                    /\ Removable(inodes[Bound(d, n)])
                    /\ r \in Locals /\ Steps(t, "links", r)
  OBVIOUS
<1>0. loc[t] \in Locals /\ loc[t].node \in INode /\ Without(d, n) \in SUBSET Entry
  BY LocalsTyped, HereTyped, EntriesTyped DEF Typed
<1>1. /\ ~Unreadable(t) /\ Binds(d, n) /\ Bound(d, n) \in bits
      /\ Removable(inodes[Bound(d, n)])
  BY DEF LookupUnlink, Resolvable
<1>2. <<Bound(d, n)>> \in Seq(INumbers)
  BY <1>1 DEF Typed, StateTyped
<1>3. r \in Locals
  BY <1>0, <1>2 DEF Locals
<1>4. Moves(t, "links", r)
  BY <1>1 DEF LookupUnlink, Moves, Goto, Typed, StateTyped, Locals
<1> QED BY <1>1, <1>3, <1>4, PrivateKept DEF LookupUnlink

LEMMA SourceResolvedSteps ==
  ASSUME Typed, NEW t \in Tasks, SourceResolved(t)
  PROVE  \E r \in Locals :
           /\ r = [loc[t] EXCEPT !.parent = loc[t].node, !.node = inodes[Root],
                                 !.rest = ParentOf(loc[t].dest)]
           /\ Steps(t, "dest", r)
<1> DEFINE r == [loc[t] EXCEPT !.parent = loc[t].node, !.node = inodes[Root],
                               !.rest = ParentOf(loc[t].dest)]
<1>1. loc[t].dest # <<>>
  BY DEF Typed, Supplied, SourceResolved
<1>2. ParentOf(loc[t].dest) \in Seq(Names)
  BY <1>1, LocalsTyped, PathNonEmpty DEF Typed
<1>3. loc[t] \in Locals /\ loc[t].node \in INode /\ inodes[Root] \in INode
  BY LocalsTyped, HereTyped DEF Typed
<1>4. r \in Locals
  BY <1>2, <1>3 DEF Locals
<1>5. Moves(t, "dest", r)
  BY DEF SourceResolved, Moves, Goto, Typed, StateTyped, Locals
<1> QED BY <1>4, <1>5, PrivateKept DEF SourceResolved

LEMMA LookupMoveSteps ==
  ASSUME Typed, NEW t \in Tasks, LookupMove(t)
  PROVE  LET from == loc[t].parent
             to == loc[t].node
             source == Bytes(from.ext)
             sn == NameOf(loc[t].path)
             dn == NameOf(loc[t].dest)
             i == Bound(source.entries, sn)
         IN  \/ Fail(t)
             \/ /\ IsDirectory(source) /\ ~Unreadable(t)
                /\ Binds(source.entries, sn)
                /\ \/ \E r \in Locals :
                        /\ from.inumber = to.inumber
                        /\ ~Binds(source.entries, dn)
                        /\ r = [loc[t] EXCEPT
                                  !.dir = With(Without(source.entries, sn), dn, i)]
                        /\ Steps(t, "rewrite", r)
                   \/ \E r \in Locals :
                        /\ from.inumber # to.inumber
                        /\ ~Binds(EntriesHere(t), dn)
                        /\ r = [loc[t] EXCEPT
                                  !.dir = Without(source.entries, sn),
                                  !.dparent = to,
                                  !.ddir = With(EntriesHere(t), dn, i)]
                        /\ Steps(t, "rewrite", r)
<1> DEFINE from == loc[t].parent
           to == loc[t].node
           source == Bytes(from.ext)
           sn == NameOf(loc[t].path)
           dn == NameOf(loc[t].dest)
           i == Bound(source.entries, sn)
           q == [loc[t] EXCEPT !.dir = With(Without(source.entries, sn), dn, i)]
           r == [loc[t] EXCEPT !.dir = Without(source.entries, sn),
                               !.dparent = to,
                               !.ddir = With(EntriesHere(t), dn, i)]
<1> SUFFICES ASSUME ~Fail(t)
             PROVE  /\ IsDirectory(source) /\ ~Unreadable(t)
                    /\ Binds(source.entries, sn)
                    /\ \/ /\ from.inumber = to.inumber
                          /\ ~Binds(source.entries, dn)
                          /\ q \in Locals /\ Steps(t, "rewrite", q)
                       \/ /\ from.inumber # to.inumber
                          /\ ~Binds(EntriesHere(t), dn)
                          /\ r \in Locals /\ Steps(t, "rewrite", r)
  OBVIOUS
<1>0. /\ loc[t] \in Locals /\ to \in INode /\ from.ext \in Extents \cup {None}
      /\ EntriesHere(t) \in SUBSET Entry
  BY LocalsTyped, HereTyped, INodeFields DEF Typed
<1>1. source.entries \in SUBSET Entry
  BY <1>0, BytesTyped DEF Typed
<1>2. /\ IsDirectory(source) /\ ~Unreadable(t) /\ Binds(source.entries, sn)
      /\ ~Binds(IF from.inumber = to.inumber THEN source.entries
                ELSE EntriesHere(t), dn)
      /\ pc' = [pc EXCEPT ![t] = "rewrite"] /\ Private
      /\ loc' = IF from.inumber = to.inumber
                THEN [loc EXCEPT
                       ![t].dir = With(Without(source.entries, sn), dn, i)]
                ELSE [loc EXCEPT ![t].dir = Without(source.entries, sn),
                                 ![t].dparent = to,
                                 ![t].ddir = With(EntriesHere(t), dn, i)]
  BY DEF LookupMove, Goto
<1>3. i \in INumbers
  BY <1>1, <1>2, BoundTyped
<1>4. loc[t].dest # <<>>
  BY DEF Typed, Placed, Supplied, LookupMove, At
<1>5. dn \in Names
  BY <1>4, LocalsTyped, PathNonEmpty DEF Typed
<1>6. /\ Without(source.entries, sn) \in SUBSET Entry
      /\ With(Without(source.entries, sn), dn, i) \in SUBSET Entry
      /\ With(EntriesHere(t), dn, i) \in SUBSET Entry
  BY <1>0, <1>1, <1>3, <1>5, EntriesTyped
<1>7. CASE from.inumber = to.inumber
  <2>1. q \in Locals
    BY <1>0, <1>6 DEF Locals
  <2>2. Moves(t, "rewrite", q)
    BY <1>2, <1>7 DEF Moves, Typed, StateTyped, Locals
  <2> QED BY <1>2, <1>7, <2>1, <2>2, PrivateKept
<1>8. CASE from.inumber # to.inumber
  <2>1. r \in Locals
    BY <1>0, <1>6 DEF Locals
  <2>2. Moves(t, "rewrite", r)
    BY <1>2, <1>8 DEF Moves, Typed, StateTyped, Locals
  <2> QED BY <1>2, <1>8, <2>1, <2>2, PrivateKept
<1> QED BY <1>7, <1>8

LEMMA MkdirSteps ==
  ASSUME Typed, NEW t \in Tasks, MkdirComponent(t)
  PROVE  LET d == EntriesHere(t)
             n == Head(loc[t].rest)
         IN  \/ Fail(t)
             \/ Return(t) /\ Kept /\ loc[t].rest = <<>>
             \/ /\ loc[t].rest # <<>> /\ loc[t].node.kind = "Directory"
                /\ ~Unreadable(t)
                /\ \/ \E r \in Locals :
                        /\ Binds(d, n) /\ Bound(d, n) \in bits
                        /\ r = [loc[t] EXCEPT !.node = inodes[Bound(d, n)],
                                              !.rest = Tail(loc[t].rest)]
                        /\ Steps(t, pc[t], r)
                   \/ \E r \in Locals :
                        /\ ~Binds(d, n)
                        /\ r = [loc[t] EXCEPT !.parent = loc[t].node,
                                              !.dir = d, !.child = NoINode]
                        /\ Steps(t, "choose", r)
<1> DEFINE d == EntriesHere(t)
           n == Head(loc[t].rest)
           q == [loc[t] EXCEPT !.node = inodes[Bound(d, n)],
                               !.rest = Tail(loc[t].rest)]
           r == [loc[t] EXCEPT !.parent = loc[t].node, !.dir = d,
                               !.child = NoINode]
<1>1. CASE At(t, "mkdir") /\ Return(t) /\ UNCHANGED <<device, guard, history>>
  BY <1>1 DEF Kept, device, history, At
<1>2. CASE loc[t].rest # <<>> /\ ~Fail(t)
  <2>0. /\ loc[t] \in Locals /\ loc[t].node \in INode /\ d \in SUBSET Entry
        /\ Tail(loc[t].rest) \in Seq(Names)
    BY <1>2, LocalsTyped, HereTyped, PathNonEmpty DEF Typed
  <2>1. loc[t].node.kind = "Directory" /\ ~Unreadable(t)
        /\ (Binds(d, n) => Bound(d, n) \in bits) /\ Private
    BY <1>2 DEF MkdirComponent, At
  <2>2. CASE Binds(d, n)
    <3>1. inodes[Bound(d, n)] \in INode
      BY <2>1, <2>2, FoundTyped DEF Typed
    <3>2. q \in Locals
      BY <2>0, <3>1 DEF Locals
    <3>3. Moves(t, pc[t], q)
      BY <1>2, <2>2 DEF MkdirComponent, At, Moves, Goto, Typed, StateTyped, Locals
    <3> QED BY <1>2, <2>1, <2>2, <3>2, <3>3, PrivateKept
  <2>3. CASE ~Binds(d, n)
    <3>1. r \in Locals
      BY <2>0, IdleTyped DEF Locals
    <3>2. Moves(t, "choose", r)
      BY <1>2, <2>3 DEF MkdirComponent, At, Moves, Goto, Typed, StateTyped, Locals
    <3> QED BY <1>2, <2>1, <2>3, <3>1, <3>2, PrivateKept
  <2> QED BY <2>2, <2>3
<1> QED BY <1>1, <1>2 DEF MkdirComponent

-----------------------------------------------------------------------------
(* What each action does, continued: links, stores, and the two rewrites.  *)

LEMMA FollowSteps ==
  ASSUME Typed, NEW t \in Tasks, NEW label \in PCs, Follow(t, label)
  PROVE  \/ Fail(t)
         \/ \E r \in Locals :
              /\ loc[t].node.kind = "Symlink" /\ Reached(t).form = "path"
              /\ r = [loc[t] EXCEPT !.node = inodes[Root],
                                    !.rest = Reached(t).path]
              /\ Steps(t, label, r)
         \/ \E r \in Locals :
              /\ loc[t].node.kind = "Hardlink" /\ Reached(t).form = "number"
              /\ Reached(t).target \in bits
              /\ r = [loc[t] EXCEPT !.node = inodes[Reached(t).target],
                                    !.rest = <<>>]
              /\ Steps(t, label, r)
<1> DEFINE b == Reached(t)
           q == [loc[t] EXCEPT !.node = inodes[Root], !.rest = b.path]
           r == [loc[t] EXCEPT !.node = inodes[b.target], !.rest = <<>>]
<1>0. /\ loc[t] \in Locals /\ b.path \in Seq(Names) /\ inodes[Root] \in INode
      /\ <<>> \in Seq(Names)
  BY LocalsTyped, HereTyped, EmptySeq DEF Typed
<1>1. CASE loc[t].node.kind = "Symlink" /\ ~Fail(t)
  <2>1. b.form = "path" /\ FollowTo(t, inodes[Root], b.path, label)
    BY <1>1 DEF Follow
  <2>2. q \in Locals
    BY <1>0 DEF Locals
  <2>3. Moves(t, label, q)
    BY <2>1 DEF FollowTo, Moves, Goto, Typed, StateTyped, Locals
  <2> QED BY <1>1, <2>1, <2>2, <2>3, PrivateKept DEF FollowTo
<1>2. CASE loc[t].node.kind = "Hardlink" /\ ~Fail(t)
  <2>1. b.form = "number" /\ b.target \in bits
        /\ FollowTo(t, inodes[b.target], <<>>, label)
    BY <1>2 DEF Follow
  <2>2. inodes[b.target] \in INode
    BY <2>1, FoundTyped DEF Typed
  <2>3. r \in Locals
    BY <1>0, <2>2 DEF Locals
  <2>4. Moves(t, label, r)
    BY <2>1 DEF FollowTo, Moves, Goto, Typed, StateTyped, Locals
  <2> QED BY <1>2, <2>1, <2>3, <2>4, PrivateKept DEF FollowTo
<1> QED BY <1>1, <1>2 DEF Follow

LEMMA ListReachedSteps ==
  ASSUME Typed, NEW t \in Tasks, ListReached(t)
  PROVE  \/ Fail(t)
         \/ \E r \in Locals :
              /\ loc[t].node.kind = "Symlink" /\ Reached(t).form = "path"
              /\ r = [loc[t] EXCEPT !.path = Reached(t).path,
                                    !.node = inodes[Root],
                                    !.rest = Reached(t).path]
              /\ Steps(t, pc[t], r)
<1> DEFINE b == Reached(t)
           r == [loc[t] EXCEPT !.path = b.path, !.node = inodes[Root],
                               !.rest = b.path]
<1> SUFFICES ASSUME ~Fail(t)
             PROVE  /\ loc[t].node.kind = "Symlink" /\ Reached(t).form = "path"
                    /\ r \in Locals /\ Steps(t, pc[t], r)
  OBVIOUS
<1>0. /\ loc[t] \in Locals /\ b.path \in Seq(Names) /\ inodes[Root] \in INode
  BY LocalsTyped, HereTyped DEF Typed
<1>1. r \in Locals
  BY <1>0 DEF Locals
<1>2. Moves(t, pc[t], r)
  BY DEF ListReached, Moves, Goto, Typed, StateTyped, Locals
<1> QED BY <1>1, <1>2, PrivateKept DEF ListReached

(* What a store for the inode x leads to. *)
Puts(t, b, x, label) ==
  \E e \in Extents \cup {None}, r \in Locals :
    /\ Stores(b, e)
    /\ r = [loc[t] EXCEPT !.put = [x EXCEPT !.ext = e], !.old = x.ext,
                          !.held = loc[t].held \cup ({e} \ {None})]
    /\ Moves(t, label, r)
    /\ UNCHANGED <<bits, inodes, guard, op, lost, orphans, doomed, clobbered,
                   crashes>>

LEMMA StoreForPuts ==
  ASSUME Typed, NEW t \in Tasks, NEW b \in Content, NEW x \in INode,
         NEW label \in PCs, StoreFor(t, b, x, label), ~Fail(t)
  PROVE  Puts(t, b, x, label)
<1>1. PICK e \in Extents \cup {None} :
        /\ Stores(b, e)
        /\ Moves(t, label,
             [loc[t] EXCEPT !.put = [x EXCEPT !.ext = e], !.old = x.ext,
                            !.held = loc[t].held \cup ({e} \ {None})])
        /\ UNCHANGED <<bits, inodes, guard, op, lost, orphans, doomed,
                       clobbered, crashes>>
  BY StoreForFacts DEF Typed
<1> DEFINE r == [loc[t] EXCEPT !.put = [x EXCEPT !.ext = e], !.old = x.ext,
                               !.held = loc[t].held \cup ({e} \ {None})]
<1>2. /\ loc[t] \in Locals /\ [x EXCEPT !.ext = e] \in INode
      /\ x.ext \in Extents \cup {None}
      /\ loc[t].held \cup ({e} \ {None}) \in SUBSET Extents
  BY LocalsTyped, INodeFields DEF Typed
<1>3. r \in Locals
  BY <1>2 DEF Locals
<1> QED BY <1>1, <1>3 DEF Puts

LEMMA PutsTyped ==
  ASSUME Typed, NEW t \in Tasks, NEW b \in Content, NEW x \in INode,
         NEW label \in PCs, Puts(t, b, x, label)
  PROVE  /\ StateTyped' /\ Numbered' /\ Others(t)
         /\ pc'[t] = label /\ op'[t] = op[t]
         /\ \E e \in Extents \cup {None}, r \in Locals :
              /\ Stores(b, e) /\ loc'[t] = r
              /\ r = [loc[t] EXCEPT !.put = [x EXCEPT !.ext = e], !.old = x.ext,
                                    !.held = loc[t].held \cup ({e} \ {None})]
<1>1. PICK e \in Extents \cup {None}, r \in Locals :
        /\ Stores(b, e)
        /\ r = [loc[t] EXCEPT !.put = [x EXCEPT !.ext = e], !.old = x.ext,
                              !.held = loc[t].held \cup ({e} \ {None})]
        /\ Moves(t, label, r)
        /\ UNCHANGED <<bits, inodes, guard, op, lost, orphans, doomed, clobbered,
                       crashes>>
  BY DEF Puts
<1>2. used' \subseteq Extents /\ disk' \in [Extents -> Content]
  BY <1>1, StoresFacts DEF Typed
<1>3. /\ pc' \in [Tasks -> PCs] /\ loc' \in [Tasks -> Locals]
      /\ pc'[t] = label /\ loc'[t] = r
      /\ \A u \in Tasks \ {t} : pc'[u] = pc[u] /\ loc'[u] = loc[u]
  BY <1>1, MovesFacts DEF Typed
<1>4. StateTyped' /\ Others(t)
  BY <1>1, <1>2, <1>3 DEF Typed, StateTyped, Others
<1>5. r.snap = loc[t].snap
  BY <1>1, LocalsTyped DEF Typed, Locals
<1>6. Numbered'
  BY <1>1, <1>3, <1>4, <1>5, StepNumbered DEF Typed, Numbered
<1> QED BY <1>1, <1>3, <1>4, <1>6

LEMMA AppendReachedSteps ==
  ASSUME Typed, NEW t \in Tasks, AppendReached(t)
  PROVE  \/ Fail(t)
         \/ /\ loc[t].node.kind = "File" /\ loc[t].node.ext = None
            /\ Puts(t, DataBytes(loc[t].body), loc[t].node, "commit")
         \/ \E r \in Locals :
              /\ loc[t].node.kind = "File"
              /\ r = [loc[t] EXCEPT !.put = loc[t].node]
              /\ Steps(t, "commit", r)
         \/ Follow(t, "append")
<1> DEFINE node == loc[t].node
           r == [loc[t] EXCEPT !.put = node]
<1>0. /\ loc[t] \in Locals /\ node \in INode /\ loc[t].body \in Bodies \cup {"empty"}
  BY LocalsTyped DEF Typed
<1>1. CASE node.kind = "File" /\ node.ext = None
           /\ StoreFor(t, DataBytes(loc[t].body), node, "commit") /\ ~Fail(t)
  <2>1. DataBytes(loc[t].body) \in Content
    BY <1>0, IdleTyped DEF DataBytes, Content
  <2>2. "commit" \in PCs
    BY DEF PCs
  <2> QED BY <1>0, <1>1, <2>1, <2>2, StoreForPuts
<1>2. CASE /\ node.kind = "File" /\ ~Fail(t)
           /\ loc' = [loc EXCEPT ![t].put = node] /\ Goto(t, "commit") /\ Private
  <2>1. r \in Locals
    BY <1>0 DEF Locals
  <2>2. Moves(t, "commit", r)
    BY <1>2 DEF Moves, Goto, Typed, StateTyped, Locals
  <2> QED BY <1>2, <2>1, <2>2, PrivateKept
<1>3. CASE Follow(t, "append") \/ Fail(t)
  BY <1>3
<1> QED BY <1>1, <1>2, <1>3 DEF AppendReached

LEMMA FollowLinkSteps ==
  ASSUME Typed, NEW t \in Tasks, FollowLink(t)
  PROVE  LET i == NameOf(loc[t].stack)
             b == Bytes(inodes[i].ext)
         IN  \/ Fail(t)
             \/ /\ i \notin bits \/ inodes[i].kind # "Hardlink"
                /\ Steps(t, "delete", loc[t])
             \/ /\ inodes[i].kind = "Hardlink" /\ i \in bits
                /\ b.target \in bits \ Stacked(t)
                /\ \E r \in Locals :
                     /\ r = [loc[t] EXCEPT !.stack = Append(loc[t].stack, b.target)]
                     /\ Steps(t, pc[t], r)
<1> DEFINE i == NameOf(loc[t].stack)
           b == Bytes(inodes[i].ext)
           r == [loc[t] EXCEPT !.stack = Append(loc[t].stack, b.target)]
<1>0. loc[t] \in Locals /\ loc[t].stack \in Seq(INumbers)
  BY LocalsTyped DEF Typed
<1>1. CASE i \notin bits \/ inodes[i].kind # "Hardlink"
  <2>1. Moves(t, "delete", loc[t])
    BY <1>1 DEF FollowLink, Moves, Goto, Typed, StateTyped
  <2> QED BY <1>1, <2>1, PrivateKept DEF FollowLink
<1>2. CASE i \in bits /\ inodes[i].kind = "Hardlink" /\ ~Fail(t)
  <2>1. b.target \in bits \ Stacked(t)
    BY <1>2 DEF FollowLink
  <2>2. Append(loc[t].stack, b.target) \in Seq(INumbers)
    BY <1>0, <2>1, AppendProperties DEF Typed, StateTyped
  <2>3. r \in Locals
    BY <1>0, <2>2 DEF Locals
  <2>4. Moves(t, pc[t], r)
    BY <1>2, <2>1 DEF FollowLink, Moves, Typed, StateTyped, Locals
  <2> QED BY <1>2, <2>1, <2>3, <2>4, PrivateKept DEF FollowLink
<1> QED BY <1>1, <1>2

Left(i) == IF inodes[i].nlink = 0 THEN 0 ELSE inodes[i].nlink - 1

LEMMA DeleteNextSteps ==
  ASSUME Typed, NEW t \in Tasks, DeleteNext(t)
  PROVE  LET i == NameOf(loc[t].stack)
             rest == ParentOf(loc[t].stack)
         IN  \/ loc[t].stack = <<>> /\ Steps(t, "rewrite", loc[t])
             \/ /\ loc[t].stack # <<>> /\ i \notin bits
                /\ \E r \in Locals :
                     /\ r = [loc[t] EXCEPT !.stack = rest]
                     /\ Steps(t, pc[t], r)
             \/ /\ loc[t].stack # <<>> /\ i \in bits
                /\ \E r \in Locals :
                     /\ r = [loc[t] EXCEPT
                               !.stack = rest,
                               !.snap = bits \cap INodesOf(GroupOf(i)),
                               !.child = [inodes[i] EXCEPT !.nlink = Left(i)]]
                     /\ Left(i) \in Nat
                     /\ Steps(t, IF Left(i) = 0 THEN "free" ELSE "drop", r)
<1> DEFINE i == NameOf(loc[t].stack)
           rest == ParentOf(loc[t].stack)
           q == [loc[t] EXCEPT !.stack = rest]
           r == [loc[t] EXCEPT !.stack = rest,
                               !.snap = bits \cap INodesOf(GroupOf(i)),
                               !.child = [inodes[i] EXCEPT !.nlink = Left(i)]]
<1>0. loc[t] \in Locals /\ loc[t].stack \in Seq(INumbers)
  BY LocalsTyped DEF Typed
<1>1. CASE loc[t].stack = <<>>
  <2>1. Moves(t, "rewrite", loc[t]) /\ Private
    BY <1>1 DEF DeleteNext, Moves, Goto, Typed, StateTyped
  <2> QED BY <1>1, <2>1, PrivateKept
<1>2. CASE loc[t].stack # <<>>
  <2>0. i \in INumbers /\ rest \in Seq(INumbers)
    BY <1>0, <1>2, StackTop
  <2>1. CASE i \notin bits
    <3>1. q \in Locals
      BY <1>0, <2>0 DEF Locals
    <3>2. Moves(t, pc[t], q) /\ Private
      BY <1>2, <2>1 DEF DeleteNext, Moves, Typed, StateTyped, Locals
    <3> QED BY <1>2, <2>1, <3>1, <3>2, PrivateKept
  <2>2. CASE i \in bits
    <3>0. inodes[i] \in INode
      BY <2>2, FoundTyped DEF Typed
    <3>1. Left(i) \in Nat
      BY <3>0, INodeFields DEF Left
    <3>2. [inodes[i] EXCEPT !.nlink = Left(i)] \in INode
      BY <3>0, <3>1, INodeFields
    <3>3. bits \cap INodesOf(GroupOf(i)) \in SUBSET INumbers
      BY DEF Typed, StateTyped
    <3>4. r \in Locals
      BY <1>0, <2>0, <3>2, <3>3 DEF Locals
    <3>5. /\ loc' = [loc EXCEPT
                       ![t].stack = rest,
                       ![t].snap = bits \cap INodesOf(GroupOf(i)),
                       ![t].child = [inodes[i] EXCEPT !.nlink = Left(i)]]
          /\ Goto(t, IF Left(i) = 0 THEN "free" ELSE "drop") /\ Private
      BY <1>2, <2>2 DEF DeleteNext, Left
    <3>6. Moves(t, IF Left(i) = 0 THEN "free" ELSE "drop", r)
      BY <3>5 DEF Moves, Goto, Typed, StateTyped, Locals
    <3> QED BY <1>2, <2>2, <3>1, <3>4, <3>5, <3>6, PrivateKept
  <2> QED BY <2>1, <2>2
<1> QED BY <1>1, <1>2

(* The payload of a new file or link, and the bytes of a directory. *)
LEMMA PayloadTyped ==
  ASSUME Typed, NEW t \in Tasks, op[t] \in Linking, pc[t] \in {"replace", "data"}
  PROVE  Payload(t) \in Content
<1>1. /\ loc[t].dest \in Seq(Names) /\ loc[t].body \in Bodies \cup {"empty"}
      /\ loc[t].target \in INode
  BY LocalsTyped DEF Typed
<1>2. op[t] = "hardlink" => loc[t].target.inumber \in INumbers
  BY <1>1, INodeFields DEF Typed, Supplied
<1>3. PathBytes(loc[t].dest) \in Content
  BY <1>1, IdleTyped DEF PathBytes, Content
<1>4. DataBytes(loc[t].body) \in Content
  BY <1>1, IdleTyped DEF DataBytes, Content
<1>5. op[t] = "hardlink" => NumberBytes(loc[t].target.inumber) \in Content
  BY <1>2, IdleTyped DEF NumberBytes, Content
<1> QED BY <1>3, <1>4, <1>5 DEF Payload

LEMMA DirBytesTyped ==
  ASSUME NEW d \in SUBSET Entry
  PROVE  /\ DirBytes(d) \in Content /\ DirBytes(d).form = "dir"
         /\ DirBytes(d).entries = d
<1>1. Blank \in Content
  BY IdleTyped
<1> QED BY <1>1 DEF DirBytes, Content

LEMMA ReplaceSteps ==
  ASSUME Typed, NEW t \in Tasks, Replace(t)
  PROVE  \/ Fail(t)
         \/ Puts(t, Payload(t), loc[t].child, "commit")
<1>1. op[t] \in Linking /\ pc[t] = "replace"
  BY DEF Typed, Placed, Replace
<1>2. loc[t].child \in INode /\ "commit" \in PCs
  BY LocalsTyped DEF Typed, PCs
<1> QED BY <1>1, <1>2, PayloadTyped, StoreForPuts DEF Replace

RewriteBytes(t) ==
  IF op[t] = "unlink" /\ loc[t].dir = {} THEN Blank ELSE DirBytes(loc[t].dir)
RewriteLabel(t) == IF loc[t].dparent # NoINode THEN "rewriteDest" ELSE "commit"

LEMMA RewriteSteps ==
  ASSUME Typed, NEW t \in Tasks, Rewrite(t)
  PROVE  \/ Fail(t)
         \/ Puts(t, RewriteBytes(t), loc[t].parent, RewriteLabel(t))
<1>1. loc[t].parent \in INode /\ RewriteLabel(t) \in PCs
  BY LocalsTyped DEF Typed, PCs, RewriteLabel
<1>2. RewriteBytes(t) \in Content
  BY LocalsTyped, IdleTyped, DirBytesTyped DEF Typed, RewriteBytes
<1> QED BY <1>1, <1>2, StoreForPuts DEF Rewrite, RewriteBytes, RewriteLabel

LEMMA StoreDataSteps ==
  ASSUME Typed, NEW t \in Tasks, StoreData(t)
  PROVE  \/ Fail(t)
         \/ \E e \in Extents \cup {None}, r \in Locals :
              /\ Stores(Payload(t), e)
              /\ r = [loc[t] EXCEPT !.child = [loc[t].child EXCEPT !.ext = e],
                                    !.held = loc[t].held \cup ({e} \ {None})]
              /\ Moves(t, "choose", r)
              /\ UNCHANGED <<bits, inodes, guard, op, lost, orphans, doomed,
                             clobbered, crashes>>
<1> SUFFICES ASSUME NEW e \in Extents \cup {None},
                    Allocates(Payload(t), e),
                    loc' = [loc EXCEPT ![t].child.ext = e,
                                       ![t].held = @ \cup ({e} \ {None})],
                    Goto(t, "choose"),
                    UNCHANGED <<bits, inodes, guard, op, history>>
             PROVE  \E r \in Locals :
              /\ Stores(Payload(t), e)
              /\ r = [loc[t] EXCEPT !.child = [loc[t].child EXCEPT !.ext = e],
                                    !.held = loc[t].held \cup ({e} \ {None})]
              /\ Moves(t, "choose", r)
              /\ UNCHANGED <<bits, inodes, guard, op, lost, orphans, doomed,
                             clobbered, crashes>>
  BY DEF StoreData
<1> DEFINE r == [loc[t] EXCEPT !.child = [loc[t].child EXCEPT !.ext = e],
                               !.held = loc[t].held \cup ({e} \ {None})]
<1>1. Stores(Payload(t), e)
  BY AllocatesIsStores DEF Typed
<1>2. /\ loc[t] \in Locals /\ [loc[t].child EXCEPT !.ext = e] \in INode
      /\ loc[t].held \cup ({e} \ {None}) \in SUBSET Extents
  BY LocalsTyped, INodeFields DEF Typed
<1>3. r \in Locals
  BY <1>2 DEF Locals
<1>4. Moves(t, "choose", r)
  BY DEF Moves, Goto, Typed, StateTyped, Locals
<1> QED BY <1>1, <1>3, <1>4 DEF history

LEMMA RewriteDestSteps ==
  ASSUME Typed, NEW t \in Tasks, RewriteDest(t)
  PROVE  \/ Fail(t)
         \/ \E e \in Extents, r \in Locals :
              /\ Stores(DirBytes(loc[t].ddir), e)
              /\ r = [loc[t] EXCEPT !.dput = [loc[t].dparent EXCEPT !.ext = e],
                                    !.dold = loc[t].dparent.ext,
                                    !.held = loc[t].held \cup {e}]
              /\ Moves(t, "commitDest", r)
              /\ UNCHANGED <<bits, inodes, guard, op, lost, orphans, doomed,
                             clobbered, crashes>>
<1> SUFFICES ASSUME NEW e \in Extents,
                    Allocates(DirBytes(loc[t].ddir), e),
                    loc' = [loc EXCEPT ![t].dput = [loc[t].dparent EXCEPT !.ext = e],
                                       ![t].dold = loc[t].dparent.ext,
                                       ![t].held = @ \cup {e}],
                    Goto(t, "commitDest"),
                    UNCHANGED <<bits, inodes, guard, op, history>>
             PROVE  \E r \in Locals :
              /\ Stores(DirBytes(loc[t].ddir), e)
              /\ r = [loc[t] EXCEPT !.dput = [loc[t].dparent EXCEPT !.ext = e],
                                    !.dold = loc[t].dparent.ext,
                                    !.held = loc[t].held \cup {e}]
              /\ Moves(t, "commitDest", r)
              /\ UNCHANGED <<bits, inodes, guard, op, lost, orphans, doomed,
                             clobbered, crashes>>
  BY DEF RewriteDest
<1> DEFINE r == [loc[t] EXCEPT !.dput = [loc[t].dparent EXCEPT !.ext = e],
                               !.dold = loc[t].dparent.ext,
                               !.held = loc[t].held \cup {e}]
<1>1. Stores(DirBytes(loc[t].ddir), e)
  BY AllocatesIsStores DEF Typed
<1>2. /\ loc[t] \in Locals /\ [loc[t].dparent EXCEPT !.ext = e] \in INode
      /\ loc[t].dparent.ext \in Extents \cup {None}
      /\ loc[t].held \cup {e} \in SUBSET Extents
  BY LocalsTyped, INodeFields DEF Typed
<1>3. r \in Locals
  BY <1>2 DEF Locals
<1>4. Moves(t, "commitDest", r)
  BY DEF Moves, Goto, Typed, StateTyped, Locals
<1> QED BY <1>1, <1>3, <1>4 DEF history

-----------------------------------------------------------------------------
(* What each action does, continued: the steps that write bitmaps and      *)
(* inodes, and the release of what they replaced.                          *)

LEMMA ChooseInodeSteps ==
  ASSUME Typed, NEW t \in Tasks, ChooseInode(t)
  PROVE  \/ Fail(t)
         \/ \E i \in INumbers \ bits, s \in SUBSET bits, r \in Locals :
              /\ guard = NoTask /\ guard' = t
              /\ r = [loc[t] EXCEPT !.inum = i, !.snap = s]
              /\ Moves(t, "born", r)
              /\ UNCHANGED <<bits, inodes, used, disk, op, lost, orphans,
                             doomed, clobbered, crashes>>
<1> SUFFICES ASSUME ~Fail(t)
             PROVE  \E i \in INumbers \ bits, s \in SUBSET bits, r \in Locals :
              /\ guard = NoTask /\ guard' = t
              /\ r = [loc[t] EXCEPT !.inum = i, !.snap = s]
              /\ Moves(t, "born", r)
              /\ UNCHANGED <<bits, inodes, used, disk, op, lost, orphans,
                             doomed, clobbered, crashes>>
  OBVIOUS
<1> DEFINE free == FreeIn(Nearest(t))
           i == CHOOSE k \in free : \A j \in free : k <= j
           s == bits \cap INodesOf(Nearest(t))
           r == [loc[t] EXCEPT !.inum = i, !.snap = s]
<1>0. loc[t] \in Locals /\ loc[t].parent.inumber \in INumbers /\ bits \subseteq INumbers
  <2>1. loc[t].parent.inumber # None
    BY DEF Typed, Supplied, ChooseInode
  <2> QED BY <2>1, LocalsTyped, INodeFields DEF Typed, StateTyped
<1>1. bits # INumbers
  BY DEF ChooseInode
<1>2. Nearest(t) \in Groups /\ free # {}
  BY <1>0, <1>1, NearestIsFree
<1>3. free \subseteq INumbers \ bits /\ free \subseteq Nat
  BY <1>2, GroupsInside, RootIsANumber DEF FreeIn
<1>4. i \in free
  <2> HIDE DEF free
  <2> QED BY <1>2, <1>3, ChosenIsFree
<1>5. i \in INumbers \ bits /\ s \in SUBSET bits /\ s \in SUBSET INumbers
  BY <1>0, <1>3, <1>4
<1>6. /\ guard = NoTask /\ guard' = t /\ Goto(t, "born")
      /\ loc' = [loc EXCEPT ![t].inum = i, ![t].snap = s]
      /\ UNCHANGED <<bits, inodes, used, disk, op, lost, orphans,
                     doomed, clobbered, crashes>>
  BY <1>1 DEF ChooseInode, device, history
<1> HIDE DEF i, s
<1>7. r \in Locals
  BY <1>0, <1>5 DEF Locals
<1>8. Moves(t, "born", r)
  BY <1>6 DEF Moves, Goto, Typed, StateTyped, Locals
<1> QED BY <1>5, <1>6, <1>7, <1>8

LEMMA WrittenBitmap ==
  ASSUME NEW t \in Tasks, NEW i, Clobber(t, i), clobbered' = {}
  PROVE  /\ WriteBitmap(i, loc[t].snap \cup {i}) => bits' = bits \cup {i}
         /\ WriteBitmap(i, loc[t].snap \ {i}) => bits' \ {i} = bits \ {i}
  BY DEF Clobber, WriteBitmap

(* The inode x is registered, and no bit but its own changes.              *)
Enters(t, x) ==
  /\ guard = t /\ guard' = NoTask
  /\ inodes' = [inodes EXCEPT ![x.inumber] = x]
  /\ bits' = bits \cup {x.inumber}

LEMMA RegisterEnters ==
  ASSUME NEW t \in Tasks, NEW x, Register(t, x), clobbered' = {}
  PROVE  Enters(t, x)
  BY WrittenBitmap DEF Register, Enters

TheName(t) ==
  IF op[t] = "mkdir" THEN Head(loc[t].rest) ELSE NameOf(loc[t].path)
NewINode(t) == [inumber |-> loc[t].inum, kind |-> KindOf(op[t]), nlink |-> 1,
                ext |-> loc[t].child.ext]

LEMMA NewTyped ==
  ASSUME Typed, NEW t \in Tasks, pc[t] = "born"
  PROVE  /\ NewINode(t) \in INode /\ loc[t].inum \in INumbers
         /\ With(loc[t].dir, TheName(t), loc[t].inum) \in SUBSET Entry
         /\ op[t] \in Creating
<1>1. op[t] \in Creating /\ loc[t].inum \in INumbers
  BY LocalsTyped DEF Typed, Placed, Supplied
<1>2. KindOf(op[t]) \in Kinds
  BY <1>1 DEF Creating, Linking, KindOf, Kinds
<1>3. loc[t].child.ext \in Extents \cup {None}
  BY LocalsTyped, INodeFields DEF Typed
<1>4. NewINode(t) \in INode
  BY <1>1, <1>2, <1>3 DEF NewINode, INode
<1>5. TheName(t) \in Names
  <2>1. CASE op[t] = "mkdir"
    <3>1. loc[t].rest # <<>>
      BY <2>1 DEF Typed, Supplied
    <3> QED BY <2>1, <3>1, LocalsTyped, PathNonEmpty DEF TheName, Typed
  <2>2. CASE op[t] # "mkdir"
    <3>1. loc[t].path # <<>>
      BY <1>1, <2>2 DEF Typed, Supplied, Creating
    <3> QED BY <2>2, <3>1, LocalsTyped, PathNonEmpty DEF TheName, Typed
  <2> QED BY <2>1, <2>2
<1> QED BY <1>1, <1>4, <1>5, LocalsTyped, EntriesTyped DEF Typed

LEMMA BornInodeSteps ==
  ASSUME Typed, NEW t \in Tasks, BornInode(t)
  PROVE  LET i == loc[t].inum
         IN  \E r \in Locals :
              /\ r = [loc[t] EXCEPT !.child = NewINode(t),
                                    !.dir = With(loc[t].dir, TheName(t), i),
                                    !.held = loc[t].held \ {NewINode(t).ext},
                                    !.born = {i}]
              /\ Moves(t, "rewrite", r)
              /\ inodes' = [inodes EXCEPT ![i] = NewINode(t)]
              /\ WriteBitmap(i, loc[t].snap \cup {i})
              /\ Clobber(t, i)
              /\ guard' = NoTask
              /\ UNCHANGED <<used, disk, op, lost, orphans, doomed, crashes>>
<1> DEFINE i == loc[t].inum
           r == [loc[t] EXCEPT !.child = NewINode(t),
                               !.dir = With(loc[t].dir, TheName(t), i),
                               !.held = loc[t].held \ {NewINode(t).ext},
                               !.born = {i}]
<1>1. /\ loc' = [loc EXCEPT ![t].child = NewINode(t),
                            ![t].dir = With(@, TheName(t), i),
                            ![t].held = @ \ {NewINode(t).ext},
                            ![t].born = {i}]
      /\ Goto(t, "rewrite")
      /\ inodes' = [inodes EXCEPT ![i] = NewINode(t)]
      /\ WriteBitmap(i, loc[t].snap \cup {i})
      /\ Clobber(t, i)
      /\ guard' = NoTask
      /\ UNCHANGED <<used, disk, op, lost, orphans, doomed, crashes>>
  BY DEF BornInode, NewINode, TheName
<1>2. /\ loc[t] \in Locals /\ NewINode(t) \in INode /\ i \in INumbers
      /\ With(loc[t].dir, TheName(t), i) \in SUBSET Entry
      /\ loc[t].held \ {NewINode(t).ext} \in SUBSET Extents
  BY NewTyped, LocalsTyped DEF BornInode, Typed
<1>3. r \in Locals
  BY <1>2 DEF Locals
<1>4. Moves(t, "rewrite", r)
  <2> DEFINE x == NewINode(t)
             d == With(loc[t].dir, TheName(t), i)
             h == loc[t].held \ {NewINode(t).ext}
  <2>1. loc' = [loc EXCEPT ![t].child = x, ![t].dir = d, ![t].held = h,
                           ![t].born = {i}]
    BY <1>1 DEF Typed, StateTyped, Locals
  <2> HIDE DEF x, d, h
  <2>2. loc' = [loc EXCEPT ![t] = [loc[t] EXCEPT !.child = x, !.dir = d,
                                                 !.held = h, !.born = {i}]]
    BY <2>1 DEF Typed, StateTyped, Locals
  <2> QED BY <1>1, <2>2 DEF Moves, Goto, x, d, h
<1> QED BY <1>1, <1>3, <1>4

LEMMA ReadBitmapSteps ==
  ASSUME Typed, NEW t \in Tasks, ReadBitmap(t)
  PROVE  /\ pc[t] \in Registering /\ guard = NoTask /\ guard' = t
         /\ UNCHANGED <<bits, inodes, used, disk, pc, op, lost, orphans,
                        doomed, clobbered, crashes>>
         /\ \E s \in SUBSET bits : \E r \in Locals :
              r = [loc[t] EXCEPT !.snap = s] /\ Moves(t, pc[t], r)
<1> DEFINE s == bits \cap INodesOf(GroupOf(Registered(t).inumber))
           r == [loc[t] EXCEPT !.snap = s]
<1>1. loc' = [loc EXCEPT ![t].snap = s] /\ pc' = pc
  BY DEF ReadBitmap
<1>2. s \in SUBSET bits /\ loc[t] \in Locals /\ s \in SUBSET INumbers
  BY LocalsTyped DEF Typed, StateTyped
<1> HIDE DEF s
<1>3. r \in Locals
  BY <1>2 DEF Locals
<1>4. Moves(t, pc[t], r)
  BY <1>1 DEF Moves, Typed, StateTyped, Locals
<1> QED BY <1>2, <1>3, <1>4 DEF ReadBitmap, device, history

LEMMA CommitSteps ==
  ASSUME Typed, NEW t \in Tasks, Commit(t)
  PROVE  /\ Register(t, loc[t].put)
         /\ clobbered' = {} => Enters(t, loc[t].put)
         /\ UNCHANGED <<used, disk, lost, orphans, doomed, crashes>>
         /\ \/ op[t] = "append" /\ Return(t)
            \/ /\ op[t] # "append" /\ op' = op
               /\ \E r \in Locals :
                    /\ r = [loc[t] EXCEPT
                              !.held = (loc[t].held \cup {loc[t].old})
                                         \ {loc[t].put.ext, None},
                              !.born = {}]
                    /\ Moves(t, "release", r)
<1> DEFINE r == [loc[t] EXCEPT !.held = (loc[t].held \cup {loc[t].old})
                                           \ {loc[t].put.ext, None},
                               !.born = {}]
<1>1. CASE op[t] # "append"
  <2>1. loc[t] \in Locals
        /\ (loc[t].held \cup {loc[t].old}) \ {loc[t].put.ext, None} \in SUBSET Extents
    BY LocalsTyped DEF Typed
  <2>2. r \in Locals
    BY <2>1 DEF Locals
  <2>3. /\ loc' = [loc EXCEPT
                     ![t].held = (@ \cup {loc[t].old}) \ {loc[t].put.ext, None},
                     ![t].born = {}]
        /\ Goto(t, "release") /\ op' = op
    BY <1>1 DEF Commit
  <2>4. Moves(t, "release", r)
    <3> DEFINE h == (loc[t].held \cup {loc[t].old}) \ {loc[t].put.ext, None}
    <3>1. loc' = [loc EXCEPT ![t].held = h, ![t].born = {}]
      BY <2>3 DEF Typed, StateTyped, Locals
    <3> HIDE DEF h
    <3>2. loc' = [loc EXCEPT ![t] = [loc[t] EXCEPT !.held = h, !.born = {}]]
      BY <3>1 DEF Typed, StateTyped, Locals
    <3> QED BY <2>3, <3>2 DEF Moves, Goto, h
  <2> QED BY <1>1, <2>2, <2>3, <2>4, RegisterEnters DEF Commit
<1> QED BY <1>1, RegisterEnters DEF Commit

LEMMA CommitDestSteps ==
  ASSUME Typed, NEW t \in Tasks, CommitDest(t)
  PROVE  /\ Register(t, loc[t].dput)
         /\ clobbered' = {} => Enters(t, loc[t].dput)
         /\ UNCHANGED <<used, disk, op, lost, orphans, doomed, crashes>>
         /\ \E r \in Locals :
              /\ r = [loc[t] EXCEPT
                        !.held = (loc[t].held \cup {loc[t].dold})
                                   \ {loc[t].dput.ext, None}]
              /\ Moves(t, "commit", r)
<1> DEFINE h == (loc[t].held \cup {loc[t].dold}) \ {loc[t].dput.ext, None}
           r == [loc[t] EXCEPT !.held = h]
<1>1. loc[t] \in Locals /\ h \in SUBSET Extents
  BY LocalsTyped DEF Typed
<1>2. loc' = [loc EXCEPT ![t].held = h] /\ Goto(t, "commit")
  BY DEF CommitDest, Typed, StateTyped, Locals
<1>3. /\ Register(t, loc[t].dput)
      /\ UNCHANGED <<used, disk, op, lost, orphans, doomed, crashes>>
  BY DEF CommitDest
<1> HIDE DEF h
<1>4. r \in Locals
  BY <1>1 DEF Locals
<1>5. Moves(t, "commit", r)
  BY <1>2 DEF Moves, Goto, Typed, StateTyped, Locals
<1> QED BY <1>3, <1>4, <1>5, RegisterEnters DEF h

LEMMA ReleaseOldSteps ==
  ASSUME Typed, NEW t \in Tasks, ReleaseOld(t)
  PROVE  LET h == loc[t].held \ {loc[t].old}
         IN  /\ Release(loc[t].old)
             /\ UNCHANGED <<bits, inodes, guard, lost, orphans, doomed,
                            clobbered, crashes>>
             /\ \/ \E r \in Locals :
                     /\ op[t] = "hardlink" /\ op' = op
                     /\ r = [loc[t] EXCEPT !.held = h]
                     /\ Moves(t, "bump", r)
                \/ \E r \in Locals :
                     /\ op[t] = "move" /\ loc[t].dput # NoINode /\ op' = op
                     /\ r = [loc[t] EXCEPT !.held = h]
                     /\ Moves(t, "releaseDest", r)
                \/ \E r \in Locals :
                     /\ op[t] = "mkdir" /\ op' = op
                     /\ r = [loc[t] EXCEPT !.held = h, !.node = loc[t].child,
                                           !.rest = Tail(loc[t].rest)]
                     /\ Moves(t, "mkdir", r)
                \/ /\ \/ op[t] \in {"write", "symlink", "unlink"}
                      \/ op[t] = "move" /\ loc[t].dput = NoINode
                   /\ Return(t)
<1> DEFINE h == loc[t].held \ {loc[t].old}
           q == [loc[t] EXCEPT !.held = h]
           r == [loc[t] EXCEPT !.held = h, !.node = loc[t].child,
                               !.rest = Tail(loc[t].rest)]
<1>0. /\ Release(loc[t].old)
      /\ UNCHANGED <<bits, inodes, guard, lost, orphans, doomed, clobbered,
                     crashes>>
      /\ loc[t] \in Locals /\ h \in SUBSET Extents
      /\ loc[t].child \in INode
  BY LocalsTyped DEF Typed, ReleaseOld, history
<1>1. q \in Locals
  BY <1>0 DEF Locals
<1>2. ASSUME NEW label, Goto(t, label),
             loc' = [loc EXCEPT ![t].held = @ \ {loc[t].old}]
      PROVE  Moves(t, label, q)
  BY <1>2 DEF Moves, Goto, Typed, StateTyped, Locals
<1>3. CASE op[t] = "mkdir"
  <2>1. loc[t].rest # <<>>
    BY <1>3 DEF Typed, Supplied, ReleaseOld
  <2>2. Tail(loc[t].rest) \in Seq(Names)
    BY <2>1, LocalsTyped, PathNonEmpty DEF Typed
  <2>3. r \in Locals
    BY <1>0, <2>2 DEF Locals
  <2>4. /\ loc' = [loc EXCEPT ![t].held = @ \ {loc[t].old},
                              ![t].node = loc[t].child, ![t].rest = Tail(@)]
        /\ Goto(t, "mkdir") /\ op' = op
    BY <1>3 DEF ReleaseOld
  <2>5. Moves(t, "mkdir", r)
    BY <2>4 DEF Moves, Goto, Typed, StateTyped, Locals
  <2> QED BY <1>0, <1>3, <2>3, <2>4, <2>5
<1>4. CASE op[t] = "hardlink"
  BY <1>0, <1>1, <1>2, <1>4 DEF ReleaseOld
<1>5. CASE op[t] = "move" /\ loc[t].dput # NoINode
  BY <1>0, <1>1, <1>2, <1>5 DEF ReleaseOld
<1>6. CASE Return(t) /\ (op[t] \in {"write", "symlink", "unlink"}
                         \/ (op[t] = "move" /\ loc[t].dput = NoINode))
  BY <1>0, <1>6
<1> QED BY <1>3, <1>4, <1>5, <1>6 DEF ReleaseOld

LEMMA ReleaseDestSteps ==
  ASSUME NEW t \in Tasks, ReleaseDest(t)
  PROVE  /\ Release(loc[t].dold) /\ Return(t)
         /\ UNCHANGED <<bits, inodes, guard, lost, orphans, doomed, clobbered,
                        crashes>>
  BY DEF ReleaseDest, history

Raised(t) == [loc[t].target EXCEPT !.nlink = loc[t].target.nlink + 1]

LEMMA BumpLinkSteps ==
  ASSUME Typed, NEW t \in Tasks, BumpLink(t)
  PROVE  /\ Register(t, Raised(t))
         /\ clobbered' = {} => Enters(t, Raised(t))
         /\ Return(t) /\ Raised(t) \in INode
         /\ Raised(t).inumber = loc[t].target.inumber
         /\ loc[t].target.inumber # None
         /\ UNCHANGED <<used, disk, lost, orphans, doomed, crashes>>
<1>1. op[t] = "hardlink"
  BY DEF Typed, Placed, BumpLink
<1>2. loc[t].target.inumber # None
  BY <1>1 DEF Typed, Supplied, BumpLink
<1>3. loc[t].target \in INode /\ loc[t].target.nlink + 1 \in Nat
  BY LocalsTyped, INodeFields DEF Typed
<1>4. Raised(t) \in INode /\ Raised(t).inumber = loc[t].target.inumber
  BY <1>3, INodeFields DEF Raised
<1>5. Register(t, Raised(t))
  BY DEF BumpLink, Raised
<1> QED BY <1>2, <1>4, <1>5, RegisterEnters DEF BumpLink

DoomChild(t) ==
  [loc[t] EXCEPT !.doomed = loc[t].doomed \cup {loc[t].child.inumber}]

LEMMA DoomedTyped ==
  ASSUME Typed, NEW t \in Tasks, pc[t] \in {"drop", "free", "clear"}
  PROVE  /\ loc[t].child.inumber \in INumbers /\ loc[t].child \in INode
         /\ DoomChild(t) \in Locals
<1>1. loc[t].child.inumber # None /\ loc[t].child \in INode /\ loc[t] \in Locals
  BY LocalsTyped DEF Typed, Supplied
<1>2. loc[t].child.inumber \in INumbers
  BY <1>1, INodeFields
<1> QED BY <1>1, <1>2 DEF DoomChild, Locals

LEMMA DropLinkSteps ==
  ASSUME Typed, NEW t \in Tasks, DropLink(t)
  PROVE  /\ Register(t, loc[t].child)
         /\ clobbered' = {} => Enters(t, loc[t].child)
         /\ Moves(t, "delete", DoomChild(t))
         /\ UNCHANGED <<used, disk, op, lost, orphans, doomed, crashes>>
<1>1. /\ loc' = [loc EXCEPT ![t].doomed = @ \cup {loc[t].child.inumber}]
      /\ Goto(t, "delete")
  BY DEF DropLink
<1>2. Moves(t, "delete", DoomChild(t))
  BY <1>1 DEF Moves, Goto, DoomChild, Typed, StateTyped, Locals
<1> QED BY <1>2, RegisterEnters DEF DropLink

LEMMA FreeINodeSteps ==
  ASSUME Typed, NEW t \in Tasks, FreeINode(t)
  PROVE  /\ Release(loc[t].child.ext)
         /\ Moves(t, "clear", DoomChild(t))
         /\ UNCHANGED <<bits, inodes, guard, op, lost, orphans, doomed,
                        clobbered, crashes>>
<1>1. /\ loc' = [loc EXCEPT ![t].doomed = @ \cup {loc[t].child.inumber}]
      /\ Goto(t, "clear")
  BY DEF FreeINode
<1>2. Moves(t, "clear", DoomChild(t))
  BY <1>1 DEF Moves, Goto, DoomChild, Typed, StateTyped, Locals
<1> QED BY <1>2 DEF FreeINode, history

LEMMA ClearBitSteps ==
  ASSUME Typed, NEW t \in Tasks, ClearBit(t)
  PROVE  /\ WriteBitmap(loc[t].child.inumber,
                        loc[t].snap \ {loc[t].child.inumber})
         /\ Clobber(t, loc[t].child.inumber)
         /\ Moves(t, "delete", loc[t])
         /\ UNCHANGED <<inodes, used, disk, guard, op, lost, orphans, doomed,
                        crashes>>
<1>1. Moves(t, "delete", loc[t])
  BY DEF ClearBit, Moves, Goto, Typed, StateTyped
<1> QED BY <1>1 DEF ClearBit

-----------------------------------------------------------------------------
(* Types are kept by the walks, the lookups and the stores.                *)

LEMMA TypedPlace ==
  ASSUME Typed, NEW t \in Tasks
  PROVE  /\ Placed(t) /\ Supplied(t) /\ pc[t] \in PCs
         /\ \A i \in loc[t].snap : inodes[i].inumber = i
  BY DEF Typed, StateTyped, Numbered

LEMMA TypedContentResolved ==
  ASSUME Typed, NEW t \in Tasks, ContentResolved(t)
  PROVE  Typed'
<1>1. CASE Fail(t)
  BY <1>1, TypedFail
<1>2. ASSUME NEW r \in Locals,
             r = [loc[t] EXCEPT !.target = loc[t].node, !.node = inodes[Root],
                                !.rest = ParentOf(loc[t].path)],
             Steps(t, "parent", r)
      PROVE  Typed'
  <2>1. /\ r.target = loc[t].node /\ r.node = inodes[Root] /\ r.snap = loc[t].snap
        /\ r.dparent = loc[t].dparent /\ r.path = loc[t].path /\ r.dest = loc[t].dest
    BY <1>2, LocalsTyped DEF Locals, Typed
  <2>2. pc[t] = "content" /\ Placed(t) /\ Supplied(t) /\ "parent" \in PCs
    BY TypedPlace DEF ContentResolved, At, PCs
  <2>3. pc'[t] = "parent" /\ loc'[t] = r /\ op'[t] = op[t]
    BY <1>2, <2>2, StepsFacts DEF Typed
  <2>4. inodes[Root].inumber # None
    BY HereTyped
  <2>5. Placed(t)'
    BY <2>2, <2>3 DEF Placed, Linking, Walks, Deleting
  <2>6. Supplied(t)'
    BY <2>1, <2>2, <2>3, <2>4 DEF Placed, Supplied, Walks, Deleting, Linking
  <2> QED BY <1>2, <2>1, <2>2, <2>5, <2>6, TypedSteps, TypedPlace
<1> QED BY <1>1, <1>2, ContentResolvedSteps

LEMMA TypedLookupWrite ==
  ASSUME Typed, NEW t \in Tasks, LookupWrite(t)
  PROVE  Typed'
<1> DEFINE n == NameOf(loc[t].path)
           d == EntriesHere(t)
<1>0. pc[t] = "parent" /\ op[t] \in Linking /\ Placed(t) /\ Supplied(t)
  BY TypedPlace DEF LookupWrite, At, Linking
<1>1. CASE Fail(t)
  BY <1>1, TypedFail
<1>2. ASSUME NEW r \in Locals,
             r = [loc[t] EXCEPT !.parent = loc[t].node, !.dir = d],
             Steps(t, "data", r)
      PROVE  Typed'
  <2>1. /\ r.parent = loc[t].node /\ r.snap = loc[t].snap /\ r.target = loc[t].target
        /\ r.dparent = loc[t].dparent /\ r.path = loc[t].path /\ r.dest = loc[t].dest
    BY <1>2, LocalsTyped DEF Locals, Typed
  <2>3. pc'[t] = "data" /\ loc'[t] = r /\ op'[t] = op[t] /\ "data" \in PCs
    BY <1>2, StepsFacts DEF Typed, PCs
  <2>5. Placed(t)'
    BY <1>0, <2>3 DEF Placed, Walks, Deleting
  <2>6. Supplied(t)'
    BY <1>0, <2>1, <2>3 DEF Supplied, Walks, Deleting, Linking
  <2> QED BY <1>2, <2>1, <2>3, <2>5, <2>6, TypedSteps, TypedPlace
<1>3. ASSUME NEW r \in Locals,
             Bound(d, n) \in bits,
             r = [loc[t] EXCEPT !.child = inodes[Bound(d, n)]],
             Steps(t, "replace", r)
      PROVE  Typed'
  <2>1. /\ r.child = inodes[Bound(d, n)] /\ r.snap = loc[t].snap /\ r.target = loc[t].target
        /\ r.dparent = loc[t].dparent /\ r.path = loc[t].path /\ r.dest = loc[t].dest
    BY <1>3, LocalsTyped DEF Locals, Typed
  <2>3. pc'[t] = "replace" /\ loc'[t] = r /\ op'[t] = op[t] /\ "replace" \in PCs
    BY <1>3, StepsFacts DEF Typed, PCs
  <2>4. inodes[Bound(d, n)].inumber # None
    BY <1>3, FoundTyped DEF Typed
  <2>5. Placed(t)'
    BY <1>0, <2>3 DEF Placed, Walks, Deleting
  <2>6. Supplied(t)'
    BY <1>0, <2>1, <2>3, <2>4 DEF Supplied, Walks, Deleting, Linking
  <2> QED BY <1>3, <2>1, <2>3, <2>5, <2>6, TypedSteps, TypedPlace
<1> QED BY <1>1, <1>2, <1>3, LookupWriteSteps

LEMMA TypedLookupUnlink ==
  ASSUME Typed, NEW t \in Tasks, LookupUnlink(t)
  PROVE  Typed'
<1> DEFINE n == NameOf(loc[t].path)
           d == EntriesHere(t)
<1>0. pc[t] = "parent" /\ op[t] = "unlink" /\ Placed(t) /\ Supplied(t)
  BY TypedPlace DEF LookupUnlink, At
<1>1. CASE Fail(t)
  BY <1>1, TypedFail
<1>2. ASSUME NEW r \in Locals,
             r = [loc[t] EXCEPT !.parent = loc[t].node, !.dir = Without(d, n),
                                !.stack = <<Bound(d, n)>>],
             Steps(t, "links", r)
      PROVE  Typed'
  <2>1. /\ r.parent = loc[t].node /\ r.snap = loc[t].snap /\ r.target = loc[t].target
        /\ r.dparent = loc[t].dparent /\ r.path = loc[t].path /\ r.dest = loc[t].dest
        /\ r.stack = <<Bound(d, n)>>
    BY <1>2, LocalsTyped DEF Locals, Typed
  <2>2. r.stack # <<>>
    BY <2>1
  <2>3. pc'[t] = "links" /\ loc'[t] = r /\ op'[t] = op[t] /\ "links" \in PCs
    BY <1>2, StepsFacts DEF Typed, PCs
  <2>5. Placed(t)'
    BY <1>0, <2>3 DEF Placed, Walks, Deleting
  <2>6. Supplied(t)'
    <3> HIDE DEF d
    <3> QED BY <1>0, <2>1, <2>2, <2>3 DEF Supplied, Walks, Deleting, Linking
  <2> QED BY <1>2, <2>1, <2>3, <2>5, <2>6, TypedSteps, TypedPlace
<1> QED BY <1>1, <1>2, LookupUnlinkSteps

LEMMA TypedSourceResolved ==
  ASSUME Typed, NEW t \in Tasks, SourceResolved(t)
  PROVE  Typed'
<1>0. pc[t] = "parent" /\ op[t] = "move" /\ Placed(t) /\ Supplied(t)
  BY TypedPlace DEF SourceResolved, At
<1>2. PICK r \in Locals :
        /\ r = [loc[t] EXCEPT !.parent = loc[t].node, !.node = inodes[Root],
                              !.rest = ParentOf(loc[t].dest)]
        /\ Steps(t, "dest", r)
  BY SourceResolvedSteps
<1>3. /\ r.parent = loc[t].node /\ r.node = inodes[Root] /\ r.snap = loc[t].snap
      /\ r.dparent = loc[t].dparent /\ r.path = loc[t].path /\ r.dest = loc[t].dest
  BY <1>2, LocalsTyped DEF Locals, Typed
<1>4. pc'[t] = "dest" /\ loc'[t] = r /\ op'[t] = op[t] /\ "dest" \in PCs
  BY <1>2, StepsFacts DEF Typed, PCs
<1>5. inodes[Root].inumber # None
  BY HereTyped
<1>6. Placed(t)'
  BY <1>0, <1>4 DEF Placed, Walks, Deleting
<1>7. Supplied(t)'
  BY <1>0, <1>3, <1>4, <1>5 DEF Supplied, Walks, Deleting, Linking
<1> QED BY <1>2, <1>3, <1>4, <1>6, <1>7, TypedSteps, TypedPlace

LEMMA TypedLookupMove ==
  ASSUME Typed, NEW t \in Tasks, LookupMove(t)
  PROVE  Typed'
<1>0. pc[t] = "dest" /\ op[t] = "move" /\ Placed(t) /\ Supplied(t)
      /\ "rewrite" \in PCs
  BY TypedPlace DEF LookupMove, At, Placed, PCs
<1>1. CASE Fail(t)
  BY <1>1, TypedFail
<1>2. ASSUME NEW r \in Locals, Steps(t, "rewrite", r),
             /\ r.snap = loc[t].snap /\ r.parent = loc[t].parent
             /\ r.path = loc[t].path /\ r.dest = loc[t].dest
             /\ r.dparent \in {loc[t].dparent, loc[t].node}
      PROVE  Typed'
  <2>1. pc'[t] = "rewrite" /\ loc'[t] = r /\ op'[t] = op[t]
    BY <1>0, <1>2, StepsFacts DEF Typed
  <2>2. loc[t].node.inumber # None
    BY <1>0 DEF Supplied, Walks
  <2>3. Placed(t)'
    BY <1>0, <2>1 DEF Placed, Walks, Deleting
  <2>4. Supplied(t)'
    BY <1>0, <1>2, <2>1, <2>2 DEF Supplied, Walks, Deleting, Linking
  <2> QED BY <1>0, <1>2, <2>3, <2>4, TypedSteps, TypedPlace
<1>3. ASSUME NEW r \in Locals, NEW d, r = [loc[t] EXCEPT !.dir = d],
             Steps(t, "rewrite", r)
      PROVE  Typed'
  <2>1. /\ r.snap = loc[t].snap /\ r.parent = loc[t].parent
        /\ r.path = loc[t].path /\ r.dest = loc[t].dest
        /\ r.dparent = loc[t].dparent
    BY <1>3, LocalsTyped DEF Locals, Typed
  <2> QED BY <1>2, <1>3, <2>1
<1>4. ASSUME NEW r \in Locals, NEW d, NEW e,
             r = [loc[t] EXCEPT !.dir = d, !.dparent = loc[t].node, !.ddir = e],
             Steps(t, "rewrite", r)
      PROVE  Typed'
  <2>1. /\ r.snap = loc[t].snap /\ r.parent = loc[t].parent
        /\ r.path = loc[t].path /\ r.dest = loc[t].dest
        /\ r.dparent = loc[t].node
    BY <1>4, LocalsTyped DEF Locals, Typed
  <2> QED BY <1>2, <1>4, <2>1
<1> QED BY <1>1, <1>3, <1>4, LookupMoveSteps

LEMMA TypedReturn ==
  ASSUME Typed, NEW t \in Tasks, Return(t), Numbered',
         bits' \subseteq INumbers, inodes' \in [INumbers -> INode],
         used' \subseteq Extents, disk' \in [Extents -> Content],
         guard' \in Tasks \cup {NoTask}, clobbered' \subseteq INumbers,
         UNCHANGED <<lost, orphans, doomed, crashes>>
  PROVE  Typed'
<1>1. /\ Moves(t, "idle", Idle) /\ op' = [op EXCEPT ![t] = "ls"] /\ Others(t)
      /\ pc'[t] = "idle" /\ op'[t] = "ls" /\ loc'[t] = Idle
  BY ReturnFacts DEF Typed
<1>2. StateTyped'
  <2>1. "idle" \in PCs /\ "ls" \in AllOps
    BY DEF PCs, AllOps
  <2>2. pc' \in [Tasks -> PCs] /\ loc' \in [Tasks -> Locals]
    BY <1>1, <2>1, IdleTyped, MovesFacts DEF Typed
  <2>3. op' \in [Tasks -> AllOps]
    BY <1>1, <2>1 DEF Typed, StateTyped
  <2> QED BY <2>2, <2>3 DEF Typed, StateTyped
<1> QED BY <1>1, <1>2, IdlePlaced, TypedStep

(* The numbers stay right while no inode changes and no bit is set.        *)
LEMMA KeptNumbered ==
  ASSUME Typed, NEW t \in Tasks, UNCHANGED <<bits, inodes>>, Others(t),
         loc'[t].snap \subseteq loc[t].snap \cup bits
  PROVE  Numbered'
  BY DEF Typed, Numbered, Others

LEMMA IdleSnap == Idle.snap = {} /\ Idle.held = {} /\ Idle.born = {}
                  /\ Idle.doomed = {} /\ Idle.dparent = NoINode
                  /\ Idle.dput = NoINode
  BY DEF Idle

LEMMA TypedMkdir ==
  ASSUME Typed, NEW t \in Tasks, MkdirComponent(t)
  PROVE  Typed'
<1> DEFINE d == EntriesHere(t)
           n == Head(loc[t].rest)
<1>0. pc[t] = "mkdir" /\ op[t] = "mkdir" /\ Placed(t) /\ Supplied(t)
  BY TypedPlace DEF MkdirComponent, At, Placed
<1>1. CASE Fail(t)
  BY <1>1, TypedFail
<1>2. CASE Return(t) /\ Kept
  <2>1. Others(t) /\ loc'[t] = Idle
    BY <1>2, ReturnFacts DEF Typed
  <2>2. Numbered'
    BY <1>2, <2>1, KeptNumbered, IdleSnap DEF Kept
  <2> QED BY <1>2, <2>2, TypedReturn DEF Kept, Typed, StateTyped
<1>3. ASSUME NEW r \in Locals, Bound(d, n) \in bits,
             r = [loc[t] EXCEPT !.node = inodes[Bound(d, n)],
                                !.rest = Tail(loc[t].rest)],
             Steps(t, pc[t], r)
      PROVE  Typed'
  <2>1. /\ r.node = inodes[Bound(d, n)] /\ r.snap = loc[t].snap
        /\ r.dparent = loc[t].dparent
    BY <1>3, LocalsTyped DEF Locals, Typed
  <2>2. pc'[t] = "mkdir" /\ loc'[t] = r /\ op'[t] = op[t] /\ "mkdir" \in PCs
    BY <1>0, <1>3, StepsFacts DEF Typed, PCs
  <2>3. inodes[Bound(d, n)].inumber # None
    BY <1>3, FoundTyped DEF Typed
  <2>4. Placed(t)'
    BY <1>0, <2>2 DEF Placed, Walks, Deleting
  <2>5. Supplied(t)'
    BY <1>0, <2>1, <2>2, <2>3 DEF Supplied, Walks, Deleting, Linking
  <2> QED BY <1>0, <1>3, <2>1, <2>2, <2>4, <2>5, TypedSteps, TypedPlace
<1>4. ASSUME NEW r \in Locals, loc[t].rest # <<>>,
             r = [loc[t] EXCEPT !.parent = loc[t].node, !.dir = d,
                                !.child = NoINode],
             Steps(t, "choose", r)
      PROVE  Typed'
  <2>1. /\ r.parent = loc[t].node /\ r.snap = loc[t].snap
        /\ r.dparent = loc[t].dparent /\ r.rest = loc[t].rest
    BY <1>4, LocalsTyped DEF Locals, Typed
  <2>2. pc'[t] = "choose" /\ loc'[t] = r /\ op'[t] = op[t] /\ "choose" \in PCs
    BY <1>0, <1>4, StepsFacts DEF Typed, PCs
  <2>4. Placed(t)'
    BY <1>0, <2>2 DEF Placed, Walks, Deleting, Creating
  <2>5. Supplied(t)'
    BY <1>0, <1>4, <2>1, <2>2 DEF Supplied, Walks, Deleting, Linking
  <2> QED BY <1>0, <1>4, <2>1, <2>2, <2>4, <2>5, TypedSteps, TypedPlace
<1> QED BY <1>1, <1>2, <1>3, <1>4, MkdirSteps

LEMMA TypedFollow ==
  ASSUME Typed, NEW t \in Tasks,
         \/ Follow(t, "append") /\ pc[t] = "append"
         \/ Follow(t, "readLinked") /\ pc[t] = "read"
  PROVE  Typed'
<1>0. Placed(t) /\ Supplied(t) /\ op[t] = (IF pc[t] = "append" THEN "append" ELSE "read")
  BY TypedPlace DEF Placed
<1>1. CASE Fail(t)
  BY <1>1, TypedFail
<1> DEFINE label == IF pc[t] = "append" THEN "append" ELSE "readLinked"
<1>2. ASSUME NEW r \in Locals, Steps(t, label, r), r.node.inumber # None,
             r.snap = loc[t].snap, r.dparent = loc[t].dparent
      PROVE  Typed'
  <2>1. label \in PCs
    BY DEF PCs
  <2>2. pc'[t] = label /\ loc'[t] = r /\ op'[t] = op[t]
    BY <1>2, <2>1, StepsFacts DEF Typed
  <2>3. Placed(t)'
    BY <1>0, <2>2 DEF Placed, Walks, Deleting
  <2>4. Supplied(t)'
    BY <1>0, <1>2, <2>2 DEF Supplied, Walks, Deleting, Linking
  <2> QED BY <1>2, <2>1, <2>3, <2>4, TypedSteps, TypedPlace
<1>3. ASSUME NEW r \in Locals, NEW x, NEW y, x.inumber # None,
             r = [loc[t] EXCEPT !.node = x, !.rest = y], Steps(t, label, r)
      PROVE  Typed'
  <2>1. r.node = x /\ r.snap = loc[t].snap /\ r.dparent = loc[t].dparent
    BY <1>3, LocalsTyped DEF Locals, Typed
  <2> QED BY <1>2, <1>3, <2>1
<1>4. inodes[Root].inumber # None
      /\ (Reached(t).target \in bits => inodes[Reached(t).target].inumber # None)
  BY FoundTyped, HereTyped DEF Typed
<1>5. label \in PCs /\ Follow(t, label)
  BY DEF PCs
<1> HIDE DEF label
<1>6. ASSUME NEW r \in Locals, Steps(t, label, r),
             r = [loc[t] EXCEPT !.node = inodes[Root], !.rest = Reached(t).path]
      PROVE  Typed'
  BY <1>3, <1>4, <1>6
<1>7. ASSUME NEW r \in Locals, Steps(t, label, r), Reached(t).target \in bits,
             r = [loc[t] EXCEPT !.node = inodes[Reached(t).target],
                                !.rest = <<>>]
      PROVE  Typed'
  BY <1>3, <1>4, <1>7
<1> QED BY <1>1, <1>5, <1>6, <1>7, FollowSteps

LEMMA TypedListReached ==
  ASSUME Typed, NEW t \in Tasks, ListReached(t)
  PROVE  Typed'
<1>0. pc[t] = "ls" /\ op[t] = "ls" /\ Placed(t) /\ Supplied(t)
  BY TypedPlace DEF ListReached, At, Placed
<1>1. CASE Fail(t)
  BY <1>1, TypedFail
<1>2. ASSUME NEW r \in Locals,
             r = [loc[t] EXCEPT !.path = Reached(t).path, !.node = inodes[Root],
                                !.rest = Reached(t).path],
             Steps(t, pc[t], r)
      PROVE  Typed'
  <2>1. r.node = inodes[Root] /\ r.snap = loc[t].snap /\ r.dparent = loc[t].dparent
    BY <1>2, LocalsTyped DEF Locals, Typed
  <2>2. pc'[t] = "ls" /\ loc'[t] = r /\ op'[t] = op[t] /\ "ls" \in PCs
    BY <1>0, <1>2, StepsFacts DEF Typed, PCs
  <2>3. inodes[Root].inumber # None
    BY HereTyped
  <2>4. Placed(t)'
    BY <1>0, <2>2 DEF Placed, Walks, Deleting
  <2>5. Supplied(t)'
    BY <1>0, <2>1, <2>2, <2>3 DEF Supplied, Walks, Deleting, Linking
  <2> QED BY <1>0, <1>2, <2>1, <2>2, <2>4, <2>5, TypedSteps, TypedPlace
<1> QED BY <1>1, <1>2, ListReachedSteps

LEMMA TypedPuts ==
  ASSUME Typed, NEW t \in Tasks, NEW b \in Content, NEW x \in INode,
         NEW label \in PCs, Puts(t, b, x, label), x.inumber # None,
         label \in {"commit", "rewriteDest"},
         pc[t] \in {"append", "replace", "rewrite"},
         label = "rewriteDest" => op[t] = "move" /\ loc[t].dparent # NoINode
  PROVE  Typed'
<1>1. /\ StateTyped' /\ Numbered' /\ Others(t)
      /\ pc'[t] = label /\ op'[t] = op[t]
      /\ \E e \in Extents \cup {None}, r \in Locals :
           /\ Stores(b, e) /\ loc'[t] = r
           /\ r = [loc[t] EXCEPT !.put = [x EXCEPT !.ext = e], !.old = x.ext,
                                 !.held = loc[t].held \cup ({e} \ {None})]
  BY PutsTyped
<1>2. /\ loc'[t].put.inumber # None /\ loc'[t].child = loc[t].child
      /\ loc'[t].path = loc[t].path /\ loc'[t].dest = loc[t].dest
      /\ loc'[t].target = loc[t].target /\ loc'[t].dparent = loc[t].dparent
      /\ loc'[t].rest = loc[t].rest
  <2>1. PICK e \in Extents \cup {None}, r \in Locals :
           /\ loc'[t] = r
           /\ r = [loc[t] EXCEPT !.put = [x EXCEPT !.ext = e], !.old = x.ext,
                                 !.held = loc[t].held \cup ({e} \ {None})]
    BY <1>1
  <2> DEFINE y == [x EXCEPT !.ext = e]
             h == loc[t].held \cup ({e} \ {None})
  <2>2. y.inumber # None
    BY INodeFields
  <2>3. loc'[t] = [loc[t] EXCEPT !.put = y, !.old = x.ext, !.held = h]
    BY <2>1
  <2> HIDE DEF y, h
  <2> QED BY <2>2, <2>3, LocalsTyped DEF Locals, Typed
<1>3. Placed(t) /\ Supplied(t)
  BY TypedPlace
<1>4. Placed(t)'
  BY <1>1, <1>3 DEF Placed, Walks, Deleting, Linking, Creating
<1>5. Supplied(t)'
  BY <1>1, <1>2, <1>3 DEF Placed, Supplied, Walks, Deleting, Linking, Creating
<1> QED BY <1>1, <1>4, <1>5, TypedStep

LEMMA TypedAppendReached ==
  ASSUME Typed, NEW t \in Tasks, AppendReached(t)
  PROVE  Typed'
<1>0. pc[t] = "append" /\ op[t] = "append" /\ Placed(t) /\ Supplied(t)
      /\ "commit" \in PCs
  BY TypedPlace DEF AppendReached, At, Placed, PCs
<1>1. CASE Fail(t)
  BY <1>1, TypedFail
<1>2. CASE Follow(t, "append")
  BY <1>0, <1>2, TypedFollow
<1>3. CASE Puts(t, DataBytes(loc[t].body), loc[t].node, "commit")
  <2>1. DataBytes(loc[t].body) \in Content
    BY LocalsTyped, IdleTyped DEF DataBytes, Content, Typed
  <2>2. loc[t].node \in INode /\ loc[t].node.inumber # None
    BY <1>0, LocalsTyped DEF Supplied, Walks, Typed
  <2> QED BY <1>0, <1>3, <2>1, <2>2, TypedPuts
<1>4. ASSUME NEW r \in Locals, r = [loc[t] EXCEPT !.put = loc[t].node],
             Steps(t, "commit", r)
      PROVE  Typed'
  <2>1. /\ r.put = loc[t].node /\ r.snap = loc[t].snap /\ r.dparent = loc[t].dparent
    BY <1>4, LocalsTyped DEF Locals, Typed
  <2>2. pc'[t] = "commit" /\ loc'[t] = r /\ op'[t] = op[t]
    BY <1>0, <1>4, StepsFacts DEF Typed
  <2>3. loc[t].node.inumber # None
    BY <1>0 DEF Supplied, Walks
  <2>4. Placed(t)'
    BY <1>0, <2>2 DEF Placed, Walks, Deleting
  <2>5. Supplied(t)'
    BY <1>0, <2>1, <2>2, <2>3 DEF Supplied, Walks, Deleting, Linking
  <2> QED BY <1>0, <1>4, <2>1, <2>4, <2>5, TypedSteps, TypedPlace
<1> QED BY <1>1, <1>2, <1>3, <1>4, AppendReachedSteps

LEMMA TypedReadReached ==
  ASSUME Typed, NEW t \in Tasks, ReadReached(t)
  PROVE  Typed'
  BY TypedFail, TypedFollow DEF ReadReached, At

LEMMA TypedReplace ==
  ASSUME Typed, NEW t \in Tasks, Replace(t)
  PROVE  Typed'
<1>1. op[t] \in Linking /\ pc[t] = "replace" /\ Supplied(t) /\ "commit" \in PCs
  BY TypedPlace DEF Placed, Replace, PCs
<1>2. loc[t].child \in INode /\ loc[t].child.inumber # None
  BY <1>1, LocalsTyped DEF Supplied, Typed
<1>3. Payload(t) \in Content
  BY <1>1, PayloadTyped
<1> QED BY <1>1, <1>2, <1>3, ReplaceSteps, TypedFail, TypedPuts

LEMMA TypedRewrite ==
  ASSUME Typed, NEW t \in Tasks, Rewrite(t)
  PROVE  Typed'
<1>1. pc[t] = "rewrite" /\ Placed(t) /\ Supplied(t) /\ RewriteLabel(t) \in PCs
      /\ RewriteLabel(t) \in {"commit", "rewriteDest"}
      /\ (RewriteLabel(t) = "rewriteDest" => loc[t].dparent # NoINode)
  BY TypedPlace DEF Rewrite, PCs, RewriteLabel
<1>2. loc[t].parent \in INode /\ loc[t].parent.inumber # None
  BY <1>1, LocalsTyped DEF Supplied, Typed
<1>3. RewriteBytes(t) \in Content
  BY LocalsTyped, IdleTyped, DirBytesTyped DEF Typed, RewriteBytes
<1>4. loc[t].dparent # NoINode => op[t] = "move"
  BY TypedPlace DEF Supplied
<1> QED BY <1>1, <1>2, <1>3, <1>4, RewriteSteps, TypedFail, TypedPuts

-----------------------------------------------------------------------------
(* Types are kept by the steps that write bitmaps and inodes.              *)

DeviceTyped ==
  /\ bits' \subseteq INumbers /\ inodes' \in [INumbers -> INode]
  /\ used' \subseteq Extents /\ disk' \in [Extents -> Content]
  /\ guard' \in Tasks \cup {NoTask} /\ clobbered' \subseteq INumbers

LEMMA TypedMoves ==
  ASSUME Typed, NEW t \in Tasks, NEW label \in PCs, NEW r \in Locals,
         Moves(t, label, r), op' = op, DeviceTyped,
         UNCHANGED <<lost, orphans, doomed, crashes>>
  PROVE  /\ StateTyped' /\ Others(t)
         /\ pc'[t] = label /\ loc'[t] = r /\ op'[t] = op[t]
<1>1. /\ pc' \in [Tasks -> PCs] /\ loc' \in [Tasks -> Locals]
      /\ pc'[t] = label /\ loc'[t] = r
      /\ \A u \in Tasks \ {t} : pc'[u] = pc[u] /\ loc'[u] = loc[u]
  BY MovesFacts DEF Typed
<1> QED BY <1>1 DEF Typed, StateTyped, Others, DeviceTyped

LEMMA ClobberTyped ==
  ASSUME Typed, NEW t \in Tasks, NEW i, Clobber(t, i)
  PROVE  clobbered' \subseteq INumbers
  BY LocalsTyped DEF Clobber, Typed, StateTyped

LEMMA EntersFacts ==
  ASSUME Typed, NEW t \in Tasks, NEW x \in INode, x.inumber # None, Enters(t, x)
  PROVE  /\ bits' = bits \cup {x.inumber} /\ x.inumber \in INumbers
         /\ inodes' = [inodes EXCEPT ![x.inumber] = x]
         /\ inodes'[x.inumber] = x
         /\ \A i \in INumbers \ {x.inumber} : inodes'[i] = inodes[i]
  BY INodeFields DEF Enters, Typed, StateTyped

(* What register_inode changes.                                            *)
LEMMA RegisterFacts ==
  ASSUME Typed, NEW t \in Tasks, NEW x \in INode, x.inumber # None, Register(t, x)
  PROVE  /\ bits' \subseteq bits \cup loc[t].snap \cup {x.inumber}
         /\ loc[t].snap \subseteq INumbers /\ x.inumber \in INumbers
         /\ guard' = NoTask /\ clobbered' \subseteq INumbers
         /\ bits' \subseteq INumbers /\ inodes' \in [INumbers -> INode]
         /\ inodes'[x.inumber] = x
         /\ \A i \in INumbers \ {x.inumber} : inodes'[i] = inodes[i]
<1>1. x.inumber \in INumbers
  BY INodeFields
<1>2. bits' = (bits \ INodesOf(GroupOf(x.inumber))) \cup (loc[t].snap \cup {x.inumber})
      /\ guard' = NoTask /\ inodes' = [inodes EXCEPT ![x.inumber] = x]
  BY DEF Register, WriteBitmap
<1>3. loc[t].snap \subseteq INumbers
  BY LocalsTyped DEF Typed
<1>4. clobbered' \subseteq INumbers
  BY ClobberTyped DEF Register
<1> QED BY <1>1, <1>2, <1>3, <1>4 DEF Typed, StateTyped

LEMMA RegisterNumbered ==
  ASSUME Typed, NEW t \in Tasks, NEW x \in INode, x.inumber # None,
         Register(t, x), Others(t), loc'[t].snap \subseteq loc[t].snap
  PROVE  Numbered'
<1>1. /\ bits' \subseteq bits \cup loc[t].snap \cup {x.inumber}
      /\ x.inumber \in INumbers /\ inodes'[x.inumber] = x
      /\ \A i \in INumbers \ {x.inumber} : inodes'[i] = inodes[i]
  BY RegisterFacts
<1>2. \A u \in Tasks : loc'[u].snap \subseteq loc[u].snap
                       /\ loc[u].snap \subseteq INumbers
  BY LocalsTyped DEF Others, Typed
<1>3. bits \subseteq INumbers /\ Root \in INumbers
  BY RootIsANumber DEF Typed, StateTyped
<1>4. \A i \in INumbers : (inodes'[i] = x /\ i = x.inumber) \/ inodes'[i] = inodes[i]
  BY <1>1
<1> QED BY <1>1, <1>2, <1>3, <1>4 DEF Numbered, Typed

(* What free_full_extent changes.                                          *)
LEMMA ReleaseFacts ==
  ASSUME Typed, NEW e, Release(e)
  PROVE  used' \subseteq Extents /\ disk' \in [Extents -> Content]
         /\ \A f \in Extents \ {e} : disk'[f] = disk[f]
  BY IdleTyped DEF Release, Typed, StateTyped

LEMMA TypedStoreData ==
  ASSUME Typed, NEW t \in Tasks, StoreData(t)
  PROVE  Typed'
<1>0. pc[t] = "data" /\ op[t] \in Linking /\ Placed(t) /\ Supplied(t)
      /\ "choose" \in PCs
  BY TypedPlace DEF StoreData, Placed, PCs
<1>1. CASE Fail(t)
  BY <1>1, TypedFail
<1>2. ASSUME NEW e \in Extents \cup {None}, NEW r \in Locals,
             Stores(Payload(t), e),
             r = [loc[t] EXCEPT !.child = [loc[t].child EXCEPT !.ext = e],
                                !.held = loc[t].held \cup ({e} \ {None})],
             Moves(t, "choose", r),
             UNCHANGED <<bits, inodes, guard, op, lost, orphans, doomed,
                         clobbered, crashes>>
      PROVE  Typed'
  <2>1. DeviceTyped
    BY <1>0, <1>2, PayloadTyped, StoresFacts DEF DeviceTyped, Typed, StateTyped
  <2>2. /\ StateTyped' /\ Others(t)
        /\ pc'[t] = "choose" /\ loc'[t] = r /\ op'[t] = op[t]
    BY <1>0, <1>2, <2>1, TypedMoves
  <2>3. /\ r.snap = loc[t].snap /\ r.parent = loc[t].parent
        /\ r.path = loc[t].path /\ r.dest = loc[t].dest
        /\ r.dparent = loc[t].dparent /\ r.target = loc[t].target
        /\ r.rest = loc[t].rest
    BY <1>2, LocalsTyped DEF Locals, Typed
  <2>4. Numbered'
    BY <1>2, <2>2, <2>3, KeptNumbered
  <2>5. Placed(t)'
    BY <1>0, <2>2 DEF Placed, Walks, Deleting, Creating
  <2>6. Supplied(t)'
    BY <1>0, <2>2, <2>3 DEF Supplied, Walks, Deleting, Linking
  <2> QED BY <2>2, <2>4, <2>5, <2>6, TypedStep
<1> QED BY <1>1, <1>2, StoreDataSteps

LEMMA TypedRewriteDest ==
  ASSUME Typed, NEW t \in Tasks, RewriteDest(t)
  PROVE  Typed'
<1>0. pc[t] = "rewriteDest" /\ op[t] = "move" /\ Placed(t) /\ Supplied(t)
      /\ "commitDest" \in PCs
  BY TypedPlace DEF RewriteDest, Placed, PCs
<1>1. CASE Fail(t)
  BY <1>1, TypedFail
<1>2. ASSUME NEW e \in Extents, NEW r \in Locals,
             Stores(DirBytes(loc[t].ddir), e),
             r = [loc[t] EXCEPT !.dput = [loc[t].dparent EXCEPT !.ext = e],
                                !.dold = loc[t].dparent.ext,
                                !.held = loc[t].held \cup {e}],
             Moves(t, "commitDest", r),
             UNCHANGED <<bits, inodes, guard, op, lost, orphans, doomed,
                         clobbered, crashes>>
      PROVE  Typed'
  <2>1. DeviceTyped
    BY <1>2, LocalsTyped, DirBytesTyped, StoresFacts DEF DeviceTyped, Typed, StateTyped
  <2>2. /\ StateTyped' /\ Others(t)
        /\ pc'[t] = "commitDest" /\ loc'[t] = r /\ op'[t] = op[t]
    BY <1>0, <1>2, <2>1, TypedMoves
  <2> DEFINE y == [loc[t].dparent EXCEPT !.ext = e]
  <2>3. y.inumber # None
    BY <1>0, LocalsTyped, INodeFields DEF Supplied, Typed
  <2>4. /\ r.snap = loc[t].snap /\ r.put = loc[t].put /\ r.dput = y
        /\ r.path = loc[t].path /\ r.dest = loc[t].dest
        /\ r.dparent = loc[t].dparent
    <3>1. r = [loc[t] EXCEPT !.dput = y, !.dold = loc[t].dparent.ext,
                             !.held = loc[t].held \cup {e}]
      BY <1>2
    <3> HIDE DEF y
    <3> QED BY <3>1, LocalsTyped DEF Locals, Typed
  <2>5. Numbered'
    BY <1>2, <2>2, <2>4, KeptNumbered
  <2> HIDE DEF y
  <2>6. Placed(t)'
    BY <1>0, <2>2 DEF Placed, Walks, Deleting, Creating
  <2>7. Supplied(t)'
    BY <1>0, <2>2, <2>3, <2>4 DEF Supplied, Walks, Deleting, Linking
  <2> QED BY <2>2, <2>5, <2>6, <2>7, TypedStep
<1> QED BY <1>1, <1>2, RewriteDestSteps

LEMMA TypedFollowLink ==
  ASSUME Typed, NEW t \in Tasks, FollowLink(t)
  PROVE  Typed'
<1> DEFINE i == NameOf(loc[t].stack)
           b == Bytes(inodes[i].ext)
<1>0. pc[t] = "links" /\ op[t] = "unlink" /\ Placed(t) /\ Supplied(t)
      /\ {"delete", "links"} \subseteq PCs /\ loc[t] \in Locals
  BY TypedPlace, LocalsTyped DEF FollowLink, Placed, PCs, Deleting, Typed
<1>1. CASE Fail(t)
  BY <1>1, TypedFail
<1>2. CASE Steps(t, "delete", loc[t])
  <2>1. pc'[t] = "delete" /\ loc'[t] = loc[t] /\ op'[t] = op[t]
    BY <1>0, <1>2, StepsFacts DEF Typed
  <2>2. Placed(t)'
    BY <1>0, <2>1 DEF Placed, Walks, Deleting
  <2>3. Supplied(t)'
    BY <1>0, <2>1 DEF Supplied, Walks, Deleting, Linking
  <2> QED BY <1>0, <1>2, <2>2, <2>3, TypedSteps, TypedPlace
<1>3. ASSUME NEW r \in Locals,
             r = [loc[t] EXCEPT !.stack = Append(loc[t].stack, b.target)],
             Steps(t, pc[t], r), b.target \in bits
      PROVE  Typed'
  <2>1. /\ r.stack = Append(loc[t].stack, b.target) /\ r.snap = loc[t].snap
        /\ r.parent = loc[t].parent
        /\ r.path = loc[t].path /\ r.dparent = loc[t].dparent
    BY <1>3, LocalsTyped DEF Locals, Typed
  <2>2. Append(loc[t].stack, b.target) # <<>>
    <3> HIDE DEF b
    <3>1. loc[t].stack \in Seq(INumbers) /\ b.target \in INumbers
      BY <1>3, LocalsTyped DEF Typed, StateTyped
    <3> QED BY <3>1, AppendProperties, EmptySeq
  <2>3. pc'[t] = "links" /\ loc'[t] = r /\ op'[t] = op[t]
    BY <1>0, <1>3, StepsFacts DEF Typed
  <2>4. Placed(t)'
    BY <1>0, <2>3 DEF Placed, Walks, Deleting
  <2>5. Supplied(t)'
    <3> HIDE DEF b
    <3> QED BY <1>0, <2>1, <2>2, <2>3 DEF Supplied, Walks, Deleting, Linking
  <2> QED BY <1>0, <1>3, <2>1, <2>3, <2>4, <2>5, TypedSteps, TypedPlace
<1> QED BY <1>1, <1>2, <1>3, FollowLinkSteps

LEMMA TypedDeleteNext ==
  ASSUME Typed, NEW t \in Tasks, DeleteNext(t)
  PROVE  Typed'
<1> DEFINE i == NameOf(loc[t].stack)
           rest == ParentOf(loc[t].stack)
<1>0. pc[t] = "delete" /\ op[t] = "unlink" /\ Placed(t) /\ Supplied(t)
      /\ {"delete", "rewrite", "free", "drop"} \subseteq PCs /\ loc[t] \in Locals
  BY TypedPlace, LocalsTyped DEF DeleteNext, Placed, PCs, Deleting, Typed
<1>2. ASSUME NEW r \in Locals, NEW label \in {"delete", "rewrite", "free", "drop"},
             Steps(t, label, r),
             label \in {"free", "drop"} => r.child.inumber # None,
             r.snap \subseteq loc[t].snap \cup bits,
             r.parent = loc[t].parent, r.path = loc[t].path,
             r.dparent = loc[t].dparent
      PROVE  Typed'
  <2>1. pc'[t] = label /\ loc'[t] = r /\ op'[t] = op[t]
    BY <1>0, <1>2, StepsFacts DEF Typed
  <2>2. Placed(t)'
    BY <1>0, <1>2, <2>1 DEF Placed, Walks, Deleting
  <2>3. Supplied(t)'
    BY <1>0, <1>2, <2>1 DEF Supplied, Walks, Deleting, Linking
  <2>4. \A j \in r.snap : inodes[j].inumber = j
    BY <1>2 DEF Typed, Numbered
  <2> QED BY <1>0, <1>2, <2>2, <2>3, <2>4, TypedSteps
<1>3. CASE Steps(t, "rewrite", loc[t])
  BY <1>0, <1>2, <1>3
<1>4. ASSUME NEW r \in Locals, r = [loc[t] EXCEPT !.stack = rest],
             Steps(t, pc[t], r)
      PROVE  Typed'
  <2> HIDE DEF rest
  <2>1. r.snap = loc[t].snap /\ r.parent = loc[t].parent
        /\ r.path = loc[t].path /\ r.dparent = loc[t].dparent
    BY <1>0, <1>4 DEF Locals
  <2> QED BY <1>0, <1>2, <1>4, <2>1
<1>5. ASSUME NEW r \in Locals, i \in bits, Left(i) \in Nat,
             r = [loc[t] EXCEPT !.stack = rest,
                                !.snap = bits \cap INodesOf(GroupOf(i)),
                                !.child = [inodes[i] EXCEPT !.nlink = Left(i)]],
             Steps(t, IF Left(i) = 0 THEN "free" ELSE "drop", r)
      PROVE  Typed'
  <2> DEFINE x == [inodes[i] EXCEPT !.nlink = Left(i)]
  <2>1. inodes[i] \in INode /\ inodes[i].inumber # None
    BY <1>5, FoundTyped DEF Typed
  <2>2. x.inumber # None
    BY <1>5, <2>1, INodeFields
  <2>3. r = [loc[t] EXCEPT !.stack = rest, !.snap = bits \cap INodesOf(GroupOf(i)),
                           !.child = x]
    BY <1>5
  <2> HIDE DEF x, rest
  <2>4. r.snap \subseteq bits /\ r.parent = loc[t].parent /\ r.child = x
        /\ r.path = loc[t].path /\ r.dparent = loc[t].dparent
    BY <1>0, <2>3 DEF Locals
  <2> DEFINE label == IF Left(i) = 0 THEN "free" ELSE "drop"
  <2>5. label \in {"delete", "rewrite", "free", "drop"} /\ Steps(t, label, r)
    BY <1>5
  <2> HIDE DEF label
  <2> QED BY <1>2, <2>2, <2>4, <2>5
<1> QED BY <1>3, <1>4, <1>5, DeleteNextSteps

LEMMA TypedChooseInode ==
  ASSUME Typed, NEW t \in Tasks, ChooseInode(t)
  PROVE  Typed'
<1>0. pc[t] = "choose" /\ op[t] \in Creating /\ Placed(t) /\ Supplied(t)
      /\ "born" \in PCs
  BY TypedPlace DEF ChooseInode, Placed, PCs
<1>1. CASE Fail(t)
  BY <1>1, TypedFail
<1>2. ASSUME NEW i \in INumbers \ bits, NEW s \in SUBSET bits, NEW r \in Locals,
             guard' = t,
             r = [loc[t] EXCEPT !.inum = i, !.snap = s],
             Moves(t, "born", r),
             UNCHANGED <<bits, inodes, used, disk, op, lost, orphans,
                         doomed, clobbered, crashes>>
      PROVE  Typed'
  <2>1. DeviceTyped
    BY <1>2 DEF DeviceTyped, Typed, StateTyped
  <2>2. /\ StateTyped' /\ Others(t)
        /\ pc'[t] = "born" /\ loc'[t] = r /\ op'[t] = op[t]
    BY <1>0, <1>2, <2>1, TypedMoves
  <2>3. /\ r.snap = s /\ r.inum = i /\ r.parent = loc[t].parent
        /\ r.path = loc[t].path /\ r.dest = loc[t].dest
        /\ r.dparent = loc[t].dparent /\ r.target = loc[t].target
        /\ r.rest = loc[t].rest
    BY <1>2, LocalsTyped DEF Locals, Typed
  <2>4. Numbered'
    BY <1>2, <2>2, <2>3, KeptNumbered
  <2>5. i # None
    BY RootIsANumber
  <2>6. Placed(t)'
    BY <1>0, <2>2 DEF Placed, Walks, Deleting, Creating
  <2>7. Supplied(t)'
    BY <1>0, <2>2, <2>3, <2>5 DEF Supplied, Walks, Deleting, Linking
  <2> QED BY <2>2, <2>4, <2>6, <2>7, TypedStep
<1> QED BY <1>1, <1>2, ChooseInodeSteps

LEMMA TypedBornInode ==
  ASSUME Typed, NEW t \in Tasks, BornInode(t)
  PROVE  Typed'
<1> DEFINE i == loc[t].inum
<1>0. pc[t] = "born" /\ op[t] \in Creating /\ Placed(t) /\ Supplied(t)
      /\ "rewrite" \in PCs
  BY TypedPlace DEF BornInode, Placed, PCs
<1>1. PICK r \in Locals :
        /\ r = [loc[t] EXCEPT !.child = NewINode(t),
                              !.dir = With(loc[t].dir, TheName(t), i),
                              !.held = loc[t].held \ {NewINode(t).ext},
                              !.born = {i}]
        /\ Moves(t, "rewrite", r)
        /\ inodes' = [inodes EXCEPT ![i] = NewINode(t)]
        /\ WriteBitmap(i, loc[t].snap \cup {i})
        /\ Clobber(t, i)
        /\ guard' = NoTask
        /\ UNCHANGED <<used, disk, op, lost, orphans, doomed, crashes>>
  BY BornInodeSteps
<1>2. NewINode(t) \in INode /\ i \in INumbers /\ NewINode(t).inumber = i /\ i # None
  BY <1>0, NewTyped, RootIsANumber DEF NewINode
<1>3. bits' \subseteq bits \cup loc[t].snap \cup {i} /\ loc[t].snap \subseteq INumbers
  BY <1>1, LocalsTyped DEF WriteBitmap, Typed
<1>4. DeviceTyped
  BY <1>1, <1>2, <1>3, ClobberTyped DEF DeviceTyped, Typed, StateTyped
<1>5. /\ StateTyped' /\ Others(t)
      /\ pc'[t] = "rewrite" /\ loc'[t] = r /\ op'[t] = op[t]
  BY <1>0, <1>1, <1>4, TypedMoves
<1> DEFINE x == NewINode(t)
           d == With(loc[t].dir, TheName(t), i)
           h == loc[t].held \ {NewINode(t).ext}
<1>6. r = [loc[t] EXCEPT !.child = x, !.dir = d, !.held = h, !.born = {i}]
  BY <1>1
<1>7. inodes' = [inodes EXCEPT ![i] = x] /\ x.inumber = i /\ x \in INode
  BY <1>1, <1>2
<1> HIDE DEF x, d, h
<1>8. /\ r.snap = loc[t].snap /\ r.parent = loc[t].parent /\ r.child = x
      /\ r.path = loc[t].path /\ r.dest = loc[t].dest
      /\ r.dparent = loc[t].dparent /\ r.target = loc[t].target
      /\ r.rest = loc[t].rest
  BY <1>6, LocalsTyped DEF Locals, Typed
<1>9. Numbered'
  <2>1. \A j \in INumbers : inodes'[j] = (IF j = i THEN x ELSE inodes[j])
    BY <1>2, <1>7 DEF Typed, StateTyped
  <2>2. \A u \in Tasks : loc'[u].snap = loc[u].snap /\ loc[u].snap \subseteq INumbers
    BY <1>5, <1>8, LocalsTyped DEF Others, Typed
  <2>3. Root \in INumbers /\ bits \subseteq INumbers
    BY RootIsANumber DEF Typed, StateTyped
  <2>4. \A j \in INumbers : inodes[j].inumber = j => inodes'[j].inumber = j
    BY <1>7, <2>1
  <2>5. \A j \in INumbers : inodes'[j].inumber \in {j, None}
    BY <1>7, <2>1 DEF Typed, Numbered
  <2>6. \A j \in bits' \cup {Root} : inodes'[j].inumber = j
    BY <1>2, <1>3, <1>7, <2>1, <2>3, <2>4 DEF Typed, Numbered
  <2>7. \A u \in Tasks : \A j \in loc'[u].snap : inodes'[j].inumber = j
    BY <2>2, <2>4 DEF Typed, Numbered
  <2> HIDE DEF i
  <2> QED BY <2>5, <2>6, <2>7 DEF Numbered
<1>10. Placed(t)'
  BY <1>0, <1>5 DEF Placed, Walks, Deleting, Creating
<1>11. Supplied(t)'
  BY <1>0, <1>2, <1>5, <1>7, <1>8 DEF Supplied, Walks, Deleting, Linking
<1> QED BY <1>5, <1>9, <1>10, <1>11, TypedStep

LEMMA TypedCommit ==
  ASSUME Typed, NEW t \in Tasks, Commit(t)
  PROVE  Typed'
<1> DEFINE h == (loc[t].held \cup {loc[t].old}) \ {loc[t].put.ext, None}
<1>0. pc[t] = "commit" /\ Placed(t) /\ Supplied(t) /\ "release" \in PCs
  BY TypedPlace DEF Commit, PCs
<1>1. /\ Register(t, loc[t].put)
      /\ UNCHANGED <<used, disk, lost, orphans, doomed, crashes>>
      /\ \/ op[t] = "append" /\ Return(t)
         \/ /\ op[t] # "append" /\ op' = op
            /\ \E r \in Locals :
                 /\ r = [loc[t] EXCEPT !.held = h, !.born = {}]
                 /\ Moves(t, "release", r)
  BY CommitSteps
<1>2. loc[t].put \in INode /\ loc[t].put.inumber # None
  BY <1>0, LocalsTyped DEF Typed, Supplied
<1>3. DeviceTyped
  BY <1>1, <1>2, RegisterFacts DEF DeviceTyped, Typed, StateTyped
<1>4. CASE op[t] = "append" /\ Return(t)
  <2>1. Others(t) /\ loc'[t] = Idle
    BY <1>4, ReturnFacts DEF Typed
  <2>2. Numbered'
    BY <1>1, <1>2, <2>1, RegisterNumbered, IdleSnap
  <2> QED BY <1>1, <1>3, <1>4, <2>2, TypedReturn DEF DeviceTyped
<1>5. ASSUME NEW r \in Locals, op[t] # "append", op' = op,
             r = [loc[t] EXCEPT !.held = h, !.born = {}],
             Moves(t, "release", r)
      PROVE  Typed'
  <2>2. /\ StateTyped' /\ Others(t)
        /\ pc'[t] = "release" /\ loc'[t] = r /\ op'[t] = op[t]
    BY <1>0, <1>1, <1>3, <1>5, TypedMoves
  <2> HIDE DEF h
  <2>3. /\ r.snap = loc[t].snap /\ r.child = loc[t].child
        /\ r.path = loc[t].path /\ r.dest = loc[t].dest
        /\ r.dparent = loc[t].dparent /\ r.target = loc[t].target
        /\ r.rest = loc[t].rest
    BY <1>5, LocalsTyped DEF Locals, Typed
  <2>4. Numbered'
    BY <1>1, <1>2, <2>2, <2>3, RegisterNumbered
  <2>5. Placed(t)'
    BY <1>0, <1>5, <2>2 DEF Placed, Walks, Deleting
  <2>6. Supplied(t)'
    BY <1>0, <2>2, <2>3 DEF Supplied, Walks, Deleting, Linking
  <2> QED BY <2>2, <2>4, <2>5, <2>6, TypedStep
<1> QED BY <1>1, <1>4, <1>5

LEMMA TypedReadBitmap ==
  ASSUME Typed, NEW t \in Tasks, ReadBitmap(t)
  PROVE  Typed'
<1>1. PICK s \in SUBSET bits, r \in Locals :
        r = [loc[t] EXCEPT !.snap = s] /\ Moves(t, pc[t], r)
  BY ReadBitmapSteps
<1>2. /\ guard' = t
      /\ UNCHANGED <<bits, inodes, used, disk, op, lost, orphans, doomed,
                     clobbered, crashes>>
  BY ReadBitmapSteps
<1>3. pc[t] \in PCs /\ DeviceTyped /\ Placed(t) /\ Supplied(t)
  BY <1>2 DEF DeviceTyped, Typed, StateTyped
<1>4. /\ StateTyped' /\ Others(t)
      /\ pc'[t] = pc[t] /\ loc'[t] = r /\ op'[t] = op[t]
  BY <1>1, <1>2, <1>3, TypedMoves
<1>5. pc[t] \in Registering
  BY ReadBitmapSteps
<1>6. Numbered'
  BY <1>1, <1>2, <1>4, LocalsTyped, StepNumbered DEF Typed, Numbered, Locals
<1>7. Placed(t)'
  BY <1>3, <1>4, <1>5 DEF Placed, Registering
<1>8. Supplied(t)'
  BY <1>1, <1>3, <1>4, LocalsTyped DEF Supplied, Locals, Typed
<1> QED BY <1>4, <1>6, <1>7, <1>8, TypedStep

LEMMA TypedCommitDest ==
  ASSUME Typed, NEW t \in Tasks, CommitDest(t)
  PROVE  Typed'
<1> DEFINE h == (loc[t].held \cup {loc[t].dold}) \ {loc[t].dput.ext, None}
<1>0. pc[t] = "commitDest" /\ op[t] = "move" /\ Placed(t) /\ Supplied(t)
      /\ "commit" \in PCs
  BY TypedPlace DEF CommitDest, PCs, Placed
<1>1. /\ Register(t, loc[t].dput)
      /\ UNCHANGED <<used, disk, op, lost, orphans, doomed, crashes>>
      /\ \E r \in Locals :
           r = [loc[t] EXCEPT !.held = h] /\ Moves(t, "commit", r)
  BY CommitDestSteps
<1>2. loc[t].dput \in INode /\ loc[t].dput.inumber # None
  BY <1>0, LocalsTyped DEF Typed, Supplied
<1>3. DeviceTyped
  BY <1>1, <1>2, RegisterFacts DEF DeviceTyped, Typed, StateTyped
<1>4. PICK r \in Locals : r = [loc[t] EXCEPT !.held = h] /\ Moves(t, "commit", r)
  BY <1>1
<1>5. /\ StateTyped' /\ Others(t)
      /\ pc'[t] = "commit" /\ loc'[t] = r /\ op'[t] = op[t]
  BY <1>0, <1>1, <1>3, <1>4, TypedMoves
<1> HIDE DEF h
<1>6. /\ r.snap = loc[t].snap /\ r.put = loc[t].put
      /\ r.path = loc[t].path /\ r.dest = loc[t].dest
      /\ r.dparent = loc[t].dparent
  BY <1>4, LocalsTyped DEF Locals, Typed
<1>7. Numbered'
  BY <1>1, <1>2, <1>5, <1>6, RegisterNumbered
<1>8. Placed(t)'
  BY <1>0, <1>5 DEF Placed, Walks, Deleting
<1>9. Supplied(t)'
  BY <1>0, <1>5, <1>6 DEF Supplied, Walks, Deleting, Linking
<1> QED BY <1>5, <1>7, <1>8, <1>9, TypedStep

LEMMA TypedReleaseOld ==
  ASSUME Typed, NEW t \in Tasks, ReleaseOld(t)
  PROVE  Typed'
<1> DEFINE h == loc[t].held \ {loc[t].old}
<1>0. pc[t] = "release" /\ Placed(t) /\ Supplied(t)
      /\ {"bump", "releaseDest", "mkdir"} \subseteq PCs
  BY TypedPlace DEF ReleaseOld, PCs
<1>1. /\ Release(loc[t].old)
      /\ UNCHANGED <<bits, inodes, guard, lost, orphans, doomed, clobbered, crashes>>
  BY ReleaseOldSteps
<1>3. DeviceTyped
  BY <1>1, ReleaseFacts DEF DeviceTyped, Typed, StateTyped
<1>4. CASE Return(t)
  <2>1. Others(t) /\ loc'[t] = Idle
    BY <1>4, ReturnFacts DEF Typed
  <2>2. Numbered'
    BY <1>1, <2>1, KeptNumbered, IdleSnap
  <2> QED BY <1>1, <1>3, <1>4, <2>2, TypedReturn DEF DeviceTyped
<1>5. ASSUME NEW r \in Locals, op' = op,
             r = [loc[t] EXCEPT !.held = h],
             \/ Moves(t, "bump", r) /\ op[t] = "hardlink"
             \/ Moves(t, "releaseDest", r) /\ op[t] = "move"
      PROVE  Typed'
  <2> DEFINE label == IF op[t] = "hardlink" THEN "bump" ELSE "releaseDest"
  <2>1. Moves(t, label, r) /\ label \in PCs /\ op[t] \in {"hardlink", "move"}
    BY <1>0, <1>5
  <2>2. /\ StateTyped' /\ Others(t)
        /\ pc'[t] = label /\ loc'[t] = r /\ op'[t] = op[t]
    BY <2>1, <1>1, <1>3, <1>5, TypedMoves
  <2>3. /\ r.snap = loc[t].snap
        /\ r.path = loc[t].path /\ r.dest = loc[t].dest
        /\ r.dparent = loc[t].dparent /\ r.target = loc[t].target
    <3> HIDE DEF h
    <3> QED BY <1>5, LocalsTyped DEF Locals, Typed
  <2>4. Numbered'
    BY <1>1, <2>2, <2>3, KeptNumbered
  <2>5. Placed(t)'
    BY <1>0, <2>1, <2>2 DEF Placed, Walks, Deleting
  <2>6. Supplied(t)'
    BY <1>0, <2>1, <2>2, <2>3 DEF Supplied, Walks, Deleting, Linking
  <2> QED BY <2>2, <2>4, <2>5, <2>6, TypedStep
<1>6. ASSUME NEW r \in Locals, op' = op, op[t] = "mkdir",
             r = [loc[t] EXCEPT !.held = h, !.node = loc[t].child,
                                !.rest = Tail(loc[t].rest)],
             Moves(t, "mkdir", r)
      PROVE  Typed'
  <2>2. /\ StateTyped' /\ Others(t)
        /\ pc'[t] = "mkdir" /\ loc'[t] = r /\ op'[t] = op[t]
    BY <1>0, <1>1, <1>3, <1>6, TypedMoves
  <2>3. /\ r.snap = loc[t].snap /\ r.node = loc[t].child
        /\ r.dparent = loc[t].dparent
    <3> HIDE DEF h
    <3> QED BY <1>6, LocalsTyped DEF Locals, Typed
  <2>4. Numbered'
    BY <1>1, <2>2, <2>3, KeptNumbered
  <2>5. Placed(t)'
    BY <1>0, <1>6, <2>2 DEF Placed, Walks, Deleting
  <2>6. Supplied(t)'
    BY <1>0, <1>6, <2>2, <2>3 DEF Supplied, Walks, Deleting, Linking
  <2> QED BY <2>2, <2>4, <2>5, <2>6, TypedStep
<1> QED BY <1>4, <1>5, <1>6, ReleaseOldSteps

LEMMA TypedReleaseDest ==
  ASSUME Typed, NEW t \in Tasks, ReleaseDest(t)
  PROVE  Typed'
<1>1. /\ Release(loc[t].dold) /\ Return(t)
      /\ UNCHANGED <<bits, inodes, guard, lost, orphans, doomed, clobbered, crashes>>
  BY ReleaseDestSteps
<1>2. DeviceTyped
  BY <1>1, ReleaseFacts DEF DeviceTyped, Typed, StateTyped
<1>3. Others(t) /\ loc'[t] = Idle
  BY <1>1, ReturnFacts DEF Typed
<1>4. Numbered'
  BY <1>1, <1>3, KeptNumbered, IdleSnap
<1> QED BY <1>1, <1>2, <1>4, TypedReturn DEF DeviceTyped

LEMMA TypedBumpLink ==
  ASSUME Typed, NEW t \in Tasks, BumpLink(t)
  PROVE  Typed'
<1>1. /\ Register(t, Raised(t)) /\ Return(t) /\ Raised(t) \in INode
      /\ Raised(t).inumber # None
      /\ UNCHANGED <<used, disk, lost, orphans, doomed, crashes>>
  BY BumpLinkSteps
<1>2. DeviceTyped
  BY <1>1, RegisterFacts DEF DeviceTyped, Typed, StateTyped
<1>3. Others(t) /\ loc'[t] = Idle
  BY <1>1, ReturnFacts DEF Typed
<1>4. Numbered'
  BY <1>1, <1>3, RegisterNumbered, IdleSnap
<1> QED BY <1>1, <1>2, <1>4, TypedReturn DEF DeviceTyped

LEMMA TypedDropLink ==
  ASSUME Typed, NEW t \in Tasks, DropLink(t)
  PROVE  Typed'
<1>0. pc[t] = "drop" /\ op[t] = "unlink" /\ Placed(t) /\ Supplied(t)
      /\ "delete" \in PCs
  BY TypedPlace DEF DropLink, PCs, Placed, Deleting
<1>1. /\ Register(t, loc[t].child) /\ Moves(t, "delete", DoomChild(t))
      /\ UNCHANGED <<used, disk, op, lost, orphans, doomed, crashes>>
  BY DropLinkSteps
<1>2. /\ DoomChild(t) \in Locals /\ loc[t].child \in INode
      /\ loc[t].child.inumber # None
  BY <1>0, DoomedTyped, RootIsANumber
<1>3. DeviceTyped
  BY <1>1, <1>2, RegisterFacts DEF DeviceTyped, Typed, StateTyped
<1>4. /\ StateTyped' /\ Others(t)
      /\ pc'[t] = "delete" /\ loc'[t] = DoomChild(t) /\ op'[t] = op[t]
  BY <1>0, <1>1, <1>2, <1>3, TypedMoves
<1>5. /\ loc'[t].snap = loc[t].snap /\ loc'[t].parent = loc[t].parent
      /\ loc'[t].path = loc[t].path /\ loc'[t].dparent = loc[t].dparent
  BY <1>4, LocalsTyped DEF DoomChild, Locals, Typed
<1>6. Numbered'
  BY <1>1, <1>2, <1>4, <1>5, RegisterNumbered
<1>7. Placed(t)'
  BY <1>0, <1>4 DEF Placed, Walks, Deleting
<1>8. Supplied(t)'
  BY <1>0, <1>4, <1>5 DEF Supplied, Walks, Deleting, Linking
<1> QED BY <1>4, <1>6, <1>7, <1>8, TypedStep

LEMMA TypedFreeINode ==
  ASSUME Typed, NEW t \in Tasks, FreeINode(t)
  PROVE  Typed'
<1>0. pc[t] = "free" /\ op[t] = "unlink" /\ Placed(t) /\ Supplied(t)
      /\ "clear" \in PCs
  BY TypedPlace DEF FreeINode, PCs, Placed, Deleting
<1>1. /\ Release(loc[t].child.ext) /\ Moves(t, "clear", DoomChild(t))
      /\ UNCHANGED <<bits, inodes, guard, op, lost, orphans, doomed, clobbered, crashes>>
  BY FreeINodeSteps
<1>2. DoomChild(t) \in Locals
  BY <1>0, DoomedTyped
<1>3. DeviceTyped
  BY <1>1, ReleaseFacts DEF DeviceTyped, Typed, StateTyped
<1>4. /\ StateTyped' /\ Others(t)
      /\ pc'[t] = "clear" /\ loc'[t] = DoomChild(t) /\ op'[t] = op[t]
  BY <1>0, <1>1, <1>2, <1>3, TypedMoves
<1>5. /\ loc'[t].snap = loc[t].snap /\ loc'[t].parent = loc[t].parent
      /\ loc'[t].path = loc[t].path /\ loc'[t].dparent = loc[t].dparent
      /\ loc'[t].child = loc[t].child
  BY <1>4, LocalsTyped DEF DoomChild, Locals, Typed
<1>6. Numbered'
  BY <1>1, <1>4, <1>5, KeptNumbered
<1>7. Placed(t)'
  BY <1>0, <1>4 DEF Placed, Walks, Deleting
<1>8. Supplied(t)'
  BY <1>0, <1>4, <1>5 DEF Supplied, Walks, Deleting, Linking
<1> QED BY <1>4, <1>6, <1>7, <1>8, TypedStep

LEMMA TypedClearBit ==
  ASSUME Typed, NEW t \in Tasks, ClearBit(t)
  PROVE  Typed'
<1> DEFINE i == loc[t].child.inumber
<1>0. pc[t] = "clear" /\ op[t] = "unlink" /\ Placed(t) /\ Supplied(t)
      /\ "delete" \in PCs /\ loc[t] \in Locals
  BY TypedPlace, LocalsTyped DEF ClearBit, PCs, Placed, Deleting, Typed
<1>1. /\ WriteBitmap(i, loc[t].snap \ {i}) /\ Clobber(t, i)
      /\ Moves(t, "delete", loc[t])
      /\ UNCHANGED <<inodes, used, disk, guard, op, lost, orphans, doomed, crashes>>
  BY ClearBitSteps
<1>2. bits' \subseteq bits \cup loc[t].snap /\ loc[t].snap \subseteq INumbers
  BY <1>1, LocalsTyped DEF WriteBitmap, Typed
<1>3. DeviceTyped
  BY <1>1, <1>2, ClobberTyped DEF DeviceTyped, Typed, StateTyped
<1>4. /\ StateTyped' /\ Others(t)
      /\ pc'[t] = "delete" /\ loc'[t] = loc[t] /\ op'[t] = op[t]
  BY <1>0, <1>1, <1>3, TypedMoves
<1>6. Numbered'
  BY <1>1, <1>2, <1>4, StepNumbered DEF Typed, Numbered
<1>7. Placed(t)'
  BY <1>0, <1>4 DEF Placed, Walks, Deleting
<1>8. Supplied(t)'
  BY <1>0, <1>4 DEF Supplied, Walks, Deleting, Linking
<1> QED BY <1>4, <1>6, <1>7, <1>8, TypedStep

-----------------------------------------------------------------------------
(* Types are kept by the beginning and the end of an operation, and hold   *)
(* at first.                                                               *)

(* The locals of an operation that has just begun. *)
Begun(r, p, q, rest) ==
  /\ r.path = p /\ r.dest = q /\ r.rest = rest /\ r.node = inodes[Root]
  /\ r.snap = {} /\ r.held = {} /\ r.born = {} /\ r.doomed = {}
  /\ r.dparent = NoINode /\ r.dput = NoINode /\ r.stack = <<>>

(* Operations with where they begin, and what they have to resolve.        *)
Begins(t, o, label, p, q, rest) ==
  \/ /\ o \in {"write", "unlink"} /\ label = "parent"
     /\ p \in PathsOf(t) /\ q = <<>> /\ rest = ParentOf(p)
  \/ /\ o = "move" /\ label = "parent"
     /\ p \in PathsOf(t) /\ q \in PathsOf(t) /\ rest = ParentOf(p)
  \/ /\ o = "symlink" /\ label = "content"
     /\ p \in PathsOf(t) /\ q \in PathsOf(t) /\ rest = ParentOf(q)
  \/ /\ o = "hardlink" /\ label = "content"
     /\ p \in PathsOf(t) /\ q \in PathsOf(t) /\ rest = q
  \/ /\ o \in {"mkdir", "ls"} /\ label = o
     /\ p \in PathsOf(t) /\ q = <<>> /\ rest = p
  \/ /\ o \in {"append", "read"} /\ label = o
     /\ p = <<>> /\ q = <<>> /\ rest \in PathsOf(t)

LEMMA BeginSteps ==
  ASSUME Typed, NEW t \in Tasks, Begin(t)
  PROVE  \E o \in AllOps, label \in PCs, r \in Locals :
           \E p, q, rest :
             /\ Begins(t, o, label, p, q, rest) /\ Begun(r, p, q, rest)
             /\ Start(t, o, label, r)
<1> DEFINE Goal == \E o \in AllOps, label \in PCs, r \in Locals :
                     \E p, q, rest :
                       /\ Begins(t, o, label, p, q, rest) /\ Begun(r, p, q, rest)
                       /\ Start(t, o, label, r)
<1> SUFFICES Goal
  OBVIOUS
<1>0. ASSUME NEW o, NEW label, NEW r \in Locals, NEW p, NEW q, NEW rest,
             Begins(t, o, label, p, q, rest), Begun(r, p, q, rest),
             Start(t, o, label, r)
      PROVE  Goal
  <2>1. o \in AllOps /\ label \in PCs
    BY <1>0 DEF AllOps, PCs, Begins
  <2> QED BY <1>0, <2>1
<1> HIDE DEF Goal
<1>1. \A p : p \in Found(t) \/ p \in Created(t) => p \in PathsOf(t)
  BY DEF Found, Created
<1>2. \A p \in PathsOf(t) : p \in Seq(Names) /\ ParentOf(p) \in Seq(Names)
  BY PathTypes
<1>3. inodes[Root] \in INode /\ Idle \in Locals
  BY IdleTyped, FoundTyped DEF Typed
<1>4. CASE StartWrite(t)
  <2>1. PICK p \in Created(t), x \in Bodies :
          Start(t, "write", "parent",
                Toward(ParentOf(p), [Idle EXCEPT !.path = p, !.body = x]))
    BY <1>4 DEF StartWrite
  <2> DEFINE r == Toward(ParentOf(p), [Idle EXCEPT !.path = p, !.body = x])
  <2>2. p \in PathsOf(t) /\ ParentOf(p) \in Seq(Names)
    BY <1>1, <1>2
  <2>3. r \in Locals
    BY <1>2, <1>3, <2>2 DEF Toward, Locals
  <2>4. Begun(r, p, <<>>, ParentOf(p))
    BY DEF Begun, Toward, Idle
  <2>5. Begins(t, "write", "parent", p, <<>>, ParentOf(p))
    BY <2>2 DEF Begins
  <2> HIDE DEF r
  <2>6. Start(t, "write", "parent", r)
    BY <2>1 DEF r
  <2> QED BY <1>0, <2>3, <2>4, <2>5, <2>6
<1>5. CASE StartAppend(t)
  <2>1. PICK p \in Found(t), x \in Bodies :
          Start(t, "append", "append",
                Toward(p, [Idle EXCEPT !.body = x]))
    BY <1>5 DEF StartAppend
  <2> DEFINE r == Toward(p, [Idle EXCEPT !.body = x])
  <2>2. p \in PathsOf(t) /\ p \in Seq(Names)
    BY <1>1, <1>2
  <2>3. r \in Locals
    BY <1>2, <1>3, <2>2 DEF Toward, Locals
  <2>4. Begun(r, <<>>, <<>>, p)
    BY DEF Begun, Toward, Idle
  <2>5. Begins(t, "append", "append", <<>>, <<>>, p)
    BY <2>2 DEF Begins
  <2> HIDE DEF r
  <2>6. Start(t, "append", "append", r)
    BY <2>1 DEF r
  <2> QED BY <1>0, <2>3, <2>4, <2>5, <2>6
<1>6. CASE StartSymlink(t)
  <2>1. PICK p \in Created(t), q \in Created(t) :
          Start(t, "symlink", "content",
                Toward(ParentOf(q), [Idle EXCEPT !.path = p, !.dest = q]))
    BY <1>6 DEF StartSymlink
  <2> DEFINE r == Toward(ParentOf(q), [Idle EXCEPT !.path = p, !.dest = q])
  <2>2. p \in PathsOf(t) /\ q \in PathsOf(t) /\ ParentOf(q) \in Seq(Names)
    BY <1>1, <1>2
  <2>3. r \in Locals
    BY <1>2, <1>3, <2>2 DEF Toward, Locals
  <2>4. Begun(r, p, q, ParentOf(q))
    BY DEF Begun, Toward, Idle
  <2>5. Begins(t, "symlink", "content", p, q, ParentOf(q))
    BY <2>2 DEF Begins
  <2> HIDE DEF r
  <2>6. Start(t, "symlink", "content", r)
    BY <2>1 DEF r
  <2> QED BY <1>0, <2>3, <2>4, <2>5, <2>6
<1>7. CASE StartHardlink(t)
  <2>1. PICK p \in Created(t), q \in Found(t) :
          Start(t, "hardlink", "content",
                Toward(q, [Idle EXCEPT !.path = p, !.dest = q]))
    BY <1>7 DEF StartHardlink
  <2> DEFINE r == Toward(q, [Idle EXCEPT !.path = p, !.dest = q])
  <2>2. p \in PathsOf(t) /\ q \in PathsOf(t) /\ q \in Seq(Names)
    BY <1>1, <1>2
  <2>3. r \in Locals
    BY <1>2, <1>3, <2>2 DEF Toward, Locals
  <2>4. Begun(r, p, q, q)
    BY DEF Begun, Toward, Idle
  <2>5. Begins(t, "hardlink", "content", p, q, q)
    BY <2>2 DEF Begins
  <2> HIDE DEF r
  <2>6. Start(t, "hardlink", "content", r)
    BY <2>1 DEF r
  <2> QED BY <1>0, <2>3, <2>4, <2>5, <2>6
<1>8. CASE StartMkdir(t)
  <2>1. PICK p \in Created(t), w \in BOOLEAN :
          Start(t, "mkdir", "mkdir",
                Toward(p, [Idle EXCEPT !.path = p, !.recursive = w]))
    BY <1>8 DEF StartMkdir
  <2> DEFINE r == Toward(p, [Idle EXCEPT !.path = p, !.recursive = w])
  <2>2. p \in PathsOf(t) /\ p \in Seq(Names)
    BY <1>1, <1>2
  <2>3. r \in Locals
    BY <1>2, <1>3, <2>2 DEF Toward, Locals
  <2>4. Begun(r, p, <<>>, p)
    BY DEF Begun, Toward, Idle
  <2>5. Begins(t, "mkdir", "mkdir", p, <<>>, p)
    BY <2>2 DEF Begins
  <2> HIDE DEF r
  <2>6. Start(t, "mkdir", "mkdir", r)
    BY <2>1 DEF r
  <2> QED BY <1>0, <2>3, <2>4, <2>5, <2>6
<1>9. CASE StartUnlink(t)
  <2>1. PICK p \in Found(t) :
          Start(t, "unlink", "parent",
                Toward(ParentOf(p), [Idle EXCEPT !.path = p]))
    BY <1>9 DEF StartUnlink
  <2> DEFINE r == Toward(ParentOf(p), [Idle EXCEPT !.path = p])
  <2>2. p \in PathsOf(t) /\ ParentOf(p) \in Seq(Names)
    BY <1>1, <1>2
  <2>3. r \in Locals
    BY <1>2, <1>3, <2>2 DEF Toward, Locals
  <2>4. Begun(r, p, <<>>, ParentOf(p))
    BY DEF Begun, Toward, Idle
  <2>5. Begins(t, "unlink", "parent", p, <<>>, ParentOf(p))
    BY <2>2 DEF Begins
  <2> HIDE DEF r
  <2>6. Start(t, "unlink", "parent", r)
    BY <2>1 DEF r
  <2> QED BY <1>0, <2>3, <2>4, <2>5, <2>6
<1>10. CASE StartMove(t)
  <2>1. PICK p \in Found(t), q \in Created(t) :
          Start(t, "move", "parent",
                Toward(ParentOf(p), [Idle EXCEPT !.path = p, !.dest = q]))
    BY <1>10 DEF StartMove
  <2> DEFINE r == Toward(ParentOf(p), [Idle EXCEPT !.path = p, !.dest = q])
  <2>2. p \in PathsOf(t) /\ q \in PathsOf(t) /\ ParentOf(p) \in Seq(Names)
    BY <1>1, <1>2
  <2>3. r \in Locals
    BY <1>2, <1>3, <2>2 DEF Toward, Locals
  <2>4. Begun(r, p, q, ParentOf(p))
    BY DEF Begun, Toward, Idle
  <2>5. Begins(t, "move", "parent", p, q, ParentOf(p))
    BY <2>2 DEF Begins
  <2> HIDE DEF r
  <2>6. Start(t, "move", "parent", r)
    BY <2>1 DEF r
  <2> QED BY <1>0, <2>3, <2>4, <2>5, <2>6
<1>11. CASE StartLs(t)
  <2>1. PICK p \in Found(t) :
          Start(t, "ls", "ls",
                Toward(p, [Idle EXCEPT !.path = p]))
    BY <1>11 DEF StartLs
  <2> DEFINE r == Toward(p, [Idle EXCEPT !.path = p])
  <2>2. p \in PathsOf(t) /\ p \in Seq(Names)
    BY <1>1, <1>2
  <2>3. r \in Locals
    BY <1>2, <1>3, <2>2 DEF Toward, Locals
  <2>4. Begun(r, p, <<>>, p)
    BY DEF Begun, Toward, Idle
  <2>5. Begins(t, "ls", "ls", p, <<>>, p)
    BY <2>2 DEF Begins
  <2> HIDE DEF r
  <2>6. Start(t, "ls", "ls", r)
    BY <2>1 DEF r
  <2> QED BY <1>0, <2>3, <2>4, <2>5, <2>6
<1>12. CASE StartRead(t)
  <2>1. PICK p \in Found(t) :
          Start(t, "read", "read",
                Toward(p, Idle))
    BY <1>12 DEF StartRead
  <2> DEFINE r == Toward(p, Idle)
  <2>2. p \in PathsOf(t) /\ p \in Seq(Names)
    BY <1>1, <1>2
  <2>3. r \in Locals
    BY <1>2, <1>3, <2>2 DEF Toward, Locals
  <2>4. Begun(r, <<>>, <<>>, p)
    BY DEF Begun, Toward, Idle
  <2>5. Begins(t, "read", "read", <<>>, <<>>, p)
    BY <2>2 DEF Begins
  <2> HIDE DEF r
  <2>6. Start(t, "read", "read", r)
    BY <2>1 DEF r
  <2> QED BY <1>0, <2>3, <2>4, <2>5, <2>6
<1> QED BY <1>4, <1>5, <1>6, <1>7, <1>8, <1>9, <1>10, <1>11, <1>12 DEF Begin

LEMMA StartSteps ==
  ASSUME Typed, NEW t \in Tasks, NEW o \in AllOps, NEW label \in PCs,
         NEW r \in Locals, Start(t, o, label, r)
  PROVE  /\ pc[t] = "idle" /\ loc[t] = Idle /\ o \in Ops
         /\ clobbered = {}
         /\ Cardinality(lost) + Cardinality(orphans \cup doomed) <= MaxLost
         /\ Kept /\ Moves(t, label, r) /\ op' = [op EXCEPT ![t] = o]
         /\ pc'[t] = label /\ op'[t] = o /\ loc'[t] = r
         /\ Others(t) /\ StateTyped'
<1>1. /\ pc[t] = "idle" /\ o \in Ops /\ clobbered = {}
      /\ Cardinality(lost) + Cardinality(orphans \cup doomed) <= MaxLost
      /\ Kept /\ Moves(t, label, r) /\ op' = [op EXCEPT ![t] = o]
  BY DEF Start, Kept, Moves, Goto, device, history
<1>2. loc[t] = Idle
  BY <1>1, TypedPlace DEF Placed
<1>3. /\ pc' \in [Tasks -> PCs] /\ loc' \in [Tasks -> Locals]
      /\ pc'[t] = label /\ loc'[t] = r
      /\ \A u \in Tasks \ {t} : pc'[u] = pc[u] /\ loc'[u] = loc[u]
  BY <1>1, MovesFacts DEF Typed
<1> QED BY <1>1, <1>2, <1>3 DEF Typed, StateTyped, Others, Kept

LEMMA TypedBegin ==
  ASSUME Typed, NEW t \in Tasks, Begin(t)
  PROVE  Typed'
<1>1. PICK o \in AllOps, label \in PCs, r \in Locals :
        \E p, q, rest :
          /\ Begins(t, o, label, p, q, rest) /\ Begun(r, p, q, rest)
          /\ Start(t, o, label, r)
  BY BeginSteps
<1>2. PICK p, q, rest :
        /\ Begins(t, o, label, p, q, rest) /\ Begun(r, p, q, rest)
        /\ Start(t, o, label, r)
  BY <1>1
<1>3. /\ r.path = p /\ r.dest = q /\ r.rest = rest
      /\ r.node = inodes[Root] /\ r.snap = {} /\ r.dparent = NoINode
  BY <1>2 DEF Begun
<1>4. /\ pc'[t] = label /\ op'[t] = o /\ loc'[t] = r /\ Kept
      /\ Others(t) /\ StateTyped'
  BY <1>2, StartSteps
<1>5. Numbered'
  BY <1>3, <1>4, KeptNumbered DEF Kept
<1>6. inodes[Root].inumber # None
  BY HereTyped
<1>7. \A z \in PathsOf(t) : z # <<>>
  BY PathTypes
<1>8. Placed(t)'
  BY <1>2, <1>4 DEF Placed, Begins, Walks, Deleting, Linking
<1>9. Supplied(t)'
  BY <1>2, <1>3, <1>4, <1>6, <1>7 DEF Supplied, Begins, Walks, Deleting, Linking
<1> QED BY <1>4, <1>5, <1>8, <1>9, TypedStep

LEMMA StopSteps ==
  ASSUME Typed, NEW S \in SUBSET Tasks, Stop(S)
  PROVE  /\ crashes' = crashes + 1 /\ crashes < MaxCrashes
         /\ guard' = DropGuard(S)
         /\ \A u \in S : pc'[u] = "idle" /\ op'[u] = "ls" /\ loc'[u] = Idle
         /\ \A u \in Tasks \ S : pc'[u] = pc[u] /\ op'[u] = op[u] /\ loc'[u] = loc[u]
         /\ lost' = lost \cup UNION {loc[t].held : t \in S}
         /\ orphans' = orphans \cup UNION {loc[t].born : t \in S}
         /\ doomed' = doomed \cup UNION {loc[t].doomed : t \in S}
         /\ UNCHANGED <<bits, inodes, used, disk, clobbered>>
         /\ StateTyped'
<1>1. /\ crashes' = crashes + 1 /\ crashes < MaxCrashes
      /\ guard' = DropGuard(S)
      /\ pc' = [t \in Tasks |-> IF t \in S THEN "idle" ELSE pc[t]]
      /\ op' = [t \in Tasks |-> IF t \in S THEN "ls" ELSE op[t]]
      /\ loc' = [t \in Tasks |-> IF t \in S THEN Idle ELSE loc[t]]
      /\ lost' = lost \cup UNION {loc[t].held : t \in S}
      /\ orphans' = orphans \cup UNION {loc[t].born : t \in S}
      /\ doomed' = doomed \cup UNION {loc[t].doomed : t \in S}
      /\ UNCHANGED <<bits, inodes, used, disk, clobbered>>
  BY DEF Stop, device
<1>2. "idle" \in PCs /\ "ls" \in AllOps /\ Idle \in Locals
  BY IdleTyped DEF PCs, AllOps
<1>3. pc' \in [Tasks -> PCs] /\ op' \in [Tasks -> AllOps] /\ loc' \in [Tasks -> Locals]
  BY <1>1, <1>2 DEF Typed, StateTyped
<1>4. /\ UNION {loc[t].held : t \in S} \subseteq Extents
      /\ UNION {loc[t].born : t \in S} \subseteq INumbers
      /\ UNION {loc[t].doomed : t \in S} \subseteq INumbers
  BY LocalsTyped DEF Typed
<1>5. StateTyped'
  BY <1>1, <1>3, <1>4 DEF Typed, StateTyped, DropGuard
<1> QED BY <1>1, <1>5

LEMMA TypedStop ==
  ASSUME Typed, NEW S \in SUBSET Tasks, Stop(S)
  PROVE  Typed'
<1>1. /\ \A u \in S : pc'[u] = "idle" /\ op'[u] = "ls" /\ loc'[u] = Idle
      /\ \A u \in Tasks \ S : pc'[u] = pc[u] /\ op'[u] = op[u] /\ loc'[u] = loc[u]
      /\ UNCHANGED <<bits, inodes>> /\ StateTyped'
  BY StopSteps
<1>2. Numbered'
  BY <1>1, IdleSnap DEF Typed, Numbered
<1>3. ASSUME NEW u \in Tasks PROVE Placed(u)' /\ Supplied(u)'
  <2>1. CASE u \in S
    BY <1>1, <2>1, IdlePlaced
  <2>2. CASE u \notin S
    <3>1. pc'[u] = pc[u] /\ op'[u] = op[u] /\ loc'[u] = loc[u]
      BY <1>1, <2>2
    <3>2. Placed(u)'
      BY <3>1, TypedPlace DEF Placed
    <3>3. Supplied(u)'
      BY <3>1, TypedPlace DEF Supplied
    <3> QED BY <3>2, <3>3
  <2> QED BY <2>1, <2>2
<1> QED BY <1>1, <1>2, <1>3 DEF Typed

(* Every step of an operation keeps the types.                             *)
LEMMA TypedProceed ==
  ASSUME Typed, NEW t \in Tasks, Proceed(t)
  PROVE  Typed'
  BY TypedWalk, TypedContentResolved, TypedLookupWrite, TypedLookupUnlink,
     TypedSourceResolved, TypedLookupMove, TypedMkdir, TypedListReached,
     TypedAppendReached, TypedReadReached, TypedReplace, TypedStoreData,
     TypedChooseInode, TypedBornInode, TypedRewrite, TypedRewriteDest,
     TypedReadBitmap, TypedCommitDest, TypedCommit, TypedReleaseOld, TypedReleaseDest,
     TypedBumpLink, TypedFollowLink, TypedDeleteNext, TypedDropLink,
     TypedFreeINode, TypedClearBit DEF Proceed

MadeDir(i, e) == [inumber |-> i, kind |-> "Directory", nlink |-> 1, ext |-> e]
RootExt == IF Made = <<>> THEN None ELSE 1

LEMMA InitFacts ==
  ASSUME Init
  PROVE  /\ bits = 1 .. (Len(Made) + 1)
         /\ inodes = [i \in INumbers |->
                        IF i = Root THEN MadeDir(Root, RootExt)
                        ELSE IF i \in bits THEN MadeDir(i, None) ELSE NoINode]
         /\ used = {RootExt} \ {None}
         /\ disk = [e \in Extents |-> IF e \in used THEN DirBytes(MadeEntries)
                                      ELSE Blank]
         /\ guard = NoTask
         /\ pc = [t \in Tasks |-> "idle"]
         /\ op = [t \in Tasks |-> "ls"]
         /\ loc = [t \in Tasks |-> Idle]
         /\ lost = {} /\ orphans = {} /\ doomed = {} /\ clobbered = {}
         /\ crashes = 0
         /\ RootExt \in Extents \cup {None} /\ Root \in bits
         /\ bits \subseteq INumbers /\ MadeEntries \in SUBSET Entry
<1>1. Made \in Seq(Names) /\ Len(Made) \in Nat /\ DOMAIN Made = 1 .. Len(Made)
      /\ 1 .. (Len(Made) + 1) \subseteq INumbers
  BY MadeNumbers
<1>2. RootExt \in Extents \cup {None}
  BY CallerAssumption, SizeAssumption DEF RootExt, Extents
<1>3. MadeEntries \in SUBSET Entry
  <2>1. \A k \in DOMAIN Made : k + 1 \in 1 .. (Len(Made) + 1) /\ Made[k] \in Names
    BY <1>1
  <2> QED BY <1>1, <2>1 DEF MadeEntries, Entry
<1>4. Root \in 1 .. (Len(Made) + 1)
  BY <1>1 DEF Root
<1> QED BY <1>1, <1>2, <1>3, <1>4 DEF Init, MadeDir, RootExt, MadeEntries

(* A volume just made is typed.                                            *)
LEMMA TypedInit ==
  ASSUME Init
  PROVE  Typed
<1>0. /\ RootExt \in Extents \cup {None} /\ Root \in bits
      /\ bits \subseteq INumbers /\ MadeEntries \in SUBSET Entry
  BY InitFacts
<1>1. \A i \in INumbers : MadeDir(i, None) \in INode /\ MadeDir(Root, RootExt) \in INode
  BY <1>0 DEF MadeDir, INode, Kinds
<1>2. inodes \in [INumbers -> INode]
  BY <1>1, IdleTyped, InitFacts
<1>3. disk \in [Extents -> Content]
  BY <1>0, IdleTyped, DirBytesTyped, InitFacts
<1>4. pc \in [Tasks -> PCs] /\ op \in [Tasks -> AllOps] /\ loc \in [Tasks -> Locals]
  BY IdleTyped, InitFacts DEF PCs, AllOps
<1>5. StateTyped
  BY <1>0, <1>2, <1>3, <1>4, InitFacts DEF StateTyped
<1>6. \A i \in INumbers : inodes[i].inumber \in {i, None} /\ (i \in bits => inodes[i].inumber = i)
  BY InitFacts DEF MadeDir, NoINode
<1>7. Numbered
  BY <1>0, <1>6, IdleSnap, InitFacts DEF Numbered
<1>8. ASSUME NEW t \in Tasks PROVE Placed(t) /\ Supplied(t)
  <2>1. pc[t] = "idle" /\ op[t] = "ls" /\ loc[t] = Idle
    BY InitFacts
  <2> QED BY <2>1, IdleSnap DEF Placed, Supplied, Walks, Deleting, Linking, Creating
<1> QED BY <1>5, <1>7, <1>8 DEF Typed

(* So does every step.                                                     *)
LEMMA TypedNext ==
  ASSUME Typed, [Next]_vars
  PROVE  Typed'
<1>1. CASE UNCHANGED vars
  <2>1. /\ pc' = pc /\ op' = op /\ loc' = loc
        /\ UNCHANGED <<bits, inodes, used, disk, guard, lost, orphans, doomed,
                       clobbered, crashes>>
    BY <1>1 DEF vars
  <2>2. StateTyped' /\ Numbered'
    BY <2>1 DEF Typed, StateTyped, Numbered
  <2>3. \A t \in Tasks : Placed(t)' /\ Supplied(t)'
    BY <2>1, TypedPlace DEF Placed, Supplied
  <2> QED BY <2>2, <2>3 DEF Typed
<1>2. CASE Next
  BY <1>2, TypedStop, TypedBegin, TypedProceed DEF Next, Crash, Cancel
<1> QED BY <1>1, <1>2

(* The type invariant of the run follows.                                  *)
LEMMA TypedImpliesTypeOK ==
  ASSUME Typed
  PROVE  TypeOK
<1>1. \A t \in Tasks : /\ {loc[t].put, loc[t].dput, loc[t].child} \subseteq INode
                       /\ loc[t].dir \cup loc[t].ddir \subseteq Entry
                       /\ loc[t].held \subseteq Extents
  BY LocalsTyped DEF Typed
<1>2. \A e \in Extents : /\ disk[e].form \in {"blank", "dir", "data", "path", "number"}
                         /\ disk[e].entries \subseteq Entry
                         /\ disk[e].target \in INumbers \cup {None}
  BY DEF Typed, StateTyped, Content
<1> QED BY <1>1, <1>2 DEF Typed, StateTyped, TypeOK

(* Every variable keeps its type, whatever the operations, failures,       *)
(* crashes and cancelled calls: every inumber that an operation reads from *)
(* a bitmap, a directory, a link or its own copy of them is that of an     *)
(* inode, and every address of an extent lies on the volume.               *)
THEOREM NamespaceTyped == Spec => []TypeOK
<1>1. Init => Typed
  BY TypedInit
<1>2. Typed /\ [Next]_vars => Typed'
  BY TypedNext
<1>3. Typed => TypeOK
  BY TypedImpliesTypeOK
<1> QED BY <1>1, <1>2, <1>3, PTL DEF Spec

-----------------------------------------------------------------------------
(* What one task holds, has begun or has emptied, apart from all others.   *)

HeldElse(t) == UNION {loc[u].held : u \in Tasks \ {t}}
BornElse(t) == UNION {loc[u].born : u \in Tasks \ {t}}
ClearsElse(t) == {loc[u].child.inumber : u \in {v \in Tasks \ {t} : pc[v] = "clear"}}
Clears(t) == IF pc[t] = "clear" THEN {loc[t].child.inumber} ELSE {}

(* What all tasks hold is what t holds and what the others do.             *)
LEMMA Parts ==
  ASSUME NEW t \in Tasks
  PROVE  /\ Held = loc[t].held \cup HeldElse(t)
         /\ Born = loc[t].born \cup BornElse(t)
         /\ Emptied = Clears(t) \cup ClearsElse(t)
<1>1. Held = loc[t].held \cup HeldElse(t)
  BY DEF Held, HeldElse
<1>2. Born = loc[t].born \cup BornElse(t)
  BY DEF Born, BornElse
<1>3. Emptied = Clears(t) \cup ClearsElse(t)
  BY DEF Emptied, Clears, ClearsElse
<1> QED BY <1>1, <1>2, <1>3

(* After a step of t the others hold what they held.                       *)
LEMMA PartsNext ==
  ASSUME NEW t \in Tasks, Others(t)
  PROVE  /\ Held' = loc'[t].held \cup HeldElse(t)
         /\ Born' = loc'[t].born \cup BornElse(t)
         /\ Emptied' = Clears(t)' \cup ClearsElse(t)
<1>1. Held' = loc'[t].held \cup HeldElse(t)
  BY DEF Held, HeldElse, Others
<1>2. Born' = loc'[t].born \cup BornElse(t)
  BY DEF Born, BornElse, Others
<1>3. Emptied' = Clears(t)' \cup ClearsElse(t)
  BY DEF Emptied, Clears, ClearsElse, Others
<1> QED BY <1>1, <1>2, <1>3

(* Counted inodes are sound, and sound ones have their bit.                *)
LEMMA Inside ==
  ASSUME Typed
  PROVE  /\ Counted \subseteq Sound /\ Sound \subseteq bits /\ bits \subseteq INumbers
         /\ \A i \in INumbers : inodes[i] \in INode
         /\ \A i \in bits : inodes[i].inumber = i /\ inodes[i] \in INode
         /\ \A i \in INumbers : /\ inodes[i].kind \in Kinds /\ inodes[i].nlink \in Nat
                                /\ inodes[i].ext \in Extents \cup {None}
         /\ None \notin Extents /\ None \notin INumbers /\ Root \in INumbers
<1>1. Counted \subseteq Sound /\ Sound \subseteq bits /\ bits \subseteq INumbers
  BY DEF Counted, Sound, Typed, StateTyped
<1>2. \A i \in INumbers : inodes[i] \in INode
  BY DEF Typed, StateTyped
<1>3. \A i \in bits : inodes[i].inumber = i
  BY DEF Typed, Numbered
<1> QED BY <1>1, <1>2, <1>3, RootIsANumber DEF INode

LEMMA EntriesOfTyped ==
  ASSUME Typed, NEW i \in INumbers
  PROVE  /\ EntriesOf(i) \in SUBSET Entry /\ TargetOf(i) \in INumbers \cup {None}
         /\ \A e \in EntriesOf(i) : e.name \in Names /\ e.inumber \in INumbers
<1>1. inodes[i].ext \in Extents \cup {None}
  BY Inside
<1>2. EntriesOf(i) \in SUBSET Entry
  BY <1>1, HereTyped, BytesTyped DEF EntriesOf, Typed
<1>3. TargetOf(i) \in INumbers \cup {None}
  BY <1>1, BytesTyped DEF TargetOf, Typed
<1> QED BY <1>2, <1>3 DEF Entry

-----------------------------------------------------------------------------
(* Framing. A step of t changes inodes in the directory of t, extents that *)
(* t alone has, and what is free. Everything a task other than t relies on *)
(* is therefore as it was (Framed).                                        *)

(* A step of t, after which own2 says whose directories the inodes are in, *)
(* is confined to what is in the directory of t.                           *)
Confined(own, own2, t) ==
  /\ Others(t)
  /\ \A i \in Sound : own2[i] = own[i]
  /\ \A i \in Sound' \ Sound : own2[i] = t
  /\ \A i \in Sound : own[i] # t =>
       /\ i \in Sound' /\ inodes'[i] = inodes[i]
       /\ i \in Counted => i \in Counted'
       /\ inodes[i].ext # None => disk'[inodes[i].ext] = disk[inodes[i].ext]
  /\ \A u \in Tasks \ {t} :
       /\ \A e \in loc[u].held : disk'[e] = disk[e]
       /\ pc[u] = "born" => loc[u].inum \notin bits'
       /\ pc[u] = "clear" => loc[u].child.inumber \in bits'
                             /\ own2[loc[u].child.inumber] = own[loc[u].child.inumber]

(* What another task relies on stays as it was.                            *)
Frame(own, own2, u) ==
  /\ pc'[u] = pc[u] /\ op'[u] = op[u] /\ loc'[u] = loc[u]
  /\ inodes'[Root] = inodes[Root]
  /\ \A i \in INumbers : (i \in Sound' /\ own2[i] = u) <=> (i \in Sound /\ own[i] = u)
  /\ \A i \in INumbers : i \in Sound /\ own[i] = u =>
       /\ i \in Sound' /\ own2[i] = u /\ inodes'[i] = inodes[i]
       /\ i \in Counted => i \in Counted'
       /\ Bytes(inodes[i].ext)' = Bytes(inodes[i].ext)
       /\ EntriesOf(i)' = EntriesOf(i) /\ TargetOf(i)' = TargetOf(i)
       /\ Removable(inodes[i])' <=> Removable(inodes[i])
  /\ \A e \in loc[u].held : disk'[e] = disk[e]
  /\ \A p : Homely(own, u, p) => Homely(own2, u, p)
  /\ pc[u] = "born" => loc[u].inum \notin bits'
  /\ pc[u] = "clear" => loc[u].child.inumber \in bits'
                        /\ own2[loc[u].child.inumber] = own[loc[u].child.inumber]

(* The inode i and its content are as they were.                           *)
LEMMA ContentKept ==
  ASSUME NEW i \in INumbers, i \in bits, i \in bits', inodes'[i] = inodes[i],
         inodes[i].ext # None => disk'[inodes[i].ext] = disk[inodes[i].ext]
  PROVE  /\ Bytes(inodes[i].ext)' = Bytes(inodes[i].ext)
         /\ EntriesOf(i)' = EntriesOf(i) /\ TargetOf(i)' = TargetOf(i)
         /\ Removable(inodes[i])' <=> Removable(inodes[i])
<1>1. Bytes(inodes[i].ext)' = Bytes(inodes[i].ext)
  BY DEF Bytes
<1>2. EntriesOf(i)' = EntriesOf(i)
  BY <1>1 DEF EntriesOf
<1>3. TargetOf(i)' = TargetOf(i)
  BY <1>1 DEF TargetOf
<1>4. Removable(inodes[i])' <=> Removable(inodes[i])
  BY <1>1 DEF Removable
<1> QED BY <1>1, <1>2, <1>3, <1>4

(* Where the root belongs to nobody, every task has a directory under it.  *)
LEMMA HomesCounted ==
  ASSUME Typed, NEW own \in Owners, Consistent(own), own[Root] = NoTask
  PROVE  /\ EntriesOf(Root) = MadeEntries
         /\ \A k \in DOMAIN Made : own[k + 1] \in Tasks => k + 1 \in Counted
<1>1. EntriesOf(Root) = MadeEntries
  BY SharingAssumption DEF Consistent, Shared, RootOwned
<1>2. Root \in Sound
  BY Inside DEF Consistent, Shared, RootStands
<1>3. ASSUME NEW k \in DOMAIN Made, own[k + 1] \in Tasks
      PROVE  k + 1 \in Counted
  <2> DEFINE e == [name |-> Made[k], inumber |-> k + 1]
  <2>1. e \in EntriesOf(Root) /\ e.inumber = k + 1
    BY <1>1 DEF MadeEntries
  <2>2. CASE Leads(own, Root, e.inumber)
    BY <2>1, <2>2 DEF Leads
  <2>3. ASSUME NEW t \in Tasks, Excused(t, Root, e)
        PROVE  FALSE
    <3>1. Removing(t) /\ loc[t].parent.inumber = Root
      BY <2>3 DEF Excused
    <3>2. own[loc[t].parent.inumber] = t
      BY <3>1 DEF Consistent, TaskSound, Unlinking, Editing, Folder, Copy
    <3> QED BY <3>1, <3>2, SharingAssumption
  <2> QED BY <1>2, <2>1, <2>2, <2>3 DEF Consistent, Shared, NodesSound, NodeSound, DirectorySound
<1> QED BY <1>1, <1>3

(* What a task other than t relies on is as it was.                        *)
LEMMA Framed ==
  ASSUME Typed, Typed', NEW own \in Owners, NEW own2 \in Owners, Consistent(own),
         NEW t \in Tasks, Confined(own, own2, t), NEW u \in Tasks \ {t}
  PROVE  Frame(own, own2, u)
<1>1. own[Root] = NoTask /\ Root \in Counted /\ Root \in Sound
  BY Inside DEF Consistent, Shared, RootOwned, RootStands
<1>2. pc'[u] = pc[u] /\ op'[u] = op[u] /\ loc'[u] = loc[u]
  BY DEF Confined, Others
<1>3. inodes'[Root] = inodes[Root]
  BY <1>1, SharingAssumption DEF Confined
<1>4. \A i \in INumbers : (i \in Sound' /\ own2[i] = u) <=> (i \in Sound /\ own[i] = u)
  BY DEF Confined
<1>5. ASSUME NEW i \in INumbers, i \in Sound, own[i] = u
      PROVE  /\ i \in Sound' /\ own2[i] = u /\ inodes'[i] = inodes[i]
             /\ i \in Counted => i \in Counted'
             /\ Bytes(inodes[i].ext)' = Bytes(inodes[i].ext)
             /\ EntriesOf(i)' = EntriesOf(i) /\ TargetOf(i)' = TargetOf(i)
             /\ Removable(inodes[i])' <=> Removable(inodes[i])
  <2>1. /\ i \in Sound' /\ own2[i] = u /\ inodes'[i] = inodes[i]
        /\ i \in Counted => i \in Counted'
        /\ inodes[i].ext # None => disk'[inodes[i].ext] = disk[inodes[i].ext]
    BY <1>5 DEF Confined
  <2>2. i \in bits /\ i \in bits'
    BY <1>5, <2>1 DEF Sound
  <2> QED BY <2>1, <2>2, ContentKept
<1>6. /\ \A e \in loc[u].held : disk'[e] = disk[e]
      /\ pc[u] = "born" => loc[u].inum \notin bits'
      /\ pc[u] = "clear" => loc[u].child.inumber \in bits'
                            /\ own2[loc[u].child.inumber] = own[loc[u].child.inumber]
  BY DEF Confined
<1>7. ASSUME NEW p, Homely(own, u, p)
      PROVE  Homely(own2, u, p)
  <2>1. p # <<>> /\ \E k \in DOMAIN Made : Head(p) = Made[k] /\ own[k + 1] = u
    BY <1>1, <1>7, SharingAssumption DEF Homely
  <2>2. \A k \in DOMAIN Made : own[k + 1] = u => own2[k + 1] = u
    BY <1>1, HomesCounted, Inside DEF Confined
  <2> QED BY <2>1, <2>2 DEF Homely
<1> QED BY <1>2, <1>3, <1>4, <1>5, <1>6, <1>7 DEF Frame

-----------------------------------------------------------------------------
(* So each part of what another task relies on is kept. One lemma for each *)
(* predicate of NamespaceInvariant; first those about walks and            *)
(* directories.                                                            *)

LEMMA CopyKept ==
  ASSUME Typed, NEW own \in Owners, NEW own2 \in Owners, NEW u \in Tasks,
         Frame(own, own2, u), NEW x, Copy(own, u, x)
  PROVE  /\ x.inumber \in INumbers /\ x.inumber \in Sound /\ own[x.inumber] = u
         /\ x.inumber \in Counted' /\ own2[x.inumber] = u /\ x = inodes'[x.inumber]
         /\ EntriesOf(x.inumber)' = EntriesOf(x.inumber)
         /\ TargetOf(x.inumber)' = TargetOf(x.inumber)
         /\ Bytes(inodes[x.inumber].ext)' = Bytes(inodes[x.inumber].ext)
  BY Inside DEF Copy, Frame

LEMMA TargetKept ==
  ASSUME Typed, NEW own \in Owners, NEW own2 \in Owners, NEW u \in Tasks,
         Frame(own, own2, u), TargetSound(own, u)
  PROVE  TargetSound(own2, u)'
<1>1. loc'[u] = loc[u] /\ op'[u] = op[u]
  BY DEF Frame
<1> SUFFICES ASSUME op[u] = "hardlink"
             PROVE  (Copy(own2, u, loc[u].target) /\ loc[u].target.kind = "File")'
  BY <1>1 DEF TargetSound
<1>2. Copy(own, u, loc[u].target) /\ loc[u].target.kind = "File"
  BY DEF TargetSound
<1> QED BY <1>1, <1>2, CopyKept DEF Copy

LEMMA WalkingKept ==
  ASSUME Typed, NEW own \in Owners, NEW own2 \in Owners, NEW u \in Tasks,
         Frame(own, own2, u), Walking(own, u)
  PROVE  Walking(own2, u)'
<1>1. loc'[u] = loc[u] /\ op'[u] = op[u] /\ pc'[u] = pc[u] /\ inodes'[Root] = inodes[Root]
  BY DEF Frame
<1>2. Clean(u)'
  BY <1>1 DEF Walking, Clean, Alone
<1>5. (Copy(own2, u, loc[u].node) \/ (loc[u].node = inodes[Root] /\ Homely(own2, u, loc[u].rest)))'
  <2>1. CASE Copy(own, u, loc[u].node)
    BY <1>1, <2>1, CopyKept DEF Copy
  <2>2. CASE loc[u].node = inodes[Root] /\ Homely(own, u, loc[u].rest)
    <3>1. Homely(own2, u, loc[u].rest)
      BY <2>2 DEF Frame
    <3> QED BY <1>1, <2>2, <3>1 DEF Homely
  <2> QED BY <2>1, <2>2 DEF Walking
<1>6. (pc[u] = "dest" => Copy(own2, u, loc[u].parent))'
  BY <1>1, CopyKept DEF Copy, Walking
<1>7. (pc[u] # "content" => TargetSound(own2, u))'
  BY <1>1, TargetKept DEF Walking
<1> QED BY <1>2, <1>5, <1>6, <1>7 DEF Walking

LEMMA FolderKept ==
  ASSUME Typed, NEW own \in Owners, NEW own2 \in Owners, NEW u \in Tasks,
         Frame(own, own2, u), Folder(own, u, loc[u].parent)
  PROVE  /\ Folder(own2, u, loc[u].parent)' /\ Source(u)' = Source(u)
         /\ Victim(u)' = Victim(u)
<1>1. loc'[u] = loc[u]
  BY DEF Frame
<1>2. Folder(own2, u, loc[u].parent)'
  BY <1>1, CopyKept DEF Folder, Copy
<1>3. Source(u)' = Source(u)
  <2> DEFINE i == loc[u].parent.inumber
  <2>1. EntriesOf(i)' = EntriesOf(i)
    BY CopyKept, <1>1 DEF Folder
  <2> QED BY <1>1, <2>1 DEF Source
<1> QED BY <1>1, <1>2, <1>3 DEF Victim

LEMMA MakingKept ==
  ASSUME Typed, NEW own \in Owners, NEW own2 \in Owners, NEW u \in Tasks,
         Frame(own, own2, u), Making(own, u)
  PROVE  Making(own2, u)'
<1>1. loc'[u] = loc[u] /\ op'[u] = op[u] /\ pc'[u] = pc[u]
  BY DEF Frame
<1>2. Folder(own2, u, loc[u].parent)' /\ Source(u)' = Source(u)
  BY FolderKept DEF Making
<1>3. TargetSound(own2, u)'
  BY TargetKept DEF Making
<1>4. NewName(u)' = NewName(u) /\ (Alone(u)' <=> Alone(u))
  BY <1>1 DEF NewName, Alone
<1>5. loc[u].child.ext # None /\ pc[u] # "data" =>
        disk'[loc[u].child.ext] = disk[loc[u].child.ext]
  BY DEF Making, Frame
<1>6. pc[u] = "born" => loc[u].inum \in INumbers \ bits'
  BY DEF Making, Frame
<1> QED BY <1>1, <1>2, <1>3, <1>4, <1>5, <1>6 DEF Making

LEMMA ListsKept ==
  ASSUME NEW own \in Owners, NEW own2 \in Owners, NEW u \in Tasks,
         Frame(own, own2, u), NEW x \in loc[u].held \cup {None}, NEW d
  PROVE  Lists(x, d)' <=> Lists(x, d)
  BY DEF Frame, Lists

LEMMA EditingKept ==
  ASSUME Typed, NEW own \in Owners, NEW own2 \in Owners, NEW u \in Tasks,
         Frame(own, own2, u), Editing(own, u),
         pc[u] \in {"rewriteDest", "commitDest", "commit"} =>
           loc[u].put.ext \in loc[u].held \cup {None}
  PROVE  Editing(own2, u)'
<1>1. loc'[u] = loc[u] /\ op'[u] = op[u] /\ pc'[u] = pc[u]
  BY DEF Frame
<1>2. Folder(own2, u, loc[u].parent)'
  BY FolderKept DEF Editing
<1>3. ASSUME pc[u] \in {"rewriteDest", "commitDest", "commit"}
      PROVE  (Lists(loc[u].put.ext, loc[u].dir))'
  <2>1. Lists(loc[u].put.ext, loc[u].dir)
    BY <1>3 DEF Editing
  <2>2. loc[u].put.ext # None => disk'[loc[u].put.ext] = disk[loc[u].put.ext]
    BY <1>3 DEF Frame
  <2> QED BY <1>1, <2>1, <2>2 DEF Lists
<1>4. ASSUME pc[u] \in {"rewriteDest", "commitDest", "commit"}
      PROVE  (Replaces(loc[u].put, loc[u].parent, loc[u].old))'
  BY <1>1, <1>4 DEF Editing, Replaces
<1> QED BY <1>1, <1>2, <1>3, <1>4 DEF Editing

-----------------------------------------------------------------------------
(* The same for operations that enter, replace, append, release and move.  *)

LEMMA EnteringKept ==
  ASSUME Typed, NEW own \in Owners, NEW own2 \in Owners, NEW u \in Tasks,
         Frame(own, own2, u), Entering(own, u), pc[u] \in {"rewrite", "commit"},
         \A i \in loc[u].born : i \in Sound /\ own[i] = u
  PROVE  Entering(own2, u)'
<1> DEFINE c == loc[u].child.inumber
<1>1. loc'[u] = loc[u] /\ op'[u] = op[u] /\ pc'[u] = pc[u]
  BY DEF Frame
<1>2. Folder(own, u, loc[u].parent)
  BY DEF Entering, Editing
<1>3. Source(u)' = Source(u)
  BY <1>2, FolderKept
<1>4. Editing(own2, u)'
  <2>1. pc[u] \in {"rewriteDest", "commitDest", "commit"} =>
          loc[u].put.ext \in loc[u].held \cup {None}
    BY DEF Entering
  <2> QED BY <2>1, EditingKept DEF Entering
<1>5. TargetSound(own2, u)'
  BY TargetKept DEF Entering
<1>6. c \in Sound /\ own[c] = u /\ c \in INumbers
  BY Inside DEF Entering
<1>7. inodes'[c] = inodes[c] /\ TargetOf(c)' = TargetOf(c)
  BY <1>6 DEF Frame
<1>8. NewName(u)' = NewName(u) /\ (Alone(u)' <=> Alone(u))
  BY <1>1 DEF NewName, Alone
<1>9. TargetOf(loc[u].child.inumber)' = TargetOf(c)
  BY <1>1, <1>7
<1> QED BY <1>1, <1>3, <1>4, <1>5, <1>7, <1>8, <1>9 DEF Entering

LEMMA OverwritingKept ==
  ASSUME Typed, NEW own \in Owners, NEW own2 \in Owners, NEW u \in Tasks,
         Frame(own, own2, u), Overwriting(own, u)
  PROVE  Overwriting(own2, u)'
<1>1. loc'[u] = loc[u] /\ op'[u] = op[u] /\ pc'[u] = pc[u]
  BY DEF Frame
<1>2. (Copy(own2, u, loc[u].child) /\ loc[u].child.kind = "File")'
  BY <1>1, CopyKept DEF Overwriting, Copy
<1>3. pc[u] = "commit" => disk'[loc[u].put.ext] = disk[loc[u].put.ext]
  BY DEF Overwriting, Frame
<1> QED BY <1>1, <1>2, <1>3 DEF Overwriting, Alone, Replaces

LEMMA AppendingKept ==
  ASSUME Typed, NEW own \in Owners, NEW own2 \in Owners, NEW u \in Tasks,
         Frame(own, own2, u), Appending(own, u)
  PROVE  Appending(own2, u)'
<1>1. loc'[u] = loc[u]
  BY DEF Frame
<1>2. (Copy(own2, u, loc[u].put) /\ loc[u].put.kind = "File")'
  BY <1>1, CopyKept DEF Appending, Copy
<1> QED BY <1>1, <1>2 DEF Appending, Clean, Alone

LEMMA ReleasingKept ==
  ASSUME Typed, NEW own \in Owners, NEW own2 \in Owners, NEW u \in Tasks,
         Frame(own, own2, u), Releasing(own, u)
  PROVE  Releasing(own2, u)'
<1>1. loc'[u] = loc[u] /\ op'[u] = op[u] /\ pc'[u] = pc[u]
  BY DEF Frame
<1>2. TargetSound(own2, u)'
  BY TargetKept DEF Releasing
<1>3. op[u] = "mkdir" => Folder(own2, u, loc[u].child)'
  BY <1>1, CopyKept DEF Releasing, Copy, Folder
<1> QED BY <1>1, <1>2, <1>3 DEF Releasing, Alone

LEMMA MovingKept ==
  ASSUME Typed, NEW own \in Owners, NEW own2 \in Owners, NEW u \in Tasks,
         Frame(own, own2, u), Moving(own, u), op[u] = "move",
         pc[u] \in {"rewrite", "rewriteDest", "commitDest", "commit"}
  PROVE  Moving(own2, u)'
<1>1. loc'[u] = loc[u] /\ op'[u] = op[u] /\ pc'[u] = pc[u]
  BY DEF Frame
<1>2. Folder(own, u, loc[u].parent)
  BY DEF Moving, Editing
<1>3. Source(u)' = Source(u) /\ Victim(u)' = Victim(u)
  BY <1>2, FolderKept
<1>4. Editing(own2, u)'
  <2>1. pc[u] \in {"rewriteDest", "commitDest", "commit"} =>
          loc[u].put.ext \in loc[u].held \cup {None}
    BY DEF Moving
  <2> QED BY <2>1, EditingKept DEF Moving
<1>5. loc[u].dparent # NoINode /\ pc[u] # "commit" =>
        /\ Folder(own2, u, loc[u].dparent)'
        /\ EntriesOf(loc[u].dparent.inumber)' = EntriesOf(loc[u].dparent.inumber)
  BY <1>1, CopyKept DEF Moving, Folder, Copy
<1>6. loc[u].dparent # NoINode /\ pc[u] = "commit" =>
        /\ Folder(own2, u, loc[u].dput)'
        /\ EntriesOf(loc[u].dput.inumber)' = EntriesOf(loc[u].dput.inumber)
  BY <1>1, CopyKept DEF Moving, Folder, Copy
<1>7. ASSUME loc[u].dparent # NoINode, pc[u] = "commitDest"
      PROVE  Lists(loc[u].dput.ext, loc[u].ddir)'
  <2>1. disk'[loc[u].dput.ext] = disk[loc[u].dput.ext]
    BY <1>7 DEF Moving, Frame
  <2>2. Lists(loc[u].dput.ext, loc[u].ddir)
    BY <1>7 DEF Moving
  <2> QED BY <1>1, <2>1, <2>2 DEF Lists
<1>8. ASSUME loc[u].dparent # NoINode, pc[u] = "commitDest"
      PROVE  Replaces(loc[u].dput, loc[u].dparent, loc[u].dold)'
  BY <1>1, <1>8 DEF Moving, Replaces
<1> QED BY <1>1, <1>3, <1>4, <1>5, <1>6, <1>7, <1>8 DEF Moving

-----------------------------------------------------------------------------
(* The same for removals, which go through the links of the victim.        *)

(* The victim is in the directory it is to be removed from.                *)
LEMMA VictimTyped ==
  ASSUME Typed, NEW t \in Tasks, Binds(Source(t), NameOf(loc[t].path))
  PROVE  /\ Victim(t) \in INumbers /\ NameOf(loc[t].path) \in Names
         /\ \E e \in Source(t) : e.name = NameOf(loc[t].path) /\ e.inumber = Victim(t)
<1>1. loc[t].parent.inumber \in INumbers
  <2>1. loc[t].parent.inumber \in INumbers \cup {None}
    BY LocalsTyped, INodeFields DEF Typed
  <2>2. ASSUME loc[t].parent.inumber = None PROVE FALSE
    BY <2>2, Inside DEF Binds, Source, EntriesOf
  <2> QED BY <2>1, <2>2
<1>2. Source(t) \in SUBSET Entry
  BY <1>1, EntriesOfTyped DEF Source
<1> QED BY <1>2, BoundTyped DEF Victim

(* The stage of another task's deletion is as it was.                      *)
LEMMA PhasesKept ==
  ASSUME Typed, NEW own \in Owners, NEW own2 \in Owners, NEW u \in Tasks,
         Frame(own, own2, u), Folder(own, u, loc[u].parent),
         Binds(Source(u), NameOf(loc[u].path))
  PROVE  /\ Mine(own2, u)' <=> Mine(own, u)
         /\ Plain(own, u) => Plain(own2, u)'
         /\ Refers(own, u) => Refers(own2, u)'
         /\ Followed(own2, u)' <=> Followed(own, u)
         /\ Spared(own, u) => Spared(own2, u)'
         /\ Mine(own, u) =>
              /\ TargetOf(Victim(u))' = TargetOf(Victim(u))
              /\ Removable(inodes[Victim(u)])' <=> Removable(inodes[Victim(u)])
         /\ \A i \in Sound : ExcusedLink(own, u, i) => ExcusedLink(own2, u, i)'
         /\ \A c : Due(own, u, c) => Due(own2, u, c)'
<1>1. loc'[u] = loc[u] /\ op'[u] = op[u] /\ pc'[u] = pc[u]
  BY DEF Frame
<1>2. PICK x \in INumbers : x = Victim(u) /\ x = Victim(u)'
  BY FolderKept, VictimTyped
<1>3. Mine(own2, u)' <=> Mine(own, u)
  BY <1>2 DEF Mine, Frame
<1>4. Mine(own, u) =>
        /\ x \in Sound /\ own[x] = u /\ inodes'[x] = inodes[x]
        /\ TargetOf(x)' = TargetOf(x)
        /\ Removable(inodes[x])' <=> Removable(inodes[x])
  BY <1>2 DEF Mine, Frame
<1>5. Mine(own, u) => TargetOf(Victim(u))' = TargetOf(x)
  BY <1>2, <1>4 DEF TargetOf
<1>6. Mine(own, u) => (Removable(inodes[Victim(u)])' <=> Removable(inodes[x]))
  BY <1>2, <1>4 DEF Removable
<1>7. Plain(own, u) => Plain(own2, u)'
  BY <1>1, <1>2, <1>3, <1>4, <1>6 DEF Plain
<1>8. ASSUME Refers(own, u) PROVE Refers(own2, u)'
  <2>1. PICK y : y = TargetOf(x)
    OBVIOUS
  <2>2. y \in Sound /\ y # x /\ own[y] = u /\ inodes[y].kind = "File" /\ Mine(own, u)
        /\ inodes[x].kind = "Hardlink" /\ loc[u].doomed = {}
    BY <1>2, <1>8, <2>1 DEF Refers
  <2>3. y \in INumbers
    BY <2>2, Inside
  <2>4. y \in Sound' /\ own2[y] = u /\ inodes'[y] = inodes[y]
    BY <2>2, <2>3 DEF Frame
  <2>5. TargetOf(Victim(u))' = y
    BY <1>5, <2>1, <2>2
  <2> QED BY <1>1, <1>2, <1>3, <1>4, <2>2, <2>4, <2>5 DEF Refers
<1>9. Followed(own2, u)' <=> Followed(own, u)
  BY <1>1, <1>2, <1>3, <1>4, <1>5 DEF Followed
<1>10. Spared(own, u) => Spared(own2, u)'
  BY <1>1, <1>2, <1>3, <1>4 DEF Spared
<1>11. ASSUME NEW i \in Sound, ExcusedLink(own, u, i)
       PROVE  ExcusedLink(own2, u, i)'
  <2>1. Removing(u)' /\ i = x /\ own[i] = u /\ TargetOf(i) \in loc[u].doomed
    BY <1>1, <1>2, <1>11 DEF Removing, ExcusedLink
  <2>2. own2[i] = u /\ TargetOf(i)' = TargetOf(i)
    BY <1>2, <1>11, <2>1 DEF Frame
  <2> QED BY <1>1, <1>2, <2>1, <2>2 DEF ExcusedLink
<1>12. ASSUME NEW c, Due(own, u, c)
       PROVE  Due(own2, u, c)'
  <2>1. CASE loc[u].stack = <<>> /\ c = x /\ (Plain(own, u) \/ Followed(own, u))
    BY <1>1, <1>2, <1>7, <1>9, <2>1 DEF Due
  <2>2. CASE loc[u].stack = <<x>> /\ Refers(own, u) /\ c = TargetOf(x)
    <3>1. TargetOf(Victim(u))' = c /\ loc'[u].stack = <<Victim(u)'>>
      BY <1>1, <1>2, <1>5, <2>2 DEF Refers
    <3> QED BY <1>8, <2>2, <3>1 DEF Due
  <2> QED BY <1>2, <1>12, <2>1, <2>2 DEF Due
<1>13. Mine(own, u) =>
         /\ TargetOf(Victim(u))' = TargetOf(Victim(u))
         /\ Removable(inodes[Victim(u)])' <=> Removable(inodes[Victim(u)])
  BY <1>2, <1>4, <1>5, <1>6
<1> QED BY <1>3, <1>7, <1>8, <1>9, <1>10, <1>11, <1>12, <1>13

LEMMA DueTyped ==
  ASSUME Typed, NEW own \in Owners, NEW t \in Tasks, NEW c, Due(own, t, c),
         Binds(Source(t), NameOf(loc[t].path))
  PROVE  c \in INumbers /\ c \in Sound /\ own[c] = t
  BY VictimTyped, Inside DEF Due, Plain, Followed, Refers, Mine

LEMMA UnlinkingKept ==
  ASSUME Typed, NEW own \in Owners, NEW own2 \in Owners, NEW u \in Tasks,
         Frame(own, own2, u), Unlinking(own, u), Removing(u)
  PROVE  Unlinking(own2, u)'
<1>1. loc'[u] = loc[u] /\ op'[u] = op[u] /\ pc'[u] = pc[u]
  BY DEF Frame
<1>2. Folder(own, u, loc[u].parent) /\ Binds(Source(u), NameOf(loc[u].path))
  BY DEF Unlinking, Editing
<1>3. Source(u)' = Source(u) /\ Victim(u)' = Victim(u)
  BY <1>2, FolderKept
<1>4. Editing(own2, u)'
  <2>1. pc[u] \in {"rewriteDest", "commitDest", "commit"} =>
          loc[u].put.ext \in loc[u].held \cup {None}
    BY DEF Unlinking, Removing, Deleting
  <2> QED BY <2>1, EditingKept DEF Unlinking
<1>5. ASSUME pc[u] = "links"
      PROVE  (\/ /\ loc[u].stack = <<Victim(u)>> /\ loc[u].doomed = {} /\ Mine(own2, u)
                 /\ Removable(inodes[Victim(u)])
              \/ loc[u].stack = <<Victim(u), TargetOf(Victim(u))>> /\ Refers(own2, u))'
  <2>1. CASE /\ loc[u].stack = <<Victim(u)>> /\ loc[u].doomed = {} /\ Mine(own, u)
             /\ Removable(inodes[Victim(u)])
    BY <1>1, <1>2, <1>3, <2>1, PhasesKept
  <2>2. CASE loc[u].stack = <<Victim(u), TargetOf(Victim(u))>> /\ Refers(own, u)
    BY <1>1, <1>2, <1>3, <2>2, PhasesKept DEF Refers
  <2> QED BY <1>5, <2>1, <2>2 DEF Unlinking
<1>6. ASSUME pc[u] = "delete"
      PROVE  (\/ loc[u].stack = <<Victim(u)>> /\ (Plain(own2, u) \/ Followed(own2, u))
              \/ loc[u].stack = <<Victim(u), TargetOf(Victim(u))>> /\ Refers(own2, u)
              \/ loc[u].stack = <<>> /\ Spared(own2, u))'
  <2>1. CASE loc[u].stack = <<Victim(u)>> /\ (Plain(own, u) \/ Followed(own, u))
    BY <1>1, <1>2, <1>3, <2>1, PhasesKept
  <2>2. CASE loc[u].stack = <<Victim(u), TargetOf(Victim(u))>> /\ Refers(own, u)
    BY <1>1, <1>2, <1>3, <2>2, PhasesKept DEF Refers
  <2>3. CASE loc[u].stack = <<>> /\ Spared(own, u)
    BY <1>1, <1>2, <1>3, <2>3, PhasesKept
  <2> QED BY <1>6, <2>1, <2>2, <2>3 DEF Unlinking
<1>7. ASSUME pc[u] \in {"drop", "free"}
      PROVE  /\ inodes'[loc[u].child.inumber] = inodes[loc[u].child.inumber]
             /\ Due(own2, u, loc[u].child.inumber)'
  <2>1. PICK c : c = loc[u].child.inumber
    OBVIOUS
  <2>2. Due(own, u, c)
    BY <1>7, <2>1 DEF Unlinking
  <2>3. inodes'[c] = inodes[c] /\ Due(own2, u, c)'
    BY <1>2, <2>2, DueTyped, PhasesKept DEF Frame
  <2> QED BY <1>1, <2>1, <2>3 DEF Due
<1>8. ASSUME pc[u] = "clear"
      PROVE  (/\ loc[u].child.inumber \in bits /\ own2[loc[u].child.inumber] = u
              /\ \/ loc[u].stack = <<>> /\ loc[u].child.inumber = Victim(u)
                 \/ /\ loc[u].stack = <<Victim(u)>> /\ Followed(own2, u)
                    /\ loc[u].child.inumber = TargetOf(Victim(u)))'
  <2>1. loc[u].child.inumber \in bits' /\ own2[loc[u].child.inumber] = u
    BY <1>8 DEF Frame, Unlinking
  <2>2. CASE loc[u].stack = <<>> /\ loc[u].child.inumber = Victim(u)
    BY <1>1, <1>3, <2>1, <2>2
  <2>3. CASE /\ loc[u].stack = <<Victim(u)>> /\ Followed(own, u)
             /\ loc[u].child.inumber = TargetOf(Victim(u))
    <3>1. TargetOf(Victim(u))' = TargetOf(Victim(u)) /\ Followed(own2, u)'
      BY <1>2, <2>3, PhasesKept DEF Followed
    <3> QED BY <1>1, <1>3, <2>1, <2>3, <3>1
  <2> QED BY <1>8, <2>2, <2>3 DEF Unlinking
<1>9. pc[u] \in {"rewrite", "commit"} => Spared(own2, u)'
  BY <1>2, PhasesKept DEF Unlinking
<1>10. pc[u] = "drop" => ~Followed(own2, u)'
  BY <1>2, PhasesKept DEF Unlinking
<1>11. Alone(u)' <=> Alone(u)
  BY <1>1 DEF Alone
<1> QED BY <1>1, <1>3, <1>4, <1>5, <1>6, <1>7, <1>8, <1>9, <1>10, <1>11 DEF Unlinking

-----------------------------------------------------------------------------
(* The other tasks together.                                               *)

(* The tasks other than t go on to find what they rely on.                 *)
LEMMA FramedSound ==
  ASSUME Typed, NEW own \in Owners, NEW own2 \in Owners, Consistent(own),
         NEW u \in Tasks, Frame(own, own2, u)
  PROVE  TaskSound(own2, u)'
<1>1. Frame(own, own2, u) /\ TaskSound(own, u)
  BY DEF Consistent
<1>2. loc'[u] = loc[u] /\ op'[u] = op[u] /\ pc'[u] = pc[u]
  BY <1>1 DEF Frame
<1>3. Given(u)'
  BY <1>1, <1>2 DEF TaskSound, Given
<1>4. (pc[u] \in Walks => Walking(own2, u))'
  BY <1>1, <1>2, WalkingKept DEF TaskSound
<1>5. (pc[u] \in {"data", "choose", "born"} => Making(own2, u))'
  BY <1>1, <1>2, MakingKept DEF TaskSound
<1>6. (pc[u] = "replace" => Overwriting(own2, u))'
  BY <1>1, <1>2, OverwritingKept DEF TaskSound
<1>7. \A i \in loc[u].born : i \in Sound /\ own[i] = u
  BY DEF Consistent, Shared, BornOwned
<1>8. (op[u] \in Creating /\ pc[u] = "rewrite" => Entering(own2, u))'
  BY <1>1, <1>2, <1>7, EnteringKept DEF TaskSound
<1>9. (op[u] \in Creating /\ pc[u] = "commit" =>
         Entering(own2, u) \/ Overwriting(own2, u))'
  BY <1>1, <1>2, <1>7, EnteringKept, OverwritingKept DEF TaskSound
<1>10. (op[u] = "append" /\ pc[u] = "commit" => Appending(own2, u))'
  BY <1>1, <1>2, AppendingKept DEF TaskSound
<1>11. (pc[u] \in {"release", "releaseDest", "bump"} => Releasing(own2, u))'
  BY <1>1, <1>2, ReleasingKept DEF TaskSound
<1>12. (op[u] = "move" /\ pc[u] \in {"rewrite", "rewriteDest", "commitDest", "commit"}
          => Moving(own2, u))'
  BY <1>1, <1>2, MovingKept DEF TaskSound
<1>13. (Removing(u) => Unlinking(own2, u))'
  BY <1>1, <1>2, UnlinkingKept DEF TaskSound, Removing
<1> QED BY <1>3, <1>4, <1>5, <1>6, <1>8, <1>9, <1>10, <1>11, <1>12, <1>13 DEF TaskSound

(* What they have begun and not counted stays the same.                    *)
LEMMA FramedAside ==
  ASSUME Typed, NEW own \in Owners, NEW own2 \in Owners, Consistent(own),
         NEW u \in Tasks, Frame(own, own2, u)
  PROVE  /\ \A i, e : Excused(u, i, e)' <=> Excused(u, i, e)
         /\ \A i \in Sound : ExcusedLink(own, u, i) => ExcusedLink(own2, u, i)'
         /\ \A i : Surplus(own2, u, i)' <=> Surplus(own, u, i)
<1>1. Frame(own, own2, u) /\ TaskSound(own, u)
  BY DEF Consistent
<1>2. loc'[u] = loc[u] /\ op'[u] = op[u] /\ pc'[u] = pc[u]
  BY <1>1 DEF Frame
<1>3. Removing(u)' <=> Removing(u)
  BY <1>2 DEF Removing
<1>4. \A i, e : Excused(u, i, e)' <=> Excused(u, i, e)
  BY <1>2, <1>3 DEF Excused
<1>5. Removing(u) => Folder(own, u, loc[u].parent) /\ Binds(Source(u), NameOf(loc[u].path))
  BY <1>1 DEF TaskSound, Unlinking, Editing
<1>6. op[u] = "move" /\ pc[u] = "commit" => Victim(u)' = Victim(u)
  BY <1>1, FolderKept DEF TaskSound, Moving, Editing
<1>7. \A i \in Sound : ExcusedLink(own, u, i) => ExcusedLink(own2, u, i)'
  BY <1>1, <1>5, PhasesKept DEF ExcusedLink
<1>8. ASSUME NEW i
      PROVE  Surplus(own2, u, i)' <=> Surplus(own, u, i)
  <2>1. Removing(u) => (Mine(own2, u)' <=> Mine(own, u))
    BY <1>1, <1>5, PhasesKept
  <2> QED BY <1>2, <1>3, <1>6, <2>1 DEF Surplus
<1> QED BY <1>4, <1>7, <1>8

LEMMA OtherTaskSound ==
  ASSUME Typed, Typed', NEW own \in Owners, NEW own2 \in Owners, Consistent(own),
         NEW t \in Tasks, Confined(own, own2, t), NEW u \in Tasks \ {t}
  PROVE  TaskSound(own2, u)'
BY Framed, FramedSound

LEMMA OtherTaskAside ==
  ASSUME Typed, Typed', NEW own \in Owners, NEW own2 \in Owners, Consistent(own),
         NEW t \in Tasks, Confined(own, own2, t), NEW u \in Tasks \ {t}
  PROVE  /\ \A i, e : Excused(u, i, e)' <=> Excused(u, i, e)
         /\ \A i \in Sound : ExcusedLink(own, u, i) => ExcusedLink(own2, u, i)'
         /\ \A i : Surplus(own2, u, i)' <=> Surplus(own, u, i)
<1>1. Frame(own, own2, u)
  BY Framed
<1> QED BY <1>1, FramedAside

-----------------------------------------------------------------------------
(* Directories and links after a step: all but the ones in X are as they   *)
(* were, and lead where they led, or to what t is removing.                *)

(* The root belongs to the only task, or to none of them.                  *)
LEMMA RootKept ==
  ASSUME Typed, Typed', NEW own \in Owners, NEW own2 \in Owners, Consistent(own),
         NEW t \in Tasks, Confined(own, own2, t)
  PROVE  RootOwned(own2)'
<1>1. Root \in Counted /\ Root \in Sound
  BY Inside DEF Consistent, Shared, RootStands
<1>2. own2[Root] = own[Root]
  BY <1>1 DEF Confined
<1>3. CASE \E u \in Tasks : Tasks = {u} /\ own[Root] = u
  BY <1>2, <1>3 DEF RootOwned
<1>4. CASE /\ own[Root] = NoTask
           /\ EntriesOf(Root) = MadeEntries
           /\ \A u \in Tasks : \E k \in DOMAIN Made :
                Home[u] = <<Made[k]>> /\ own[k + 1] = u
  <2>1. /\ Root \in Sound' /\ inodes'[Root] = inodes[Root]
        /\ inodes[Root].ext # None => disk'[inodes[Root].ext] = disk[inodes[Root].ext]
    BY <1>1, <1>4, SharingAssumption DEF Confined
  <2>2. EntriesOf(Root)' = EntriesOf(Root)
    BY <1>1, <2>1, ContentKept, Inside DEF Sound
  <2>3. \A k \in DOMAIN Made : own[k + 1] \in Tasks => own2[k + 1] = own[k + 1]
    BY <1>4, HomesCounted, Inside DEF Confined
  <2>4. \A u \in Tasks : \E k \in DOMAIN Made : Home[u] = <<Made[k]>> /\ own2[k + 1] = u
    BY <1>4, <2>3
  <2>5. MadeEntries' = MadeEntries
    BY DEF MadeEntries
  <2> QED BY <1>2, <1>4, <2>2, <2>4, <2>5 DEF RootOwned
<1> QED BY <1>3, <1>4 DEF Consistent, Shared, RootOwned

LEMMA HomelyKept ==
  ASSUME Typed, NEW own \in Owners, NEW own2 \in Owners, Consistent(own),
         NEW t \in Tasks, Confined(own, own2, t), NEW u \in Tasks, NEW p,
         Homely(own, u, p)
  PROVE  Homely(own2, u, p)
<1>1. Root \in Counted /\ Root \in Sound
  BY Inside DEF Consistent, Shared, RootStands
<1>2. CASE own[Root] = u
  BY <1>1, <1>2 DEF Homely, Confined
<1>3. CASE own[Root] # u
  <2>1. p # <<>> /\ \E k \in DOMAIN Made : Head(p) = Made[k] /\ own[k + 1] = u
    BY <1>3 DEF Homely
  <2>2. own[Root] = NoTask
    <3>1. CASE \E v \in Tasks : Tasks = {v} /\ own[Root] = v
      BY <1>3, <3>1
    <3> QED BY <3>1 DEF Consistent, Shared, RootOwned
  <2>3. \A k \in DOMAIN Made : own[k + 1] = u => own2[k + 1] = u
    BY <2>2, HomesCounted, Inside DEF Confined
  <2> QED BY <2>1, <2>3 DEF Homely
<1> QED BY <1>2, <1>3

(* All but X are left as they are, and all they lead to that is not being  *)
(* removed.                                                                *)
NodesMove(own, own2, t, X) ==
  /\ \A i \in Sound' \ X :
       /\ i \in Sound /\ inodes'[i] = inodes[i]
       /\ inodes[i].ext # None => disk'[inodes[i].ext] = disk[inodes[i].ext]
  /\ \A i \in Sound \cap Sound' : inodes'[i].kind = inodes[i].kind
  /\ \A i \in Sound' \cap X : NodeSound(own2, i)'
  /\ \A i \in Sound' \ X : \A e \in EntriesOf(i) :
       (Leads(own, i, e.inumber) /\ e.inumber \notin Counted') \/ Excused(t, i, e) =>
         Excused(t, i, e)' \/ Leads(own2, i, e.inumber)'
  /\ \A i \in Sound' \ X :
       /\ inodes[i].kind = "Hardlink"
       /\ \/ Leads(own, i, TargetOf(i)) /\ TargetOf(i) \notin Counted'
          \/ ExcusedLink(own, t, i)
       => \/ ExcusedLink(own2, t, i)'
          \/ Leads(own2, i, TargetOf(i))' /\ inodes'[TargetOf(i)].kind = "File"

(* Directories and links that the step leaves as they are stay sound: what *)
(* they lead to stays, or is being removed.                                *)
LEMMA NodesKept ==
  ASSUME Typed, Typed', NEW own \in Owners, NEW own2 \in Owners, Consistent(own),
         NEW t \in Tasks, Confined(own, own2, t), NEW X, NodesMove(own, own2, t, X)
  PROVE  NodesSound(own2)'
<1> SUFFICES ASSUME NEW i \in Sound' \ X
             PROVE  NodeSound(own2, i)'
  BY DEF NodesSound, NodesMove
<1>0. /\ \A k \in Sound' \ X :
           /\ k \in Sound /\ inodes'[k] = inodes[k]
           /\ inodes[k].ext # None => disk'[inodes[k].ext] = disk[inodes[k].ext]
      /\ \A k \in Sound \cap Sound' : inodes'[k].kind = inodes[k].kind
  BY DEF NodesMove
<1>1. i \in Sound /\ i \in bits /\ i \in bits' /\ i \in INumbers /\ inodes'[i] = inodes[i]
  BY <1>0, Inside DEF Sound
<1>2. Bytes(inodes[i].ext)' = Bytes(inodes[i].ext)
      /\ EntriesOf(i)' = EntriesOf(i) /\ TargetOf(i)' = TargetOf(i)
  BY <1>0, <1>1, ContentKept
<1>3. NodeSound(own, i) /\ own2[i] = own[i]
  BY <1>1 DEF Consistent, Shared, NodesSound, Confined
<1>4. ASSUME NEW j \in Counted', Leads(own, i, j)
      PROVE  Leads(own2, i, j)'
  <2>1. j \in Counted /\ j \in Sound
    BY <1>4, Inside DEF Leads
  <2>2. own2[j] = own[j]
    BY <2>1 DEF Confined
  <2> QED BY <1>3, <1>4, <2>2 DEF Leads
<1>5. DirectorySound(own2, i)'
  <2>1. ASSUME NEW e \in EntriesOf(i)
        PROVE  Leads(own2, i, e.inumber)' \/ \E u \in Tasks : Excused(u, i, e)'
    <3>1. CASE \/ Excused(t, i, e)
               \/ Leads(own, i, e.inumber) /\ e.inumber \notin Counted'
      BY <2>1, <3>1 DEF NodesMove
    <3>2. ASSUME NEW u \in Tasks \ {t}, Excused(u, i, e)
          PROVE  Excused(u, i, e)'
      BY <3>2, OtherTaskAside
    <3>3. CASE Leads(own, i, e.inumber) /\ e.inumber \in Counted'
      BY <1>4, <3>3
    <3> QED BY <1>3, <2>1, <3>1, <3>2, <3>3 DEF NodeSound, DirectorySound, Leads
  <2> QED BY <1>2, <1>3, <2>1 DEF NodeSound, DirectorySound
<1>6. HardlinkSound(own2, i)'
  <2> SUFFICES ASSUME inodes[i].kind = "Hardlink"
               PROVE  /\ own2[i] \in Tasks
                      /\ \/ (Leads(own2, i, TargetOf(i)) /\ inodes[TargetOf(i)].kind = "File")'
                         \/ \E u \in Tasks : ExcusedLink(own2, u, i)'
    BY <1>1 DEF HardlinkSound
  <2>1. PICK j : j = TargetOf(i)
    OBVIOUS
  <2>2. own2[i] \in Tasks
    BY <1>3 DEF NodeSound, HardlinkSound
  <2>3. CASE ExcusedLink(own, t, i) \/ (Leads(own, i, j) /\ j \notin Counted')
    BY <1>2, <2>1, <2>2, <2>3 DEF NodesMove
  <2>4. ASSUME NEW u \in Tasks \ {t}, ExcusedLink(own, u, i)
        PROVE  ExcusedLink(own2, u, i)'
    BY <1>1, <2>4, OtherTaskAside
  <2>5. CASE Leads(own, i, j) /\ inodes[j].kind = "File" /\ j \in Counted'
    <3>1. Leads(own2, i, j)'
      BY <1>4, <2>5
    <3>2. j \in Sound /\ j \in Sound'
      BY <2>5 DEF Counted, Leads
    <3>3. inodes'[j].kind = "File"
      BY <1>0, <2>5, <3>2
    <3> QED BY <1>2, <2>1, <2>2, <3>1, <3>3
  <2>6. \/ Leads(own, i, j) /\ inodes[j].kind = "File"
        \/ \E u \in Tasks : ExcusedLink(own, u, i)
    BY <1>3, <2>1 DEF NodeSound, HardlinkSound
  <2> QED BY <2>2, <2>3, <2>4, <2>5, <2>6
<1>7. SymlinkSound(own2, i)'
  <2> SUFFICES ASSUME inodes[i].kind = "Symlink"
               PROVE  own2[i] \in Tasks
                      /\ Homely(own2, own2[i], disk'[inodes[i].ext].path)
    BY <1>1 DEF SymlinkSound, Homely
  <2>1. own[i] \in Tasks /\ Homely(own, own[i], disk[inodes[i].ext].path)
    BY <1>3 DEF NodeSound, SymlinkSound
  <2>2. inodes[i].ext # None
    BY <1>1 DEF Consistent, Shared, ContentSound
  <2>3. disk'[inodes[i].ext] = disk[inodes[i].ext]
    BY <1>0, <2>2
  <2> QED BY <1>3, <2>1, <2>3, HomelyKept
<1> QED BY <1>5, <1>6, <1>7 DEF NodeSound

-----------------------------------------------------------------------------
(* What refers to an inode, and how many there are.                        *)

(* What refers to an inode: entries of directories, and hardlinks.         *)
LEMMA RefsAre ==
  ASSUME NEW own \in Owners, NEW i
  PROVE  /\ \A r : r \in EntryRefs(own, i) <=>
              \E j \in Counted : \E e \in EntriesOf(j) :
                /\ r = <<j, e>> /\ e.inumber = i /\ own[j] \in {own[i], NoTask}
         /\ \A j : j \in LinkRefs(own, i) <=>
              /\ j \in Counted /\ inodes[j].kind = "Hardlink" /\ TargetOf(j) = i
              /\ own[j] = own[i]
<1>1. ASSUME NEW r, r \in EntryRefs(own, i)
      PROVE  \E j \in Counted : \E e \in EntriesOf(j) :
               /\ r = <<j, e>> /\ e.inumber = i /\ own[j] \in {own[i], NoTask}
  <2>1. PICK j \in Counted, e \in UNION {EntriesOf(k) : k \in Counted} : r = <<j, e>>
    BY <1>1 DEF EntryRefs
  <2>2. r[1] = j /\ r[2] = e
    BY <2>1
  <2> QED BY <1>1, <2>1, <2>2 DEF EntryRefs
<1>2. ASSUME NEW j \in Counted, NEW e \in EntriesOf(j), e.inumber = i,
             own[j] \in {own[i], NoTask}
      PROVE  <<j, e>> \in EntryRefs(own, i)
  <2>1. e \in UNION {EntriesOf(k) : k \in Counted}
    OBVIOUS
  <2> QED BY <1>2, <2>1 DEF EntryRefs
<1>3. \A j : j \in LinkRefs(own, i) <=>
        /\ j \in Counted /\ inodes[j].kind = "Hardlink" /\ TargetOf(j) = i
        /\ own[j] = own[i]
  BY DEF LinkRefs
<1> QED BY <1>1, <1>2, <1>3

LEMMA RefsAreNext ==
  ASSUME NEW own \in Owners, NEW i
  PROVE  /\ \A r : r \in EntryRefs(own, i)' <=>
              \E j \in Counted' : \E e \in EntriesOf(j)' :
                /\ r = <<j, e>> /\ e.inumber = i /\ own[j] \in {own[i], NoTask}
         /\ \A j : j \in LinkRefs(own, i)' <=>
              /\ j \in Counted' /\ inodes'[j].kind = "Hardlink" /\ TargetOf(j)' = i
              /\ own[j] = own[i]
<1>1. ASSUME NEW r, r \in EntryRefs(own, i)'
      PROVE  \E j \in Counted' : \E e \in EntriesOf(j)' :
               /\ r = <<j, e>> /\ e.inumber = i /\ own[j] \in {own[i], NoTask}
  <2>1. PICK j \in Counted', e \in UNION {EntriesOf(k)' : k \in Counted'} : r = <<j, e>>
    BY <1>1 DEF EntryRefs
  <2>2. r[1] = j /\ r[2] = e
    BY <2>1
  <2> QED BY <1>1, <2>1, <2>2 DEF EntryRefs
<1>2. ASSUME NEW j \in Counted', NEW e \in EntriesOf(j)', e.inumber = i,
             own[j] \in {own[i], NoTask}
      PROVE  <<j, e>> \in EntryRefs(own, i)'
  <2>1. e \in UNION {EntriesOf(k)' : k \in Counted'}
    OBVIOUS
  <2> QED BY <1>2, <2>1 DEF EntryRefs
<1>3. \A j : j \in LinkRefs(own, i)' <=>
        /\ j \in Counted' /\ inodes'[j].kind = "Hardlink" /\ TargetOf(j)' = i
        /\ own[j] = own[i]
  BY DEF LinkRefs
<1> QED BY <1>1, <1>2, <1>3

LEMMA RefsFinite ==
  ASSUME Typed, NEW own \in Owners, Consistent(own), NEW i
  PROVE  IsFiniteSet(EntryRefs(own, i)) /\ IsFiniteSet(LinkRefs(own, i))
<1>1. IsFiniteSet(Counted)
  BY Inside, RootIsANumber, FS_Subset
<1>2. \A j \in Counted : IsFiniteSet(EntriesOf(j))
  BY Inside DEF Consistent, Shared, NodesSound, NodeSound, DirectorySound
<1>3. IsFiniteSet({EntriesOf(k) : k \in Counted})
  <2> DEFINE f == [k \in Counted |-> EntriesOf(k)]
  <2>1. f \in Surjection(Counted, {EntriesOf(k) : k \in Counted})
    BY DEF Surjection
  <2> QED BY <1>1, <2>1, FS_Surjection
<1>4. IsFiniteSet(UNION {EntriesOf(k) : k \in Counted})
  BY <1>2, <1>3, FS_UNION
<1>5. IsFiniteSet(Counted \X UNION {EntriesOf(k) : k \in Counted})
  BY <1>1, <1>4, FS_Product
<1>6. IsFiniteSet(EntryRefs(own, i))
  BY <1>5, FS_Subset DEF EntryRefs
<1>7. IsFiniteSet(LinkRefs(own, i))
  BY <1>1, FS_Subset DEF LinkRefs
<1> QED BY <1>6, <1>7

LEMMA RefsSame ==
  ASSUME NEW own \in Owners, NEW own2 \in Owners, NEW i \in Counted,
         Counted' = Counted,
         \A j \in Counted : /\ own2[j] = own[j] /\ EntriesOf(j)' = EntriesOf(j)
                            /\ inodes'[j].kind = inodes[j].kind
                            /\ inodes[j].kind = "Hardlink" => TargetOf(j)' = TargetOf(j)
  PROVE  EntryRefs(own2, i)' = EntryRefs(own, i) /\ LinkRefs(own2, i)' = LinkRefs(own, i)
<1>1. EntryRefs(own2, i)' = EntryRefs(own, i)
  <2>1. UNION {EntriesOf(k)' : k \in Counted} = UNION {EntriesOf(k) : k \in Counted}
    OBVIOUS
  <2> QED BY <2>1 DEF EntryRefs
<1>2. LinkRefs(own2, i)' = LinkRefs(own, i)
  BY DEF LinkRefs
<1> QED BY <1>1, <1>2

(* After a step of t, what refers to the inodes of others is the same.     *)
LEMMA RefsElsewhere ==
  ASSUME Typed, Typed', NEW own \in Owners, NEW own2 \in Owners, Consistent(own),
         NEW t \in Tasks, Confined(own, own2, t),
         \A j \in Counted' \ Counted : own2[j] = t,
         NEW i \in Counted', own2[i] # t
  PROVE  /\ EntryRefs(own2, i)' = EntryRefs(own, i)
         /\ LinkRefs(own2, i)' = LinkRefs(own, i)
         /\ i \in Counted /\ inodes'[i] = inodes[i] /\ own2[i] = own[i]
<1>1. ASSUME NEW j, j \in Counted \/ j \in Counted', own2[j] # t
      PROVE  /\ j \in Counted /\ j \in Counted' /\ own2[j] = own[j]
             /\ inodes'[j] = inodes[j]
             /\ EntriesOf(j)' = EntriesOf(j) /\ TargetOf(j)' = TargetOf(j)
  <2>1. j \in Counted /\ j \in Sound /\ j \in bits /\ j \in INumbers
    BY <1>1, Inside
  <2>2. own2[j] = own[j] /\ own[j] # t
    BY <1>1, <2>1 DEF Confined
  <2>3. /\ j \in Counted' /\ j \in Sound' /\ inodes'[j] = inodes[j]
        /\ inodes[j].ext # None => disk'[inodes[j].ext] = disk[inodes[j].ext]
    BY <2>1, <2>2 DEF Confined
  <2>4. j \in bits'
    BY <2>3 DEF Sound
  <2> QED BY <2>1, <2>2, <2>3, <2>4, ContentKept
<1>2. /\ i \in Counted /\ inodes'[i] = inodes[i] /\ own2[i] = own[i]
  BY <1>1
<1>3. ASSUME NEW r, r \in EntryRefs(own2, i)'
      PROVE  r \in EntryRefs(own, i)
  <2>1. PICK j \in Counted' : \E e \in EntriesOf(j)' :
          /\ r = <<j, e>> /\ e.inumber = i /\ own2[j] \in {own2[i], NoTask}
    BY <1>3, RefsAreNext
  <2>2. own2[j] # t
    BY <2>1, SharingAssumption
  <2> QED BY <1>1, <1>2, <2>1, <2>2, RefsAre
<1>4. ASSUME NEW r, r \in EntryRefs(own, i)
      PROVE  r \in EntryRefs(own2, i)'
  <2>1. PICK j \in Counted : \E e \in EntriesOf(j) :
          /\ r = <<j, e>> /\ e.inumber = i /\ own[j] \in {own[i], NoTask}
    BY <1>4, RefsAre
  <2>2. own2[j] = own[j] /\ own2[j] # t
    BY <1>2, <2>1, SharingAssumption, Inside DEF Confined
  <2> QED BY <1>1, <1>2, <2>1, <2>2, RefsAreNext
<1>5. ASSUME NEW j
      PROVE  j \in LinkRefs(own2, i)' <=> j \in LinkRefs(own, i)
  <2>1. ASSUME j \in LinkRefs(own2, i)' PROVE j \in LinkRefs(own, i)
    <3>1. j \in Counted' /\ inodes'[j].kind = "Hardlink" /\ TargetOf(j)' = i
          /\ own2[j] = own2[i]
      BY <2>1 DEF LinkRefs
    <3> QED BY <1>1, <1>2, <3>1, RefsAre
  <2>2. ASSUME j \in LinkRefs(own, i) PROVE j \in LinkRefs(own2, i)'
    <3>1. j \in Counted /\ inodes[j].kind = "Hardlink" /\ TargetOf(j) = i
          /\ own[j] = own[i]
      BY <2>2, RefsAre
    <3>2. own2[j] = own[j] /\ own2[j] # t
      BY <1>2, <3>1, Inside DEF Confined
    <3>3. j \in Counted' /\ inodes'[j].kind = "Hardlink" /\ TargetOf(j)' = i
          /\ own2[j] = own2[i]
      BY <1>1, <1>2, <3>1, <3>2
    <3> QED BY <3>3 DEF LinkRefs
  <2> QED BY <2>1, <2>2
<1> QED BY <1>2, <1>3, <1>4, <1>5

(* nlink counts what refers to the inode i.                                *)
CountRight(own, i) ==
  inodes[i].nlink + Extra(own, i)
    = Cardinality(EntryRefs(own, i)) + Cardinality(LinkRefs(own, i))

(* Counts stay right if what refers to an inode changes as its nlink does. *)
LEMMA CountsKept ==
  ASSUME Typed, Typed', NEW own \in Owners, NEW own2 \in Owners, Consistent(own),
         NEW t \in Tasks, Confined(own, own2, t),
         \A j \in Counted' \ Counted : own2[j] = t,
         Countable => \A i \in Counted' \ {Root} : own2[i] = t => CountRight(own2, i)'
  PROVE  CountsRight(own2)'
<1> SUFFICES ASSUME Countable, NEW i \in Counted' \ {Root}, own2[i] # t
             PROVE  CountRight(own2, i)'
  BY DEF CountsRight, CountRight
<1>1. /\ EntryRefs(own2, i)' = EntryRefs(own, i)
      /\ LinkRefs(own2, i)' = LinkRefs(own, i)
      /\ i \in Counted /\ inodes'[i] = inodes[i] /\ own2[i] = own[i]
  BY RefsElsewhere
<1>2. Extra(own2, i)' = Extra(own, i)
  <2>1. \A u \in Tasks : own[i] = u => (Surplus(own2, u, i)' <=> Surplus(own, u, i))
    BY <1>1, OtherTaskAside
  <2> QED BY <1>1, <2>1 DEF Extra
<1>3. CountRight(own, i)
  BY <1>1 DEF Consistent, Shared, CountsRight, CountRight
<1> QED BY <1>1, <1>2, <1>3 DEF CountRight

(* What is not counted yet of an inode is what its own task has not        *)
(* counted.                                                                *)
LEMMA ExtraIs ==
  ASSUME NEW own \in Owners, NEW t \in Tasks, NEW i, own[i] = t
  PROVE  Extra(own, i) = (IF Surplus(own, t, i) THEN 1 ELSE 0)
  BY DEF Extra

-----------------------------------------------------------------------------
(* What a task has begun and not counted, and steps that are confined.     *)

(* What t has begun and not counted is the same after the step.            *)
Aside(own, t) ==
  /\ \A i, e : Excused(t, i, e) => Excused(t, i, e)'
  /\ \A i \in Sound : ExcusedLink(own, t, i) => ExcusedLink(own, t, i)'
  /\ \A i \in INumbers : own[i] = t => (Surplus(own, t, i)' <=> Surplus(own, t, i))

(* The task has nothing that is not counted.                               *)
Even(t) ==
  /\ Removing(t) => loc[t].doomed = {}
  /\ ~(op[t] = "hardlink" /\ pc[t] \in {"release", "bump"})
  /\ ~(op[t] = "move" /\ pc[t] = "commit" /\ loc[t].dput # NoINode)

LEMMA EvenAside ==
  ASSUME NEW own \in Owners, NEW t \in Tasks, Even(t)
  PROVE  /\ \A i, e : ~Excused(t, i, e)
         /\ \A i : ~ExcusedLink(own, t, i)
         /\ \A i : ~Surplus(own, t, i)
  BY DEF Even, Excused, ExcusedLink, Surplus

LEMMA EvenAsideNext ==
  ASSUME NEW own \in Owners, NEW t \in Tasks, Even(t), Even(t)'
  PROVE  Aside(own, t) /\ \A i : ~Surplus(own, t, i)'
<1>1. \A i : ~Surplus(own, t, i)'
  BY DEF Even, Surplus
<1> QED BY <1>1, EvenAside DEF Aside

(* A step that leaves the bitmaps alone is confined, if the inodes and the *)
(* extents it changes are those of t.                                      *)
LEMMA ConfinedWhen ==
  ASSUME Typed, Typed', NEW own \in Owners, Consistent(own), NEW t \in Tasks,
         Others(t), bits' = bits,
         \A i \in Sound : own[i] # t =>
           /\ i \in Sound' /\ inodes'[i] = inodes[i]
           /\ i \in Counted => i \in Counted'
           /\ inodes[i].ext # None => disk'[inodes[i].ext] = disk[inodes[i].ext],
         \A i \in Sound' \ Sound : own[i] = t,
         \A u \in Tasks \ {t} : \A e \in loc[u].held : disk'[e] = disk[e]
  PROVE  Confined(own, own, t)
<1>1. ASSUME NEW u \in Tasks \ {t}
      PROVE  /\ pc[u] = "born" => loc[u].inum \notin bits'
             /\ pc[u] = "clear" => loc[u].child.inumber \in bits'
  BY DEF Consistent, TaskSound, Making, Unlinking, Removing, Deleting, Typed, Placed
<1> QED BY <1>1 DEF Confined

(* A step after which every inode that counted is as it was.               *)
LEMMA SharedKept ==
  ASSUME Typed, Typed', NEW own \in Owners, Consistent(own), NEW t \in Tasks,
         Confined(own, own, t), Sound' = Sound, Counted' = Counted,
         \A i \in Sound :
           /\ inodes'[i] = inodes[i]
           /\ inodes[i].ext # None => disk'[inodes[i].ext] = disk[inodes[i].ext],
         Aside(own, t)
  PROVE  RootStands' /\ RootOwned(own)' /\ NodesSound(own)' /\ CountsRight(own)'
<1>1. RootStands' /\ RootOwned(own)'
  <2>1. RootOwned(own)'
    BY RootKept
  <2> QED BY <2>1, Inside DEF Consistent, Shared, RootStands
<1>2. NodesSound(own)'
  <2>1. PICK X : X = {}
    OBVIOUS
  <2>2. NodesMove(own, own, t, X)
    BY <2>1 DEF NodesMove, Aside, Leads
  <2> QED BY <2>2, NodesKept
<1>3. ASSUME Countable, NEW i \in Counted \ {Root}, own[i] = t
      PROVE  CountRight(own, i)'
  <2>1. CountRight(own, i) /\ i \in INumbers
    BY <1>3, Inside DEF Consistent, Shared, CountsRight, CountRight
  <2>2. \A j \in Counted : /\ own[j] = own[j] /\ EntriesOf(j)' = EntriesOf(j)
                           /\ inodes'[j].kind = inodes[j].kind
                           /\ inodes[j].kind = "Hardlink" => TargetOf(j)' = TargetOf(j)
    <3> SUFFICES ASSUME NEW j \in Counted
                 PROVE  EntriesOf(j)' = EntriesOf(j) /\ TargetOf(j)' = TargetOf(j)
                        /\ inodes'[j].kind = inodes[j].kind
      OBVIOUS
    <3>1. j \in Sound /\ j \in Sound' /\ j \in INumbers
      BY Inside
    <3>2. j \in bits /\ j \in bits'
      BY <3>1 DEF Sound
    <3> QED BY <3>1, <3>2, ContentKept
  <2>3. EntryRefs(own, i)' = EntryRefs(own, i) /\ LinkRefs(own, i)' = LinkRefs(own, i)
    BY <1>3, <2>2, RefsSame
  <2>4. Extra(own, i)' = Extra(own, i)
    <3>1. \A u \in Tasks \ {t} : own[i] = u => (Surplus(own, u, i)' <=> Surplus(own, u, i))
      BY OtherTaskAside
    <3>2. Surplus(own, t, i)' <=> Surplus(own, t, i)
      BY <1>3, <2>1 DEF Aside
    <3> QED BY <1>3, <3>2 DEF Extra
  <2>5. inodes'[i] = inodes[i]
    BY <1>3, Inside
  <2> QED BY <2>1, <2>3, <2>4, <2>5 DEF CountRight
<1>4. CountsRight(own)'
  BY <1>3, CountsKept
<1> QED BY <1>1, <1>2, <1>4

-----------------------------------------------------------------------------
(* Steps that change no more than the locals of t, and operations that     *)
(* fail: their extents are lost and their inodes are in no directory.      *)

(* After a confined step of t, if t is sound all tasks are.                *)
LEMMA AllSound ==
  ASSUME Typed, Typed', NEW own \in Owners, NEW own2 \in Owners, Consistent(own),
         NEW t \in Tasks, Confined(own, own2, t), TaskSound(own2, t)'
  PROVE  \A u \in Tasks : TaskSound(own2, u)'
  BY OtherTaskSound

(* A step that changes nothing on the device, and allocates nothing.       *)
LEMMA LocalSound ==
  ASSUME Typed, Typed', NEW own \in Owners, Consistent(own), NEW t \in Tasks,
         Others(t), UNCHANGED <<bits, inodes, used, disk, lost, orphans>>,
         loc'[t].held = loc[t].held, loc'[t].born = loc[t].born,
         pc[t] # "clear", pc'[t] # "clear", Guarded', Aside(own, t),
         \/ pc[t] # "idle"
         \/ {"hardlink", "unlink"} \subseteq Ops => orphans = {},
         TaskSound(own, t)'
  PROVE  Consistent(own)'
<1>1. Held' = Held /\ Born' = Born /\ Emptied' = Emptied
  BY Parts, PartsNext DEF Clears
<1>2. Sound' = Sound /\ Counted' = Counted
  BY <1>1 DEF Sound, Counted
<1>3. Confined(own, own, t)
  BY <1>2, ConfinedWhen
<1>4. RootStands' /\ RootOwned(own)' /\ NodesSound(own)' /\ CountsRight(own)'
  BY <1>2, <1>3, SharedKept
<1>5. ContentSound'
  BY <1>1, <1>2 DEF Consistent, Shared, ContentSound
<1>6. \A u \in Tasks : loc'[u].held = loc[u].held /\ loc'[u].born = loc[u].born
  BY DEF Others
<1>7. ExtentsAccounted'
  BY <1>1, <1>2, <1>6 DEF Consistent, Shared, ExtentsAccounted
<1>8. \A i \in orphans \cup Born : EntriesOf(i)' = EntriesOf(i)
  BY DEF EntriesOf, Bytes
<1>9. BornOwned(own)'
  <2>1. ASSUME {"hardlink", "unlink"} \subseteq Ops, NEW i \in orphans, NEW u \in Tasks,
               own[i] = u
        PROVE  pc'[u] = "idle"
    <3>1. pc[u] = "idle"
      BY <2>1 DEF Consistent, Shared, BornOwned
    <3> QED BY <2>1, <3>1 DEF Others
  <2> QED BY <1>1, <1>2, <1>6, <1>8, <2>1 DEF Consistent, Shared, BornOwned
<1>10. \A u \in Tasks : TaskSound(own, u)'
  BY <1>3, AllSound
<1> QED BY <1>4, <1>5, <1>7, <1>9, <1>10 DEF Consistent, Shared

LEMMA GuardKept ==
  ASSUME NEW own, Consistent(own), NEW t \in Tasks, Others(t),
         \/ /\ guard' = guard /\ pc[t] \notin Registering
            /\ pc[t] = "born" <=> pc'[t] = "born"
         \/ guard' = NoTask /\ guard \in {t, NoTask} /\ pc'[t] # "born"
  PROVE  Guarded'
<1>1. CASE guard' = guard /\ pc[t] \notin Registering
           /\ (pc[t] = "born" <=> pc'[t] = "born")
  BY <1>1 DEF Consistent, Shared, Guarded, Others
<1>2. CASE guard' = NoTask /\ guard \in {t, NoTask} /\ pc'[t] # "born"
  BY <1>2, SharingAssumption DEF Consistent, Shared, Guarded, Others
<1> QED BY <1>1, <1>2

LEMMA IdleSound ==
  ASSUME NEW own, NEW t \in Tasks, pc'[t] = "idle", op'[t] = "ls"
  PROVE  TaskSound(own, t)'
  BY DEF TaskSound, Given, Walks, Removing, Deleting, Creating, Linking

(* An operation that fails leaves its inodes and extents behind, unless a  *)
(* deletion has begun.                                                     *)
LEMMA FailSound ==
  ASSUME Typed, Typed', NEW own \in Owners, Consistent(own), NEW t \in Tasks, Fail(t),
         Intact', pc[t] \notin {"idle", "born", "clear"} \cup Registering, Even(t)
  PROVE  Consistent(own)'
<1>1. /\ Others(t) /\ pc'[t] = "idle" /\ op'[t] = "ls" /\ loc'[t] = Idle
      /\ lost' = lost \cup loc[t].held
      /\ orphans' = orphans \cup loc[t].born
      /\ UNCHANGED <<bits, inodes, used, disk, guard, clobbered>>
  BY FailFacts DEF Typed
<1>2. loc'[t].held = {} /\ loc'[t].born = {}
  BY <1>1 DEF Idle
<1>3. /\ Held' = HeldElse(t) /\ Born' = BornElse(t) /\ Emptied' = Emptied
      /\ Held = loc[t].held \cup HeldElse(t) /\ Born = loc[t].born \cup BornElse(t)
  BY <1>1, <1>2, Parts, PartsNext DEF Clears
<1>4. Sound' = Sound /\ Counted' = Counted
  BY <1>1, <1>3 DEF Sound, Counted
<1>5. Confined(own, own, t)
  BY <1>1, <1>4, ConfinedWhen
<1>6. Even(t)'
  BY <1>1 DEF Even, Removing
<1>7. RootStands' /\ RootOwned(own)' /\ NodesSound(own)' /\ CountsRight(own)'
  BY <1>1, <1>4, <1>5, <1>6, EvenAsideNext, SharedKept
<1>8. lost' \cup Held' = lost \cup Held
  BY <1>1, <1>3
<1>9. ContentSound'
  BY <1>1, <1>4, <1>8 DEF Consistent, Shared, ContentSound
<1>10. ExtentsAccounted'
  <2>1. loc[t].held \cap HeldElse(t) = {}
    BY DEF HeldElse, Consistent, Shared, ExtentsAccounted
  <2>2. lost' \cap Held' = {}
    BY <1>1, <1>3, <2>1 DEF Consistent, Shared, ExtentsAccounted
  <2>3. \A u, v \in Tasks : u # v => loc'[u].held \cap loc'[v].held = {}
    BY <1>1, <1>2 DEF Others, Consistent, Shared, ExtentsAccounted
  <2> QED BY <1>1, <1>4, <1>8, <2>2, <2>3 DEF Consistent, Shared, ExtentsAccounted
<1>11. \A i : EntriesOf(i)' = EntriesOf(i)
  BY <1>1 DEF EntriesOf, Bytes
<1>12. BornOwned(own)'
  <2>1. orphans' \cap Born' = {}
    <3>1. loc[t].born \cap BornElse(t) = {}
      BY DEF BornElse, Consistent, Shared, BornOwned
    <3> QED BY <1>1, <1>3, <3>1 DEF Consistent, Shared, BornOwned
  <2>2. \A u \in Tasks : \A i \in loc'[u].born : i \in Sound /\ own[i] = u
    BY <1>1, <1>2 DEF Others, Consistent, Shared, BornOwned
  <2>3. orphans' \cup Born' = orphans \cup Born
    BY <1>1, <1>3
  <2>4. ASSUME {"hardlink", "unlink"} \subseteq Ops, NEW i \in orphans', NEW u \in Tasks,
               own[i] = u
        PROVE  pc'[u] = "idle"
    <3>1. CASE i \in orphans
      BY <1>1, <2>4, <3>1 DEF Others, Consistent, Shared, BornOwned
    <3>2. CASE i \in loc[t].born
      BY <1>1, <2>4, <3>2 DEF Consistent, Shared, BornOwned
    <3> QED BY <1>1, <2>4, <3>1, <3>2
  <2>5. orphans' \subseteq Sound'
    BY <1>1, <1>4 DEF Consistent, Shared, BornOwned
  <2> QED BY <1>4, <1>11, <2>1, <2>2, <2>3, <2>4, <2>5 DEF Consistent, Shared, BornOwned
<1>13. Guarded'
  BY <1>1, GuardKept
<1>14. \A u \in Tasks : TaskSound(own, u)'
  BY <1>1, <1>5, IdleSound, AllSound
<1> QED BY <1>7, <1>9, <1>10, <1>12, <1>13, <1>14 DEF Consistent, Shared

-----------------------------------------------------------------------------
(* The three changes to the device that every operation is made of: an     *)
(* extent is allocated, an extent is freed, ...                            *)

(* So does one that fails before a commit.                                 *)
LEMMA FailureSound ==
  ASSUME Typed, Typed', NEW own \in Owners, Consistent(own), NEW t \in Tasks, Fail(t),
         Intact', pc[t] \notin {"idle", "born", "clear", "release", "bump", "commit",
                            "commitDest", "drop"}
  PROVE  Consistent(own)'
<1>1. doomed' = doomed \cup loc[t].doomed
  BY FailFacts DEF Typed
<1>2. loc[t].doomed = {}
  BY <1>1 DEF Intact
<1>3. Even(t)
  BY <1>2 DEF Even
<1> QED BY <1>3, FailSound DEF Registering

(* The content of sound inodes and what other tasks hold is in use.        *)
LEMMA InUse ==
  ASSUME NEW own, Consistent(own)
  PROVE  /\ \A i \in Sound : inodes[i].ext # None => inodes[i].ext \in used
         /\ \A u \in Tasks : loc[u].held \subseteq used
         /\ Held \subseteq used /\ lost \subseteq used
<1>1. Held \subseteq used /\ lost \subseteq used
  BY DEF Consistent, Shared, ExtentsAccounted
<1>2. \A u \in Tasks : loc[u].held \subseteq used
  BY <1>1 DEF Held
<1> QED BY <1>1, <1>2 DEF Consistent, Shared, ContentSound

(* Something is stored in an extent that was free.                         *)
LEMMA StoreSound ==
  ASSUME Typed, Typed', NEW own \in Owners, Consistent(own), NEW t \in Tasks,
         NEW b \in Content, NEW e \in Extents \cup {None}, Stores(b, e),
         Others(t), UNCHANGED <<bits, inodes, lost, orphans, guard>>,
         loc'[t].held = loc[t].held \cup ({e} \ {None}), loc'[t].born = loc[t].born,
         {pc[t], pc'[t]} \cap {"idle", "born", "clear"} = {}, Aside(own, t),
         TaskSound(own, t)'
  PROVE  Consistent(own)'
<1>1. /\ used' = used \cup ({e} \ {None}) /\ e \notin used
      /\ \A f \in used : disk'[f] = disk[f]
  BY Inside DEF Stores, Typed, StateTyped
<1>2. /\ Held = loc[t].held \cup HeldElse(t) /\ Held' = loc'[t].held \cup HeldElse(t)
      /\ Born' = Born /\ Emptied' = Emptied
  BY Parts, PartsNext DEF Clears
<1>3. Held' = Held \cup ({e} \ {None})
  BY <1>2
<1>4. Sound' = Sound /\ Counted' = Counted
  BY <1>2 DEF Sound, Counted
<1>5. \A i \in Sound : inodes[i].ext # None => disk'[inodes[i].ext] = disk[inodes[i].ext]
  BY <1>1, InUse
<1>6. Confined(own, own, t)
  BY <1>1, <1>4, <1>5, InUse, ConfinedWhen
<1>7. RootStands' /\ RootOwned(own)' /\ NodesSound(own)' /\ CountsRight(own)'
  BY <1>4, <1>5, <1>6, SharedKept
<1>8. ContentSound'
  BY <1>1, <1>3, <1>4, <1>5 DEF Consistent, Shared, ContentSound
<1>9. ExtentsAccounted'
  <2>1. lost' \cup Held' \subseteq used' /\ lost' \cap Held' = {}
    BY <1>1, <1>3, InUse DEF Consistent, Shared, ExtentsAccounted
  <2>2. \A u, v \in Tasks : u # v => loc'[u].held \cap loc'[v].held = {}
    BY <1>1, InUse DEF Others, Consistent, Shared, ExtentsAccounted
  <2>3. used' \subseteq lost' \cup Held' \cup {inodes'[i].ext : i \in Sound'}
    BY <1>1, <1>3, <1>4 DEF Consistent, Shared, ExtentsAccounted
  <2> QED BY <2>1, <2>2, <2>3 DEF ExtentsAccounted
<1>10. \A i \in orphans \cup Born : EntriesOf(i)' = EntriesOf(i)
  <2>1. orphans \cup Born \subseteq Sound
    BY DEF Born, Consistent, Shared, BornOwned
  <2> QED BY <1>5, <2>1, Inside, ContentKept
<1>11. BornOwned(own)'
  <2>1. \A u \in Tasks : loc'[u].born = loc[u].born
    BY DEF Others
  <2>2. ASSUME {"hardlink", "unlink"} \subseteq Ops, NEW i \in orphans, NEW u \in Tasks,
               own[i] = u
        PROVE  pc'[u] = "idle"
    <3>1. pc[u] = "idle"
      BY <2>2 DEF Consistent, Shared, BornOwned
    <3> QED BY <2>2, <3>1 DEF Others
  <2> QED BY <1>2, <1>4, <1>10, <2>1, <2>2 DEF Consistent, Shared, BornOwned
<1>12. Guarded'
  BY GuardKept DEF Stores
<1>13. \A u \in Tasks : TaskSound(own, u)'
  BY <1>6, AllSound
<1> QED BY <1>7, <1>8, <1>9, <1>11, <1>12, <1>13 DEF Consistent, Shared

(* The content that the task has replaced is freed.                        *)
LEMMA ReleaseSound ==
  ASSUME Typed, Typed', NEW own \in Owners, Consistent(own), NEW t \in Tasks,
         NEW e \in loc[t].held \cup {None}, Release(e),
         Others(t), UNCHANGED <<bits, inodes, lost, orphans, guard>>,
         loc'[t].held = loc[t].held \ {e}, loc'[t].born = loc[t].born,
         {pc[t], pc'[t]} \cap {"born", "clear"} = {}, pc[t] # "idle", Aside(own, t),
         TaskSound(own, t)'
  PROVE  Consistent(own)'
<1>1. /\ used' = used \ {e} /\ used \subseteq Extents
      /\ \A f \in used \ {e} : disk'[f] = disk[f]
  BY DEF Release, Typed, StateTyped
<1>2. /\ Held = loc[t].held \cup HeldElse(t) /\ Held' = loc'[t].held \cup HeldElse(t)
      /\ Born' = Born /\ Emptied' = Emptied
  BY Parts, PartsNext DEF Clears
<1>3. Held' = Held \ {e}
  <2>1. e \notin HeldElse(t)
    <3>1. None \notin HeldElse(t)
      BY InUse, Inside, <1>1 DEF HeldElse
    <3> QED BY <3>1 DEF HeldElse, Consistent, Shared, ExtentsAccounted
  <2> QED BY <1>2, <2>1
<1>4. Sound' = Sound /\ Counted' = Counted
  BY <1>2 DEF Sound, Counted
<1>5. \A i \in Sound : inodes[i].ext # None =>
        /\ inodes[i].ext # e /\ inodes[i].ext \in used
        /\ disk'[inodes[i].ext] = disk[inodes[i].ext]
  <2>1. loc[t].held \subseteq Held
    BY DEF Held
  <2> QED BY <1>1, <2>1 DEF Consistent, Shared, ContentSound
<1>6. Confined(own, own, t)
  <2>1. \A u \in Tasks \ {t} : \A f \in loc[u].held : disk'[f] = disk[f]
    <3> SUFFICES ASSUME NEW u \in Tasks \ {t}, NEW f \in loc[u].held
                 PROVE  f \in used /\ f # e
      BY <1>1
    <3>1. f \in used /\ f # None
      BY <1>1, InUse, Inside
    <3> QED BY <3>1 DEF Consistent, Shared, ExtentsAccounted
  <2> QED BY <1>4, <1>5, <2>1, ConfinedWhen
<1>7. RootStands' /\ RootOwned(own)' /\ NodesSound(own)' /\ CountsRight(own)'
  BY <1>4, <1>5, <1>6, SharedKept
<1>8. ContentSound'
  BY <1>1, <1>3, <1>4, <1>5 DEF Consistent, Shared, ContentSound
<1>9. ExtentsAccounted'
  <2>1. lost' \cup Held' \subseteq used' /\ lost' \cap Held' = {}
    <3>1. e \notin lost
      BY <1>1, InUse, Inside DEF Held, Consistent, Shared, ExtentsAccounted
    <3> QED BY <1>1, <1>3, <3>1, InUse DEF Consistent, Shared, ExtentsAccounted
  <2>2. \A u, v \in Tasks : u # v => loc'[u].held \cap loc'[v].held = {}
    BY DEF Others, Consistent, Shared, ExtentsAccounted
  <2>3. used' \subseteq lost' \cup Held' \cup {inodes'[i].ext : i \in Sound'}
    BY <1>1, <1>3, <1>4 DEF Consistent, Shared, ExtentsAccounted
  <2> QED BY <2>1, <2>2, <2>3 DEF ExtentsAccounted
<1>10. \A i \in orphans \cup Born : EntriesOf(i)' = EntriesOf(i)
  <2>1. orphans \cup Born \subseteq Sound
    BY DEF Born, Consistent, Shared, BornOwned
  <2> QED BY <1>5, <2>1, Inside, ContentKept
<1>11. BornOwned(own)'
  <2>1. \A u \in Tasks : loc'[u].born = loc[u].born
    BY DEF Others
  <2>2. ASSUME {"hardlink", "unlink"} \subseteq Ops, NEW i \in orphans, NEW u \in Tasks,
               own[i] = u
        PROVE  pc'[u] = "idle"
    <3>1. pc[u] = "idle"
      BY <2>2 DEF Consistent, Shared, BornOwned
    <3> QED BY <2>2, <3>1 DEF Others
  <2> QED BY <1>2, <1>4, <1>10, <2>1, <2>2 DEF Consistent, Shared, BornOwned
<1>12. Guarded'
  BY GuardKept DEF Release
<1>13. \A u \in Tasks : TaskSound(own, u)'
  BY <1>6, AllSound
<1> QED BY <1>7, <1>8, <1>9, <1>11, <1>12, <1>13 DEF Consistent, Shared

-----------------------------------------------------------------------------
(* ... and an inode that is in a directory is registered anew.             *)

(* The inode i of t is registered anew, as x.                              *)
Registers(own, t, i, x) ==
  /\ i \in Counted /\ own[i] = t /\ x \in INode /\ x.kind = inodes[i].kind
  /\ inodes' = [inodes EXCEPT ![i] = x]
  /\ UNCHANGED <<bits, used, disk, lost, orphans>>
  /\ guard = t /\ guard' = NoTask
  /\ Others(t)
  /\ loc'[t].born \in {loc[t].born, {}}
  /\ pc[t] \notin {"idle", "born", "clear"} /\ pc'[t] \notin {"born", "clear"}

(* What a registered inode changes, and what not.                          *)
LEMMA RegisterFrame ==
  ASSUME Typed, Typed', NEW own \in Owners, Consistent(own), NEW t \in Tasks,
         NEW i, NEW x, Registers(own, t, i, x)
  PROVE  /\ i \in INumbers /\ i \in Sound /\ i \in Counted'
         /\ Sound' = Sound /\ Counted' = Counted \cup (loc[t].born \ loc'[t].born)
         /\ inodes'[i] = x /\ \A j \in INumbers \ {i} : inodes'[j] = inodes[j]
         /\ \A e : Bytes(e)' = Bytes(e)
         /\ \A j \in INumbers \ {i} : EntriesOf(j)' = EntriesOf(j) /\ TargetOf(j)' = TargetOf(j)
         /\ EntriesOf(i)' = (IF x.kind = "Directory" THEN Bytes(x.ext).entries ELSE {})
         /\ TargetOf(i)' = Bytes(x.ext).target
         /\ Confined(own, own, t)
<1>1. i \in INumbers /\ i \in Sound /\ i \in bits
  BY Inside DEF Registers
<1>2. inodes'[i] = x /\ \A j \in INumbers \ {i} : inodes'[j] = inodes[j]
  BY <1>1 DEF Registers, Typed, StateTyped
<1>3. /\ Born = loc[t].born \cup BornElse(t) /\ Born' = loc'[t].born \cup BornElse(t)
      /\ Emptied' = Emptied
  BY Parts, PartsNext DEF Clears, Registers
<1>4. Sound' = Sound
  BY <1>3 DEF Sound, Registers
<1>5. Counted' = Counted \cup (loc[t].born \ loc'[t].born)
  <2>1. loc[t].born \cap BornElse(t) = {} /\ loc[t].born \subseteq Sound
        /\ orphans \cap loc[t].born = {}
    BY DEF BornElse, Born, Consistent, Shared, BornOwned
  <2>2. CASE loc'[t].born = loc[t].born
    BY <1>3, <1>4, <2>2 DEF Counted, Registers
  <2>3. CASE loc'[t].born = {}
    BY <1>3, <1>4, <2>1, <2>3 DEF Counted, Registers
  <2> QED BY <2>2, <2>3 DEF Registers
<1>6. \A e : Bytes(e)' = Bytes(e)
  BY DEF Bytes, Registers
<1>7. \A j \in INumbers \ {i} : EntriesOf(j)' = EntriesOf(j) /\ TargetOf(j)' = TargetOf(j)
  BY <1>2 DEF EntriesOf, TargetOf, Bytes, Registers
<1>8. EntriesOf(i)' = (IF x.kind = "Directory" THEN Bytes(x.ext).entries ELSE {})
  BY <1>1, <1>2 DEF EntriesOf, Bytes, Registers
<1>9. TargetOf(i)' = Bytes(x.ext).target
  BY <1>2 DEF TargetOf, Bytes, Registers
<1>10. Confined(own, own, t)
  BY <1>2, <1>4, <1>5, Inside, ConfinedWhen DEF Registers
<1> QED BY <1>1, <1>2, <1>4, <1>5, <1>6, <1>7, <1>8, <1>9, <1>10 DEF Registers

(* It keeps the volume consistent if its node, its counts and its content  *)
(* do.                                                                     *)
LEMMA RegisterSound ==
  ASSUME Typed, Typed', NEW own \in Owners, Consistent(own), NEW t \in Tasks,
         NEW i, NEW x, Registers(own, t, i, x),
         x.nlink >= 1, x.kind # "File" => x.nlink = 1,
         \/ x.ext = inodes[i].ext /\ loc'[t].held = loc[t].held
         \/ /\ x.kind \in {"Directory", "File"}
            /\ x.ext \in loc[t].held \cup {None}
            /\ x.ext = None => x.kind = "Directory"
            /\ x.ext # None => disk[x.ext].form = FormOf(x.kind)
            /\ loc'[t].held = (loc[t].held \cup {inodes[i].ext}) \ {x.ext, None},
         NodeSound(own, i)',
         \A j \in Sound \ {i} :
           /\ \A e \in EntriesOf(j) : Excused(t, j, e) => Excused(t, j, e)'
           /\ inodes[j].kind = "Hardlink" /\ ExcusedLink(own, t, j) =>
                ExcusedLink(own, t, j)',
         Countable => \A k \in Counted' \ {Root} : own[k] = t => CountRight(own, k)',
         TaskSound(own, t)'
  PROVE  Consistent(own)'
<1>1. /\ i \in INumbers /\ i \in Sound /\ i \in Counted'
      /\ Sound' = Sound /\ Counted' = Counted \cup (loc[t].born \ loc'[t].born)
      /\ inodes'[i] = x /\ \A j \in INumbers \ {i} : inodes'[j] = inodes[j]
      /\ Confined(own, own, t)
  BY RegisterFrame
<1>2. /\ x.kind = inodes[i].kind /\ own[i] = t /\ i \in Counted
      /\ UNCHANGED <<bits, used, disk, lost, orphans>> /\ Others(t)
      /\ pc[t] \notin {"idle", "born", "clear"} /\ pc'[t] \notin {"born", "clear"}
      /\ loc'[t].born \in {loc[t].born, {}}
  BY DEF Registers
<1>3. /\ Held = loc[t].held \cup HeldElse(t) /\ Held' = loc'[t].held \cup HeldElse(t)
      /\ Born = loc[t].born \cup BornElse(t) /\ Born' = loc'[t].born \cup BornElse(t)
      /\ loc[t].held \cap HeldElse(t) = {}
  BY <1>2, Parts, PartsNext DEF HeldElse, Consistent, Shared, ExtentsAccounted
<1>4. loc[t].held \subseteq used /\ HeldElse(t) \subseteq used /\ lost \subseteq used
      /\ lost \cap Held = {} /\ None \notin used
  BY <1>3, InUse, Inside DEF Consistent, Shared, ExtentsAccounted, Typed, StateTyped
<1>5. RootStands' /\ RootOwned(own)'
  <2>1. RootOwned(own)'
    BY <1>1, RootKept
  <2> QED BY <1>1, <1>2, <2>1, Inside DEF Consistent, Shared, RootStands
<1>6. NodesSound(own)'
  <2>1. PICK X : X = {i}
    OBVIOUS
  <2>2. NodesMove(own, own, t, X)
    <3>1. \A j \in Sound \ {i} : inodes'[j] = inodes[j]
      BY <1>1, Inside
    <3>2. \A j \in Sound : inodes'[j].kind = inodes[j].kind
      BY <1>1, <1>2, <3>1
    <3> QED BY <1>1, <1>2, <2>1, <3>1, <3>2 DEF NodesMove, Leads
  <2> QED BY <1>1, <2>2, NodesKept
<1>7. CountsRight(own)'
  <2>1. \A j \in Counted' \ Counted : own[j] = t
    BY <1>1 DEF Consistent, Shared, BornOwned
  <2> QED BY <1>1, <2>1, CountsKept
<1>8. \A j \in Sound \ {i} : inodes[j].ext = None \/
        (inodes[j].ext \in used /\ inodes[j].ext \notin loc[t].held \cup HeldElse(t) \cup lost
         /\ inodes[j].ext # inodes[i].ext)
  BY <1>1, <1>3 DEF Consistent, Shared, ContentSound
<1>9. inodes[i].ext = None \/
        (inodes[i].ext \in used /\ inodes[i].ext \notin loc[t].held \cup HeldElse(t) \cup lost)
  BY <1>1, <1>3 DEF Consistent, Shared, ContentSound
<1>10. ContentSound'
  <2>1. ASSUME NEW j \in Sound \ {i}
        PROVE  /\ inodes[j].ext = None => inodes[j].kind = "Directory"
               /\ inodes[j].ext # None =>
                    /\ inodes[j].ext \in used \ (lost \cup Held')
                    /\ disk[inodes[j].ext].form = FormOf(inodes[j].kind)
                    /\ inodes[j].ext # x.ext
                    /\ \A k \in Sound \ {j, i} : inodes[k].ext # inodes[j].ext
               /\ inodes[j].nlink >= 1
               /\ inodes[j].kind # "File" => inodes[j].nlink = 1
               /\ inodes[j].kind = "Symlink" => "symlink" \in Ops
               /\ inodes[j].kind = "Hardlink" => "hardlink" \in Ops
    <3>1. inodes[j].ext # None => /\ inodes[j].ext \in used \ (lost \cup Held')
                                  /\ inodes[j].ext # x.ext
      BY <1>3, <1>8
    <3> QED BY <3>1 DEF Consistent, Shared, ContentSound
  <2>2. /\ x.ext = None => x.kind = "Directory"
        /\ x.ext # None =>
             /\ x.ext \in used \ (lost \cup Held')
             /\ disk[x.ext].form = FormOf(x.kind)
             /\ \A k \in Sound \ {i} : inodes[k].ext # x.ext
        /\ x.kind = "Symlink" => "symlink" \in Ops
        /\ x.kind = "Hardlink" => "hardlink" \in Ops
    <3>1. CASE x.ext = inodes[i].ext /\ loc'[t].held = loc[t].held
      BY <1>1, <1>2, <1>3, <3>1 DEF Consistent, Shared, ContentSound
    <3>2. CASE /\ x.kind \in {"Directory", "File"}
               /\ x.ext \in loc[t].held \cup {None}
               /\ x.ext = None => x.kind = "Directory"
               /\ x.ext # None => disk[x.ext].form = FormOf(x.kind)
               /\ loc'[t].held = (loc[t].held \cup {inodes[i].ext}) \ {x.ext, None}
      BY <1>3, <1>4, <1>8, <3>2
    <3> QED BY <3>1, <3>2
  <2>3. ASSUME NEW j \in Sound'
        PROVE  /\ inodes'[j].ext = None => inodes'[j].kind = "Directory"
               /\ inodes'[j].ext # None =>
                    /\ inodes'[j].ext \in used' \ (lost' \cup Held')
                    /\ disk'[inodes'[j].ext].form = FormOf(inodes'[j].kind)
                    /\ \A k \in Sound' \ {j} : inodes'[k].ext # inodes'[j].ext
               /\ inodes'[j].nlink >= 1
               /\ inodes'[j].kind # "File" => inodes'[j].nlink = 1
               /\ inodes'[j].kind = "Symlink" => "symlink" \in Ops
               /\ inodes'[j].kind = "Hardlink" => "hardlink" \in Ops
    <3>1. \A k \in Sound \ {i} : inodes'[k] = inodes[k]
      BY <1>1, Inside
    <3>2. CASE j = i
      BY <1>1, <1>2, <2>2, <3>1, <3>2
    <3>3. CASE j # i
      BY <1>1, <1>2, <2>1, <3>1, <3>3
    <3> QED BY <3>2, <3>3
  <2> QED BY <2>3 DEF ContentSound
<1>11. ExtentsAccounted'
  <2>1. lost' \cup Held' \subseteq used' /\ lost' \cap Held' = {}
    BY <1>2, <1>3, <1>4, <1>9
  <2>2. \A u, v \in Tasks : u # v => loc'[u].held \cap loc'[v].held = {}
    <3>1. \A u \in Tasks \ {t} : loc'[u].held = loc[u].held /\ loc[u].held \subseteq HeldElse(t)
      BY <1>2 DEF Others, HeldElse
    <3>2. loc'[t].held \cap HeldElse(t) = {}
      BY <1>3, <1>4, <1>9
    <3>3. \A u, v \in Tasks \ {t} : u # v => loc[u].held \cap loc[v].held = {}
      BY DEF Consistent, Shared, ExtentsAccounted
    <3> QED BY <3>1, <3>2, <3>3
  <2>3. used' \subseteq lost' \cup Held' \cup {inodes'[j].ext : j \in Sound'}
    <3>1. \A f \in used : f \in lost \cup Held \/ \E j \in Sound : f = inodes[j].ext
      BY DEF Consistent, Shared, ExtentsAccounted
    <3>2. ASSUME NEW f \in used
          PROVE  f \in lost \cup Held' \/ \E j \in Sound : f = inodes'[j].ext
      <4>1. CASE f \in loc[t].held
        BY <1>1, <1>3, <1>4, <4>1
      <4>2. CASE f \in lost \cup HeldElse(t)
        BY <1>3, <4>2
      <4>3. CASE f = inodes[i].ext
        BY <1>1, <1>3, <1>4, <4>3
      <4>4. ASSUME NEW j \in Sound \ {i}, f = inodes[j].ext
            PROVE  \E k \in Sound : f = inodes'[k].ext
        BY <1>1, <4>4, Inside
      <4> QED BY <1>3, <3>1, <4>1, <4>2, <4>3, <4>4
    <3> QED BY <1>1, <1>2, <3>2
  <2> QED BY <2>1, <2>2, <2>3 DEF ExtentsAccounted
<1>12. BornOwned(own)'
  <2>1. \A u \in Tasks : loc'[u].born \subseteq loc[u].born
    BY <1>2 DEF Others
  <2>2. ASSUME {"hardlink", "unlink"} \subseteq Ops, NEW j \in orphans, NEW u \in Tasks,
               own[j] = u
        PROVE  pc'[u] = "idle"
    <3>1. pc[u] = "idle"
      BY <2>2 DEF Consistent, Shared, BornOwned
    <3> QED BY <1>2, <2>2, <3>1 DEF Others
  <2>3. \A j \in orphans \cup Born' : j \in orphans \cup Born /\ j \in INumbers \ {i}
    <3>1. Born' \subseteq Born /\ i \notin orphans \cup Born
      BY <1>2, <1>3 DEF Counted
    <3>2. orphans \cup Born \subseteq Sound
      BY DEF Born, Consistent, Shared, BornOwned
    <3> QED BY <3>1, <3>2, Inside
  <2>4. \A j \in orphans \cup Born' : EntriesOf(j)' = {}
    BY <2>3, RegisterFrame DEF Consistent, Shared, BornOwned
  <2>5. \A u \in Tasks : \A j \in loc'[u].born : j \in Sound' /\ own[j] = u
    BY <1>1, <2>1 DEF Consistent, Shared, BornOwned
  <2>6. orphans' \subseteq Sound' /\ orphans' \cap Born' = {}
    <3>1. orphans \subseteq Sound /\ orphans \cap Born = {} /\ Born' \subseteq Born
      BY <1>2, <1>3 DEF Consistent, Shared, BornOwned
    <3> QED BY <1>1, <1>2, <3>1
  <2>7. \A j \in orphans' \cup Born' : EntriesOf(j)' = {}
    BY <1>2, <2>4
  <2>8. {"hardlink", "unlink"} \subseteq Ops =>
          \A j \in orphans' : \A u \in Tasks : own[j] = u => pc'[u] = "idle"
    BY <1>2, <2>2
  <2> QED BY <2>5, <2>6, <2>7, <2>8 DEF BornOwned
<1>13. Guarded'
  BY <1>2, GuardKept DEF Registers
<1>14. \A u \in Tasks : TaskSound(own, u)'
  BY <1>1, AllSound
<1> QED BY <1>5, <1>6, <1>7, <1>10, <1>11, <1>12, <1>13, <1>14 DEF Consistent, Shared

-----------------------------------------------------------------------------
(* Which paths an operation may name.                                      *)

LEMMA ExtraIsNext ==
  ASSUME NEW own \in Owners, NEW t \in Tasks, NEW i, own[i] = t
  PROVE  Extra(own, i)' = (IF Surplus(own, t, i)' THEN 1 ELSE 0)
  BY DEF Extra

(* Paths that a task names begin in its directory.                         *)
LEMMA PathsHomely ==
  ASSUME NEW own \in Owners, Consistent(own), NEW t \in Tasks, NEW p \in PathsOf(t)
  PROVE  Homely(own, t, p) /\ Homely(own, t, ParentOf(p))
<1>1. CASE own[Root] = t
  BY <1>1 DEF Homely
<1>2. CASE own[Root] # t
  <2>1. PICK k \in DOMAIN Made : Home[t] = <<Made[k]>> /\ own[k + 1] = t
    BY <1>2 DEF Consistent, Shared, RootOwned
  <2>2. Len(p) > 1 /\ SubSeq(p, 1, 1) = <<Made[k]>> /\ p \in Seq(Names) /\ p # <<>>
    <3>1. Len(Home[t]) = 1
      BY <2>1
    <3> QED BY <2>1, <3>1, PathTypes DEF PathsOf
  <2>3. p[1] = Made[k] /\ Head(p) = Made[k]
    <3>1. PICK s : s = SubSeq(p, 1, 1)
      OBVIOUS
    <3>2. s[1] = p[1]
      BY <2>2, <3>1
    <3>3. s[1] = Made[k]
      <4>1. s = <<Made[k]>>
        BY <2>2, <3>1
      <4> HIDE <3>1
      <4> QED BY ONLY <4>1
    <3>4. Head(p) = p[1]
      BY <2>2
    <3> QED BY <3>2, <3>3, <3>4
  <2>4. ParentOf(p) # <<>> /\ Head(ParentOf(p)) = p[1]
    <3>1. Len(ParentOf(p)) = Len(p) - 1 /\ ParentOf(p)[1] = p[1] /\ ParentOf(p) \in Seq(Names)
      BY <2>2, NonEmptySequence
    <3> QED BY <2>2, <3>1
  <2> QED BY <2>1, <2>2, <2>3, <2>4 DEF Homely
<1> QED BY <1>1, <1>2

LEMMA GivenKept ==
  ASSUME NEW t \in Tasks, Given(t), pc[t] # "idle", op'[t] = op[t],
         loc'[t].path = loc[t].path, loc'[t].dest = loc[t].dest,
         loc'[t].body = loc[t].body
  PROVE  Given(t)'
  BY DEF Given, PathsOf, Paths

-----------------------------------------------------------------------------
(* An inode is allocated, and registered for the first time. It is free    *)
(* until then, and the guard keeps others from choosing it; it belongs to  *)
(* t from then on and is in no directory yet.                              *)

LEMMA EmptiedInside ==
  ASSUME Typed, NEW own \in Owners, Consistent(own)
  PROVE  /\ Emptied \subseteq bits
         /\ \A u \in Tasks : pc[u] = "clear" =>
              /\ op[u] = "unlink" /\ Removing(u) /\ Unlinking(own, u)
              /\ loc[u].child.inumber \in bits /\ own[loc[u].child.inumber] = u
<1>1. ASSUME NEW u \in Tasks, pc[u] = "clear"
      PROVE  /\ op[u] = "unlink" /\ Removing(u) /\ Unlinking(own, u)
             /\ loc[u].child.inumber \in bits /\ own[loc[u].child.inumber] = u
  <2>1. op[u] = "unlink" /\ Removing(u)
    BY <1>1 DEF Removing, Deleting, Typed, Placed
  <2>2. Unlinking(own, u)
    BY <2>1 DEF Consistent, TaskSound
  <2> QED BY <1>1, <2>1, <2>2 DEF Unlinking
<1> QED BY <1>1 DEF Emptied

(* An inode is allocated for t, under its guard.                           *)
Bears(own, own2, t, i, r) ==
  /\ r \in Locals /\ i \in INumbers \ bits
  /\ own2 = [own EXCEPT ![i] = t]
  /\ r = [loc[t] EXCEPT !.child = NewINode(t),
                        !.dir = With(loc[t].dir, NewName(t), i),
                        !.held = {}, !.born = {i}]
  /\ bits' = bits \cup {i} /\ inodes' = [inodes EXCEPT ![i] = NewINode(t)]
  /\ loc[t].inum = i /\ NewINode(t).inumber = i /\ NewINode(t).nlink = 1
  /\ NewINode(t).kind = KindOf(op[t]) /\ NewINode(t).ext = loc[t].child.ext
  /\ NewINode(t) \in INode
  /\ loc[t].held = {loc[t].child.ext} \ {None} /\ loc[t].born = {}
  /\ guard = t /\ guard' = NoTask
  /\ pc[t] = "born" /\ pc'[t] = "rewrite" /\ loc'[t] = r /\ op'[t] = op[t]
  /\ op[t] \in Creating /\ Making(own, t) /\ Given(t)
  /\ Others(t) /\ UNCHANGED <<used, disk, lost, orphans>>

LEMMA BearsWhen ==
  ASSUME Typed, Typed', NEW own \in Owners, Consistent(own), NEW t \in Tasks,
         BornInode(t), Intact'
  PROVE  \E own2 \in Owners : \E i, r : Bears(own, own2, t, i, r)
<1>1. PICK i : i = loc[t].inum
  OBVIOUS
<1>2. PICK r \in Locals :
              /\ r = [loc[t] EXCEPT !.child = NewINode(t),
                                    !.dir = With(loc[t].dir, TheName(t), i),
                                    !.held = loc[t].held \ {NewINode(t).ext},
                                    !.born = {i}]
              /\ Moves(t, "rewrite", r)
              /\ inodes' = [inodes EXCEPT ![i] = NewINode(t)]
              /\ WriteBitmap(i, loc[t].snap \cup {i})
              /\ Clobber(t, i)
              /\ guard' = NoTask
              /\ UNCHANGED <<used, disk, op, lost, orphans, doomed, crashes>>
  BY <1>1, BornInodeSteps
<1>3. bits' = bits \cup {i}
  BY <1>2, WrittenBitmap DEF Intact
<1>4. pc[t] = "born" /\ Making(own, t) /\ Given(t)
  BY DEF BornInode, Consistent, TaskSound
<1>5. i \in INumbers \ bits /\ loc[t].born = {}
  BY <1>1, <1>4 DEF Making
<1>6. loc[t].held = {loc[t].child.ext} \ {None}
  BY <1>4 DEF Making
<1>7. NewINode(t).ext = loc[t].child.ext /\ NewINode(t).inumber = i
      /\ NewINode(t).nlink = 1 /\ NewINode(t).kind = KindOf(op[t])
  BY <1>1 DEF NewINode
<1>8. loc[t].held \ {NewINode(t).ext} = {}
  BY <1>6, <1>7
<1>9. NewINode(t) \in INode /\ op[t] \in Creating
  BY <1>4, NewTyped
<1>10. guard = t
  BY <1>4 DEF Consistent, Shared, Guarded
<1>11. pc'[t] = "rewrite" /\ loc'[t] = r /\ Others(t) /\ op'[t] = op[t]
  <2>1. "rewrite" \in PCs
    BY DEF PCs
  <2> QED BY <1>2, <2>1, MovesFacts DEF Others, Typed
<1>12. [own EXCEPT ![i] = t] \in Owners
  BY DEF Owners
<1>13. NewName(t) = TheName(t)
  BY DEF NewName, TheName
<1> QED BY <1>1, <1>2, <1>3, <1>4, <1>5, <1>6, <1>7, <1>8, <1>9, <1>10, <1>11, <1>12, <1>13 DEF Bears

(* What an inode born changes, and what not.                               *)
LEMMA BearsFrame ==
  ASSUME Typed, Typed', NEW own \in Owners, Consistent(own), NEW t \in Tasks,
         NEW own2 \in Owners, NEW i, NEW r, Bears(own, own2, t, i, r)
  PROVE  /\ i \notin Sound /\ Sound' = Sound \cup {i} /\ Counted' = Counted
         /\ Born = BornElse(t) /\ Born' = BornElse(t) \cup {i}
         /\ Held = loc[t].held \cup HeldElse(t) /\ Held' = HeldElse(t)
         /\ own2[i] = t /\ \A j \in INumbers \ {i} : own2[j] = own[j]
         /\ inodes'[i] = NewINode(t) /\ \A j \in INumbers \ {i} : inodes'[j] = inodes[j]
         /\ \A e : Bytes(e)' = Bytes(e)
         /\ \A j \in INumbers \ {i} : EntriesOf(j)' = EntriesOf(j) /\ TargetOf(j)' = TargetOf(j)
         /\ r.child = NewINode(t) /\ r.dir = With(loc[t].dir, NewName(t), i)
         /\ r.held = {} /\ r.born = {i} /\ r.doomed = loc[t].doomed
         /\ r.parent = loc[t].parent /\ r.target = loc[t].target /\ r.path = loc[t].path
         /\ r.dest = loc[t].dest /\ r.body = loc[t].body /\ r.rest = loc[t].rest
         /\ r.dparent = loc[t].dparent /\ r.dput = loc[t].dput
<1>1. /\ r.child = NewINode(t) /\ r.dir = With(loc[t].dir, NewName(t), i)
      /\ r.held = {} /\ r.born = {i} /\ r.doomed = loc[t].doomed
      /\ r.parent = loc[t].parent /\ r.target = loc[t].target /\ r.path = loc[t].path
      /\ r.dest = loc[t].dest /\ r.body = loc[t].body /\ r.rest = loc[t].rest
      /\ r.dparent = loc[t].dparent /\ r.dput = loc[t].dput
  BY LocalsTyped DEF Locals, Typed, Bears
<1>2. i \notin Sound
  BY DEF Sound, Bears
<1>3. i \notin Emptied
  BY EmptiedInside DEF Bears
<1>4. /\ Held = loc[t].held \cup HeldElse(t) /\ Held' = HeldElse(t)
      /\ Born = BornElse(t) /\ Born' = BornElse(t) \cup {i}
      /\ Emptied' = Emptied
  <2>1. /\ loc'[t].held = {} /\ loc'[t].born = {i} /\ loc[t].born = {}
        /\ Clears(t) = {} /\ Clears(t)' = {} /\ Others(t)
    BY <1>1 DEF Clears, Bears
  <2>2. /\ Held = loc[t].held \cup HeldElse(t) /\ Held' = HeldElse(t)
    BY <2>1, Parts, PartsNext
  <2>3. /\ Born = BornElse(t) /\ Born' = BornElse(t) \cup {i}
    BY <2>1, Parts, PartsNext
  <2>4. Emptied' = Emptied
    BY <2>1, Parts, PartsNext
  <2> QED BY <2>2, <2>3, <2>4
<1>5. Sound' = Sound \cup {i}
  BY <1>3, <1>4 DEF Sound, Bears
<1>6. Counted' = Counted
  BY <1>2, <1>4, <1>5 DEF Counted, Bears
<1>7. own2[i] = t /\ \A j \in INumbers \ {i} : own2[j] = own[j]
  BY DEF Owners, Bears
<1>8. inodes'[i] = NewINode(t) /\ \A j \in INumbers \ {i} : inodes'[j] = inodes[j]
  BY DEF Bears, Typed, StateTyped
<1>9. \A e : Bytes(e)' = Bytes(e)
  BY DEF Bytes, Bears
<1>10. \A j \in INumbers \ {i} : EntriesOf(j)' = EntriesOf(j) /\ TargetOf(j)' = TargetOf(j)
  BY <1>8 DEF EntriesOf, TargetOf, Bytes, Bears
<1> QED BY <1>1, <1>2, <1>4, <1>5, <1>6, <1>7, <1>8, <1>9, <1>10

LEMMA BearsConfined ==
  ASSUME Typed, Typed', NEW own \in Owners, Consistent(own), NEW t \in Tasks,
         NEW own2 \in Owners, NEW i, NEW r, Bears(own, own2, t, i, r)
  PROVE  Confined(own, own2, t)
<1>1. /\ i \notin Sound /\ Sound' = Sound \cup {i} /\ Counted' = Counted
      /\ own2[i] = t /\ \A j \in INumbers \ {i} : own2[j] = own[j]
      /\ \A j \in INumbers \ {i} : inodes'[j] = inodes[j]
  BY BearsFrame
<1>2. /\ Others(t) /\ disk' = disk /\ bits' = bits \cup {i} /\ guard = t
      /\ i \in INumbers \ bits
  BY DEF Bears
<1>3. \A j \in Sound : own2[j] = own[j] /\ inodes'[j] = inodes[j]
  BY <1>1, Inside
<1>4. ASSUME NEW u \in Tasks \ {t}
      PROVE  /\ pc[u] # "born"
             /\ pc[u] = "clear" => loc[u].child.inumber \in bits
  BY <1>2 DEF Consistent, Shared, Guarded, TaskSound, Unlinking, Removing, Deleting, Typed, Placed
<1>5. ASSUME NEW u \in Tasks \ {t}, pc[u] = "clear"
      PROVE  /\ loc[u].child.inumber \in bits'
             /\ own2[loc[u].child.inumber] = own[loc[u].child.inumber]
  BY <1>1, <1>2, <1>4, <1>5, Inside
<1> QED BY <1>1, <1>2, <1>3, <1>4, <1>5 DEF Confined

-----------------------------------------------------------------------------
(* The task that bears an inode goes on to enter it in its directory.      *)

LEMMA BearsTask ==
  ASSUME Typed, Typed', NEW own \in Owners, Consistent(own), NEW t \in Tasks,
         NEW own2 \in Owners, NEW i, NEW r, Bears(own, own2, t, i, r)
  PROVE  /\ TaskSound(own2, t)'
         /\ EntriesOf(i)' = {} /\ NodeSound(own2, i)'
<1>1. /\ i \notin Sound /\ Sound' = Sound \cup {i} /\ Counted' = Counted
      /\ own2[i] = t /\ \A j \in INumbers \ {i} : own2[j] = own[j]
      /\ inodes'[i] = NewINode(t) /\ \A j \in INumbers \ {i} : inodes'[j] = inodes[j]
      /\ \A e : Bytes(e)' = Bytes(e)
      /\ \A j \in INumbers \ {i} : EntriesOf(j)' = EntriesOf(j) /\ TargetOf(j)' = TargetOf(j)
  BY BearsFrame
<1>2. /\ r.child = NewINode(t) /\ r.dir = With(loc[t].dir, NewName(t), i)
      /\ r.held = {} /\ r.born = {i} /\ r.doomed = loc[t].doomed
      /\ r.parent = loc[t].parent /\ r.target = loc[t].target /\ r.path = loc[t].path
      /\ r.dest = loc[t].dest /\ r.body = loc[t].body /\ r.rest = loc[t].rest
      /\ r.dparent = loc[t].dparent /\ r.dput = loc[t].dput
  BY BearsFrame
<1>3. /\ pc[t] = "born" /\ pc'[t] = "rewrite" /\ loc'[t] = r /\ op'[t] = op[t]
      /\ op[t] \in Creating /\ Making(own, t) /\ Given(t)
      /\ NewINode(t).inumber = i /\ NewINode(t).nlink = 1
      /\ NewINode(t).kind = KindOf(op[t]) /\ NewINode(t).ext = loc[t].child.ext
      /\ disk' = disk /\ i \in INumbers \ bits
  BY DEF Bears
<1>4. \A j \in Counted : j # i /\ j \in INumbers /\ own2[j] = own[j] /\ inodes'[j] = inodes[j]
                         /\ EntriesOf(j)' = EntriesOf(j) /\ TargetOf(j)' = TargetOf(j)
  BY <1>1, Inside
<1>5. \A x : Copy(own, t, x) => Copy(own2, t, x)'
  BY <1>1, <1>4 DEF Copy
<1>6. TargetSound(own, t) /\ (op[t] = "hardlink" =>
        Copy(own, t, loc[t].target) /\ loc[t].target.kind = "File")
  BY <1>3 DEF Making, TargetSound
<1>7. TargetSound(own2, t)'
  BY <1>2, <1>3, <1>5, <1>6 DEF TargetSound, Copy
<1>8. PICK p : p = loc[t].parent.inumber
  OBVIOUS
<1>9. /\ Copy(own, t, loc[t].parent) /\ loc[t].parent.kind = "Directory"
      /\ p \in Counted /\ EntriesOf(p)' = EntriesOf(p)
  BY <1>3, <1>4, <1>8 DEF Making, Folder, Copy
<1>10. Folder(own2, t, loc[t].parent)'
  BY <1>2, <1>3, <1>5, <1>9 DEF Folder, Copy
<1>11. Source(t)' = Source(t) /\ NewName(t)' = NewName(t)
  <2>1. Source(t)' = EntriesOf(p)'
    BY <1>2, <1>3, <1>8 DEF Source
  <2> QED BY <1>2, <1>3, <1>8, <1>9, <2>1 DEF Source, NewName
<1>12. /\ Alone(t) /\ loc[t].dir = Source(t) /\ ~Binds(Source(t), NewName(t))
       /\ loc[t].doomed = {}
  BY <1>3 DEF Making
<1>13. op[t] = "hardlink" => TargetOf(i)' = loc[t].target.inumber
  <2>1. TargetOf(i)' = Bytes(NewINode(t).ext)
                         .target
    BY <1>1 DEF TargetOf, Bytes
  <2>2. op[t] = "hardlink" => /\ loc[t].child.ext # None
                              /\ disk[loc[t].child.ext].target = loc[t].target.inumber
    BY <1>3 DEF Making
  <2> QED BY <1>3, <2>1, <2>2 DEF Bytes
<1>14. Entering(own2, t)'
  <2>1. Editing(own2, t)'
    BY <1>3, <1>10 DEF Editing
  <2>2. loc'[t].doomed = {} /\ Alone(t)'
    BY <1>2, <1>3, <1>12 DEF Alone
  <2>3. loc'[t].child.inumber = i /\ loc'[t].child = inodes'[i]
    BY <1>1, <1>2, <1>3
  <2>4. inodes'[i].kind = KindOf(op'[t]) /\ inodes'[i].nlink = 1
    BY <1>1, <1>3
  <2>5. op'[t] = "hardlink" => TargetOf(i)' = loc'[t].target.inumber
    BY <1>2, <1>3, <1>13
  <2>6. ~Binds(Source(t)', NewName(t)') /\ loc'[t].dir = With(Source(t)', NewName(t)', i)
    BY <1>2, <1>3, <1>11, <1>12
  <2>7. TargetOf(loc[t].child.inumber)' = TargetOf(i)'
    BY <2>3 DEF TargetOf, Bytes
  <2> QED BY <1>2, <1>3, <1>7, <2>1, <2>2, <2>3, <2>4, <2>5, <2>6, <2>7 DEF Entering
<1>15. Given(t)'
  BY <1>2, <1>3, GivenKept
<1>16. TaskSound(own2, t)'
  BY <1>3, <1>14, <1>15 DEF TaskSound, Walks, Removing, Creating, Linking
<1>17. EntriesOf(i)' = {}
  <2>1. CASE op[t] = "mkdir"
    <3>1. loc[t].child.ext = None
      BY <1>3, <2>1 DEF Making
    <3> QED BY <1>1, <1>3, <3>1 DEF EntriesOf, Bytes, Blank
  <2>2. CASE op[t] # "mkdir"
    <3>1. KindOf(op[t]) # "Directory"
      BY <1>3, <2>2 DEF KindOf, Creating, Linking
    <3> QED BY <1>1, <1>3, <3>1 DEF EntriesOf
  <2> QED BY <2>1, <2>2
<1>18. DirectorySound(own2, i)'
  BY <1>17, FS_EmptySet DEF DirectorySound
<1>19. HardlinkSound(own2, i)'
  <2>1. CASE op[t] = "hardlink"
    <3>1. PICK y : y = loc[t].target.inumber
      OBVIOUS
    <3>2. /\ y \in Counted /\ own[y] = t /\ inodes[y].kind = "File"
      BY <1>6, <2>1, <3>1 DEF Copy
    <3>3. y # Root
      BY <3>2 DEF Consistent, Shared, RootStands
    <3>4. Leads(own2, i, y)' /\ inodes'[y].kind = "File"
      BY <1>1, <1>4, <3>2, <3>3 DEF Leads
    <3>5. TargetOf(i)' = y
      BY <1>13, <2>1, <3>1
    <3>6. (Leads(own2, i, TargetOf(i)) /\ inodes[TargetOf(i)].kind = "File")'
      BY <3>4, <3>5 DEF Leads
    <3> QED BY <1>1, <3>6 DEF HardlinkSound
  <2>2. CASE op[t] # "hardlink"
    <3>1. KindOf(op[t]) # "Hardlink"
      BY <1>3, <2>2 DEF KindOf, Creating, Linking
    <3> QED BY <1>1, <1>3, <3>1 DEF HardlinkSound
  <2> QED BY <2>1, <2>2
<1>20. SymlinkSound(own2, i)'
  <2>1. CASE op[t] = "symlink"
    <3>1. disk[loc[t].child.ext].path = loc[t].dest /\ loc[t].dest \in PathsOf(t)
      BY <1>3, <2>1 DEF Making, Given
    <3>2. Homely(own2, t, loc[t].dest)
      BY <3>1, PathsHomely, HomelyKept, BearsConfined
    <3> QED BY <1>1, <1>3, <3>1, <3>2 DEF SymlinkSound, Homely
  <2>2. CASE op[t] # "symlink"
    <3>1. KindOf(op[t]) # "Symlink"
      BY <1>3, <2>2 DEF KindOf, Creating, Linking
    <3> QED BY <1>1, <1>3, <3>1 DEF SymlinkSound
  <2> QED BY <2>1, <2>2
<1> QED BY <1>16, <1>17, <1>18, <1>19, <1>20 DEF NodeSound

-----------------------------------------------------------------------------
(* Counts, directories and extents when an inode is born.                  *)

LEMMA BearsCounts ==
  ASSUME Typed, Typed', NEW own \in Owners, Consistent(own), NEW t \in Tasks,
         NEW own2 \in Owners, NEW i, NEW r, Bears(own, own2, t, i, r)
  PROVE  CountsRight(own2)'
<1>1. /\ i \notin Sound /\ Sound' = Sound \cup {i} /\ Counted' = Counted
      /\ \A j \in INumbers \ {i} : own2[j] = own[j] /\ inodes'[j] = inodes[j]
      /\ \A j \in INumbers \ {i} : EntriesOf(j)' = EntriesOf(j) /\ TargetOf(j)' = TargetOf(j)
      /\ Confined(own, own2, t)
  BY BearsFrame, BearsConfined
<1>2. /\ pc[t] = "born" /\ pc'[t] = "rewrite" /\ op'[t] = op[t] /\ op[t] \in Creating
  BY DEF Bears
<1>3. ASSUME Countable, NEW k \in Counted \ {Root}, own2[k] = t
      PROVE  CountRight(own2, k)'
  <2>1. \A j \in Counted : /\ j # i /\ j \in INumbers
    BY <1>1, Inside
  <2>2. CountRight(own, k) /\ own[k] = t /\ inodes'[k] = inodes[k]
    BY <1>1, <1>3, <2>1 DEF Consistent, Shared, CountsRight, CountRight
  <2>3. EntryRefs(own2, k)' = EntryRefs(own, k) /\ LinkRefs(own2, k)' = LinkRefs(own, k)
    BY <1>1, <1>3, <2>1, RefsSame
  <2>4. ~Surplus(own, t, k) /\ ~Surplus(own2, t, k)'
    BY <1>2 DEF Surplus, Removing, Creating, Linking
  <2>5. Extra(own, k) = 0
    BY <2>2, <2>4, ExtraIs
  <2>6. Extra(own2, k)' = 0
    BY <1>3, <2>4, ExtraIsNext
  <2> QED BY <2>2, <2>3, <2>5, <2>6 DEF CountRight
<1> QED BY <1>1, <1>3, CountsKept

LEMMA BearsNodes ==
  ASSUME Typed, Typed', NEW own \in Owners, Consistent(own), NEW t \in Tasks,
         NEW own2 \in Owners, NEW i, NEW r, Bears(own, own2, t, i, r)
  PROVE  NodesSound(own2)'
<1>1. /\ i \notin Sound /\ Sound' = Sound \cup {i} /\ Counted' = Counted
      /\ \A j \in INumbers \ {i} : own2[j] = own[j] /\ inodes'[j] = inodes[j]
      /\ Confined(own, own2, t) /\ NodeSound(own2, i)'
  BY BearsFrame, BearsConfined, BearsTask
<1>2. /\ pc[t] = "born" /\ pc'[t] = "rewrite" /\ op'[t] = op[t] /\ op[t] \in Creating
      /\ disk' = disk
  BY DEF Bears
<1>3. Even(t)
  BY <1>2 DEF Even, Removing, Creating, Linking
<1>4. /\ \A k, e : ~Excused(t, k, e)
      /\ \A k : ~ExcusedLink(own, t, k)
  BY <1>3, EvenAside
<1>5. PICK X : X = {i}
  OBVIOUS
<1>6. \A k \in Sound : k # i /\ k \in INumbers /\ inodes'[k] = inodes[k]
  BY <1>1, Inside
<1>7. NodesMove(own, own2, t, X)
  BY <1>1, <1>2, <1>4, <1>5, <1>6 DEF NodesMove, Leads
<1> QED BY <1>1, <1>7, NodesKept

LEMMA BearsStorage ==
  ASSUME Typed, Typed', NEW own \in Owners, Consistent(own), NEW t \in Tasks,
         NEW own2 \in Owners, NEW i, NEW r, Bears(own, own2, t, i, r)
  PROVE  ContentSound' /\ ExtentsAccounted'
<1>1. /\ i \notin Sound /\ Sound' = Sound \cup {i}
      /\ Held = loc[t].held \cup HeldElse(t) /\ Held' = HeldElse(t)
      /\ inodes'[i] = NewINode(t) /\ \A j \in INumbers \ {i} : inodes'[j] = inodes[j]
      /\ r.held = {}
  BY BearsFrame
<1>2. /\ op[t] \in Creating /\ Making(own, t) /\ Given(t)
      /\ NewINode(t).inumber = i /\ NewINode(t).nlink = 1
      /\ NewINode(t).kind = KindOf(op[t]) /\ NewINode(t).ext = loc[t].child.ext
      /\ UNCHANGED <<used, disk, lost>> /\ loc'[t] = r /\ Others(t) /\ pc[t] = "born"
      /\ loc[t].held = {loc[t].child.ext} \ {None}
  BY DEF Bears
<1>3. PICK f : f = loc[t].child.ext
  OBVIOUS
<1>4. /\ op[t] = "mkdir" <=> f = None
      /\ f # None => disk[f].form = FormOf(KindOf(op[t]))
  BY <1>2, <1>3 DEF Making
<1>5. loc[t].held \cap HeldElse(t) = {}
  BY DEF HeldElse, Consistent, Shared, ExtentsAccounted
<1>6. f # None => f \in used /\ f \notin lost \cup HeldElse(t) /\ f \in Held
  <2>1. f # None => f \in loc[t].held
    BY <1>2, <1>3
  <2> QED BY <1>1, <1>5, <2>1 DEF Consistent, Shared, ExtentsAccounted
<1>7. \A j \in Sound : j # i /\ j \in INumbers /\ inodes'[j] = inodes[j]
  BY <1>1, Inside
<1>8. ContentSound'
  <2>1. ASSUME NEW j \in Sound
        PROVE  /\ inodes'[j].ext = None => inodes'[j].kind = "Directory"
               /\ inodes'[j].ext # None =>
                    /\ inodes'[j].ext \in used' \ (lost' \cup Held')
                    /\ disk'[inodes'[j].ext].form = FormOf(inodes'[j].kind)
                    /\ inodes'[j].ext # f
                    /\ \A k \in Sound \ {j} : inodes'[k].ext # inodes'[j].ext
               /\ inodes'[j].nlink >= 1
               /\ inodes'[j].kind # "File" => inodes'[j].nlink = 1
               /\ inodes'[j].kind = "Symlink" => "symlink" \in Ops
               /\ inodes'[j].kind = "Hardlink" => "hardlink" \in Ops
    <3>1. inodes'[j] = inodes[j] /\ \A k \in Sound : inodes'[k] = inodes[k]
      BY <1>7
    <3>2. inodes[j].ext # None => /\ inodes[j].ext \in used' \ (lost' \cup Held')
                                  /\ inodes[j].ext # f
      BY <1>1, <1>2, <1>6 DEF Consistent, Shared, ContentSound
    <3> QED BY <1>2, <3>1, <3>2 DEF Consistent, Shared, ContentSound
  <2>2. /\ f = None => inodes'[i].kind = "Directory"
        /\ f # None => f \in used' \ (lost' \cup Held')
        /\ f # None => disk'[f].form = FormOf(inodes'[i].kind)
        /\ inodes'[i].kind = "Symlink" => "symlink" \in Ops
        /\ inodes'[i].kind = "Hardlink" => "hardlink" \in Ops
    <3>1. inodes'[i].kind = KindOf(op[t])
      BY <1>1, <1>2
    <3>2. op[t] \in Ops
      BY <1>2 DEF Given
    <3>3. /\ f = None => KindOf(op[t]) = "Directory"
          /\ KindOf(op[t]) = "Symlink" => "symlink" \in Ops
          /\ KindOf(op[t]) = "Hardlink" => "hardlink" \in Ops
      BY <1>2, <1>4, <3>2 DEF KindOf, Creating, Linking
    <3> QED BY <1>1, <1>2, <1>4, <1>6, <3>1, <3>3
  <2>3. inodes'[i].ext = f /\ inodes'[i].nlink = 1
    BY <1>1, <1>2, <1>3
  <2>4. ASSUME NEW j \in Sound'
        PROVE  /\ inodes'[j].ext = None => inodes'[j].kind = "Directory"
               /\ inodes'[j].ext # None =>
                    /\ inodes'[j].ext \in used' \ (lost' \cup Held')
                    /\ disk'[inodes'[j].ext].form = FormOf(inodes'[j].kind)
                    /\ \A k \in Sound' \ {j} : inodes'[k].ext # inodes'[j].ext
               /\ inodes'[j].nlink >= 1
               /\ inodes'[j].kind # "File" => inodes'[j].nlink = 1
               /\ inodes'[j].kind = "Symlink" => "symlink" \in Ops
               /\ inodes'[j].kind = "Hardlink" => "hardlink" \in Ops
    <3>1. CASE j = i
      BY <1>1, <2>1, <2>2, <2>3, <3>1
    <3>2. CASE j # i
      BY <1>1, <2>1, <2>3, <3>2
    <3> QED BY <3>1, <3>2
  <2> QED BY <2>4 DEF ContentSound
<1>9. ExtentsAccounted'
  <2>1. lost' \cup Held' \subseteq used' /\ lost' \cap Held' = {}
    BY <1>1, <1>2 DEF Consistent, Shared, ExtentsAccounted
  <2>2. \A u, v \in Tasks : u # v => loc'[u].held \cap loc'[v].held = {}
    BY <1>1, <1>2 DEF Others, Consistent, Shared, ExtentsAccounted
  <2>3. used' \subseteq lost' \cup Held' \cup {inodes'[j].ext : j \in Sound'}
    <3>1. \A g \in used : g \in lost \cup Held \/ \E j \in Sound : g = inodes[j].ext
      BY DEF Consistent, Shared, ExtentsAccounted
    <3>2. ASSUME NEW g \in used
          PROVE  g \in lost \cup Held' \/ \E j \in Sound' : g = inodes'[j].ext
      <4>1. CASE g \in loc[t].held
        BY <1>1, <1>2, <4>1
      <4>2. CASE g \in lost \cup HeldElse(t)
        BY <1>1, <4>2
      <4>3. CASE \E j \in Sound : g = inodes[j].ext
        BY <1>1, <1>7, <4>3
      <4> QED BY <1>1, <3>1, <4>1, <4>2, <4>3
    <3> QED BY <1>2, <3>2
  <2> QED BY <2>1, <2>2, <2>3 DEF ExtentsAccounted
<1> QED BY <1>8, <1>9

(* An inode is born: the volume stays consistent.                          *)
LEMMA BornSound ==
  ASSUME Typed, Typed', NEW own \in Owners, Consistent(own), NEW t \in Tasks,
         BornInode(t), Intact'
  PROVE  \E own2 \in Owners : Consistent(own2)'
<1>0. PICK own2 \in Owners : \E i, r : Bears(own, own2, t, i, r)
  BY BearsWhen
<1>1. PICK i, r : Bears(own, own2, t, i, r)
  BY <1>0
<1>2. /\ i \notin Sound /\ Sound' = Sound \cup {i} /\ Counted' = Counted
      /\ Born = BornElse(t) /\ Born' = BornElse(t) \cup {i}
      /\ own2[i] = t /\ \A j \in INumbers \ {i} : own2[j] = own[j]
      /\ \A j \in INumbers \ {i} : inodes'[j] = inodes[j]
      /\ \A j \in INumbers \ {i} : EntriesOf(j)' = EntriesOf(j)
      /\ r.born = {i} /\ EntriesOf(i)' = {} /\ TaskSound(own2, t)'
      /\ Confined(own, own2, t)
  BY <1>1, BearsFrame, BearsTask, BearsConfined
<1>3. /\ loc'[t] = r /\ Others(t) /\ orphans' = orphans /\ pc[t] = "born"
      /\ pc'[t] = "rewrite" /\ guard = t /\ guard' = NoTask
  BY <1>1 DEF Bears
<1>4. \A j \in Sound : j # i /\ j \in INumbers /\ inodes'[j] = inodes[j] /\ own2[j] = own[j]
                       /\ EntriesOf(j)' = EntriesOf(j)
  BY <1>2, Inside
<1>5. RootStands' /\ RootOwned(own2)'
  <2>1. RootOwned(own2)'
    BY <1>2, RootKept
  <2> QED BY <1>2, <1>4, <2>1, Inside DEF Consistent, Shared, RootStands
<1>6. BornOwned(own2)'
  <2>1. ASSUME NEW u \in Tasks, NEW j \in loc'[u].born
        PROVE  j \in Sound' /\ own2[j] = u
    <3>1. CASE u = t
      BY <1>2, <1>3, <2>1, <3>1
    <3>2. CASE u # t
      <4>1. j \in loc[u].born
        BY <1>3, <2>1, <3>2 DEF Others
      <4> QED BY <1>2, <1>4, <4>1 DEF Consistent, Shared, BornOwned
    <3> QED BY <3>1, <3>2
  <2>2. orphans' \subseteq Sound' /\ orphans' \cap Born' = {}
    BY <1>2, <1>3 DEF Consistent, Shared, BornOwned
  <2>3. orphans \subseteq Sound /\ Born \subseteq Sound
    BY DEF Born, Consistent, Shared, BornOwned
  <2>4. \A j \in orphans' \cup Born' : EntriesOf(j)' = {}
    BY <1>2, <1>3, <1>4, <2>3 DEF Consistent, Shared, BornOwned
  <2>5. ASSUME {"hardlink", "unlink"} \subseteq Ops, NEW j \in orphans', NEW u \in Tasks,
               own2[j] = u
        PROVE  pc'[u] = "idle"
    <3>1. pc[u] = "idle"
      BY <1>3, <1>4, <2>3, <2>5 DEF Consistent, Shared, BornOwned
    <3> QED BY <1>3, <2>5, <3>1 DEF Others
  <2> QED BY <2>1, <2>2, <2>4, <2>5 DEF BornOwned
<1>7. Guarded'
  <2>1. NoTask \notin Tasks
    BY SharingAssumption
  <2> QED BY <1>3, <2>1 DEF Others, Consistent, Shared, Guarded
<1>8. \A u \in Tasks : TaskSound(own2, u)'
  BY <1>2, AllSound
<1>9. ContentSound' /\ ExtentsAccounted' /\ NodesSound(own2)' /\ CountsRight(own2)'
  BY <1>1, BearsStorage, BearsNodes, BearsCounts
<1> QED BY <1>5, <1>6, <1>7, <1>8, <1>9 DEF Consistent, Shared

-----------------------------------------------------------------------------
(* Walks. A path that begins in the directory of t stays in it, since what *)
(* the entries of a directory lead to is in the same one.                  *)

(* A step that leaves the sound inodes and their content as they are.      *)
Stays ==
  /\ Sound' = Sound /\ Counted' = Counted
  /\ \A i \in Sound :
       /\ inodes'[i] = inodes[i]
       /\ inodes[i].ext # None => disk'[inodes[i].ext] = disk[inodes[i].ext]

LEMMA StaysFacts ==
  ASSUME Typed, Stays, NEW own \in Owners, NEW t \in Tasks
  PROVE  /\ \A i \in Sound :
              /\ EntriesOf(i)' = EntriesOf(i) /\ TargetOf(i)' = TargetOf(i)
              /\ Removable(inodes[i])' <=> Removable(inodes[i])
         /\ \A x : Copy(own, t, x) => Copy(own, t, x)'
         /\ \A x : Folder(own, t, x) => Folder(own, t, x)'
<1>1. \A i \in Sound : i \in INumbers /\ i \in bits /\ i \in bits'
  BY Inside DEF Stays, Sound
<1>2. \A i \in Sound :
        /\ EntriesOf(i)' = EntriesOf(i) /\ TargetOf(i)' = TargetOf(i)
        /\ Removable(inodes[i])' <=> Removable(inodes[i])
  BY <1>1, ContentKept DEF Stays
<1>3. \A x : Copy(own, t, x) => Copy(own, t, x)'
  BY Inside DEF Stays, Copy
<1>4. \A x : Folder(own, t, x) => Folder(own, t, x)'
  BY <1>3 DEF Folder
<1> QED BY <1>2, <1>3, <1>4

(* No step of another task is under way in a directory of t.               *)
LEMMA NotExcused ==
  ASSUME NEW own \in Owners, Consistent(own), NEW t \in Tasks, ~Removing(t),
         NEW i, own[i] = t, NEW e
  PROVE  \A u \in Tasks : ~Excused(u, i, e)
<1>1. ASSUME NEW u \in Tasks, Excused(u, i, e) PROVE FALSE
  <2>1. Removing(u) /\ i = loc[u].parent.inumber
    BY <1>1 DEF Excused
  <2>2. own[i] = u
    BY <2>1 DEF Consistent, TaskSound, Unlinking, Editing, Folder, Copy
  <2> QED BY <2>1, <2>2
<1> QED BY <1>1

(* What can be read as a directory is one.                                 *)
LEMMA ReadsAsDirectory ==
  ASSUME Typed, NEW own \in Owners, Consistent(own), NEW t \in Tasks, NEW x,
         Copy(own, t, x)
  PROVE  /\ x.inumber \in INumbers /\ x.inumber \in Sound /\ x = inodes[x.inumber]
         /\ x.kind \in Kinds
         /\ x.kind # "Directory" => x.ext # None /\ Bytes(x.ext).form = FormOf(x.kind)
         /\ IsDirectory(Bytes(x.ext)) <=> x.kind = "Directory"
         /\ x.kind = "Directory" => Folder(own, t, x)
         /\ x.kind = "Directory" => Bytes(x.ext).entries = EntriesOf(x.inumber)
<1>1. /\ x.inumber \in INumbers /\ x.inumber \in Sound /\ x = inodes[x.inumber]
      /\ x.inumber \in bits
  BY Inside DEF Copy
<1>2. /\ x.ext = None => x.kind = "Directory"
      /\ x.ext # None => disk[x.ext].form = FormOf(x.kind)
  BY <1>1 DEF Consistent, Shared, ContentSound
<1>3. x.kind \in Kinds
  BY <1>1, Inside
<1>4. IsDirectory(Bytes(x.ext)) <=> x.kind = "Directory"
  BY <1>2, <1>3 DEF IsDirectory, Bytes, Blank, FormOf, Kinds
<1> QED BY <1>1, <1>2, <1>3, <1>4 DEF Folder, EntriesOf, Bytes

(* What the entries of a directory of t lead to is in it too.              *)
LEMMA EntriesLead ==
  ASSUME Typed, NEW own \in Owners, Consistent(own), NEW t \in Tasks, ~Removing(t),
         NEW x, Folder(own, t, x), NEW n, Binds(EntriesOf(x.inumber), n)
  PROVE  LET j == Bound(EntriesOf(x.inumber), n)
         IN  /\ Copy(own, t, inodes[j]) /\ inodes[j].inumber = j
             /\ j \in Counted \ {Root} /\ own[j] = t
<1>1. PICK i : i = x.inumber
  OBVIOUS
<1>2. i \in INumbers /\ i \in Sound /\ own[i] = t /\ i \in Counted
  BY <1>1, ReadsAsDirectory DEF Folder, Copy
<1>3. EntriesOf(i) \in SUBSET Entry
  BY <1>2, EntriesOfTyped
<1>4. PICK j : j = Bound(EntriesOf(i), n)
  OBVIOUS
<1>5. PICK e \in EntriesOf(i) : e.name = n /\ e.inumber = j
  BY <1>1, <1>3, <1>4, BoundTyped
<1>6. Leads(own, i, j)
  BY <1>2, <1>5, NotExcused DEF Consistent, Shared, NodesSound, NodeSound, DirectorySound
<1>7. j \in Counted \ {Root} /\ own[j] = t
  BY <1>2, <1>6, SharingAssumption DEF Leads
<1>8. inodes[j].inumber = j
  BY <1>7, Inside
<1> QED BY <1>1, <1>4, <1>7, <1>8 DEF Copy

(* A walk that is sound is in the directory of its task, or at the root.   *)
LEMMA WalkEnds ==
  ASSUME NEW own \in Owners, Typed, Consistent(own), NEW t \in Tasks,
         pc[t] \in Walks, loc[t].rest = <<>>
  PROVE  Copy(own, t, loc[t].node) /\ Walking(own, t)
<1>1. Walking(own, t)
  BY DEF Consistent, TaskSound
<1>2. CASE loc[t].node = inodes[Root] /\ own[Root] = t
  BY <1>1, <1>2, Inside DEF Copy, Consistent, Shared, RootStands
<1> QED BY <1>1, <1>2 DEF Walking, Homely

(* One step of a walk leads to an inode of t.                              *)
LEMMA WalkFinds ==
  ASSUME NEW own \in Owners, Typed, Consistent(own), NEW t \in Tasks,
         pc[t] \in Walks, loc[t].rest # <<>>, loc[t].node.kind = "Directory"
  PROVE  LET d == Bytes(loc[t].node.ext).entries
             n == Head(loc[t].rest)
         IN  IF Binds(d, n)
             THEN Copy(own, t, inodes[Bound(d, n)])
             ELSE Folder(own, t, loc[t].node) /\ d = EntriesOf(loc[t].node.inumber)
<1>1. Walking(own, t) /\ ~Removing(t)
  BY DEF Consistent, TaskSound, Walks, Removing, Deleting
<1>2. PICK n : n = Head(loc[t].rest)
  OBVIOUS
<1>3. ASSUME Copy(own, t, loc[t].node)
      PROVE  /\ Folder(own, t, loc[t].node)
             /\ Bytes(loc[t].node.ext).entries = EntriesOf(loc[t].node.inumber)
             /\ Binds(EntriesOf(loc[t].node.inumber), n) =>
                  Copy(own, t, inodes[Bound(EntriesOf(loc[t].node.inumber), n)])
  <2>1. /\ Folder(own, t, loc[t].node)
        /\ Bytes(loc[t].node.ext).entries = EntriesOf(loc[t].node.inumber)
    BY <1>3, ReadsAsDirectory
  <2> QED BY <1>1, <2>1, EntriesLead
<1>4. CASE Copy(own, t, loc[t].node)
  BY <1>2, <1>3, <1>4
<1>5. CASE loc[t].node = inodes[Root] /\ own[Root] = t
  <2>1. Copy(own, t, loc[t].node)
    BY <1>5, Inside DEF Copy, Consistent, Shared, RootStands
  <2> QED BY <1>2, <1>3, <2>1
<1>6. ASSUME loc[t].node = inodes[Root], own[Root] # t,
             NEW k \in DOMAIN Made, n = Made[k], own[k + 1] = t
      PROVE  LET d == Bytes(loc[t].node.ext).entries
             IN  Binds(d, n) /\ Copy(own, t, inodes[Bound(d, n)])
  <2>1. own[Root] = NoTask
    BY <1>6 DEF Consistent, Shared, RootOwned
  <2>2. EntriesOf(Root) = MadeEntries /\ k + 1 \in Counted
    BY <1>6, <2>1, HomesCounted
  <2>3. PICK d : d = Bytes(loc[t].node.ext).entries
    OBVIOUS
  <2>4. d = MadeEntries
    BY <1>6, <2>2, <2>3, Inside DEF EntriesOf, Consistent, Shared, RootStands
  <2>5. [name |-> Made[k], inumber |-> k + 1] \in d
    BY <2>4 DEF MadeEntries
  <2>6. \A e \in d : e.name = n => e.inumber = k + 1
    BY <1>6, <2>4, CallerAssumption DEF MadeEntries
  <2>7. Binds(d, n) /\ Bound(d, n) = k + 1
    BY <1>6, <2>5, <2>6 DEF Binds, Bound
  <2>8. Copy(own, t, inodes[k + 1])
    BY <1>6, <2>2, Inside DEF Copy
  <2> QED BY <2>3, <2>7, <2>8
<1>7. CASE loc[t].node = inodes[Root] /\ Homely(own, t, loc[t].rest) /\ own[Root] # t
  <2>1. PICK k \in DOMAIN Made : n = Made[k] /\ own[k + 1] = t
    BY <1>2, <1>7 DEF Homely
  <2> QED BY <1>2, <1>6, <1>7, <2>1
<1> QED BY <1>1, <1>4, <1>5, <1>7 DEF Walking

-----------------------------------------------------------------------------
(* Steps of a walk keep the volume as it is.                               *)

LEMMA StepsStay ==
  ASSUME Typed, Typed', NEW own \in Owners, Consistent(own), NEW t \in Tasks,
         NEW label \in PCs, NEW r \in Locals, Steps(t, label, r), r.born = loc[t].born,
         pc[t] # "clear", label # "clear"
  PROVE  /\ Stays /\ Others(t) /\ Kept /\ pc'[t] = label /\ loc'[t] = r /\ op'[t] = op[t]
         /\ inodes'[Root] = inodes[Root]
<1>1. Others(t) /\ Kept /\ pc'[t] = label /\ loc'[t] = r /\ op'[t] = op[t]
  BY StepsFacts DEF Steps, Typed
<1>2. Born' = Born /\ Emptied' = Emptied
  BY <1>1, Parts, PartsNext DEF Clears
<1>3. Sound' = Sound /\ Counted' = Counted
  BY <1>1, <1>2 DEF Kept, Sound, Counted
<1> QED BY <1>1, <1>3 DEF Stays, Kept

(* A step of the locals keeps the volume consistent if the task is sound.  *)
LEMMA StepsSound ==
  ASSUME Typed, Typed', NEW own \in Owners, Consistent(own), NEW t \in Tasks,
         NEW label \in PCs, NEW r \in Locals, Steps(t, label, r), r.born = loc[t].born,
         r.held = loc[t].held, pc[t] # "clear",
         label # "clear", pc[t] \notin {"idle", "born"} \cup Registering,
         label # "born", Aside(own, t), TaskSound(own, t)'
  PROVE  Consistent(own)'
<1>1. /\ Others(t) /\ Kept /\ pc'[t] = label /\ loc'[t] = r /\ op'[t] = op[t]
  BY StepsStay
<1>2. Guarded'
  BY <1>1, GuardKept DEF Kept
<1> QED BY <1>1, <1>2, LocalSound DEF Kept

LEMMA WalksEven ==
  ASSUME NEW t \in Tasks, pc[t] \in Walks \cup {"data", "choose", "replace"}
  PROVE  Even(t) /\ ~Removing(t)
  BY DEF Even, Removing, Walks, Deleting

LEMMA WalksEvenNext ==
  ASSUME NEW t \in Tasks, pc'[t] \in Walks \cup {"data", "choose", "replace"}
  PROVE  Even(t)' /\ ~Removing(t)'
  BY DEF Even, Removing, Walks, Deleting

(* The walk goes on.                                                       *)
LEMMA WalksOn ==
  ASSUME Typed, Typed', NEW own \in Owners, Consistent(own), NEW t \in Tasks,
         NEW label \in PCs, NEW r \in Locals, Steps(t, label, r),
         pc[t] \in Walks, label \in Walks,
         r.held = loc[t].held, r.born = loc[t].born, r.doomed = loc[t].doomed,
         r.dparent = loc[t].dparent, r.dput = loc[t].dput,
         Copy(own, t, r.node) \/ (r.node = inodes[Root] /\ Homely(own, t, r.rest)),
         label = "dest" => Copy(own, t, r.parent),
         label # "content" /\ op[t] = "hardlink" =>
           Copy(own, t, r.target) /\ r.target.kind = "File",
         Given(t)'
  PROVE  Consistent(own)'
<1>1. /\ Stays /\ Others(t) /\ Kept /\ pc'[t] = label /\ loc'[t] = r /\ op'[t] = op[t]
      /\ inodes'[Root] = inodes[Root]
  BY StepsStay DEF Walks
<1>2. Walking(own, t)
  BY DEF Consistent, TaskSound
<1>3. \A x : Copy(own, t, x) => Copy(own, t, x)'
  BY <1>1, StaysFacts
<1>4. Clean(t)'
  BY <1>1, <1>2 DEF Walking, Clean, Alone
<1>5. (Copy(own, t, loc[t].node) \/ (loc[t].node = inodes[Root] /\ Homely(own, t, loc[t].rest)))'
  <2>1. CASE Copy(own, t, r.node)
    BY <1>1, <1>3, <2>1 DEF Copy
  <2>2. CASE r.node = inodes[Root] /\ Homely(own, t, r.rest)
    BY <1>1, <2>2 DEF Homely
  <2> QED BY <2>1, <2>2
<1>6. (pc[t] = "dest" => Copy(own, t, loc[t].parent))'
  BY <1>1, <1>3 DEF Copy
<1>7. (pc[t] # "content" => TargetSound(own, t))'
  BY <1>1, <1>3 DEF Copy, TargetSound
<1>8. Walking(own, t)'
  BY <1>4, <1>5, <1>6, <1>7 DEF Walking
<1>9. TaskSound(own, t)'
  BY <1>1, <1>8 DEF TaskSound, Walks, Removing, Deleting
<1>10. Aside(own, t)
  BY <1>1, WalksEven, WalksEvenNext, EvenAsideNext
<1> QED BY <1>9, <1>10, StepsSound DEF Walks, Registering

(* A step of a walk keeps the volume consistent.                           *)
LEMMA WalkSound ==
  ASSUME Typed, Typed', NEW own \in Owners, Consistent(own), NEW t \in Tasks,
         Walk(t), Intact'
  PROVE  Consistent(own)'
<1>1. CASE Fail(t)
  BY <1>1, FailureSound DEF Walk
<1>2. CASE ~Fail(t)
  <2>1. pc[t] \in Walks /\ loc[t].rest # <<>>
    BY DEF Walk, Walks
  <2>2. PICK i : i = Bound(Bytes(loc[t].node.ext).entries, Head(loc[t].rest))
    OBVIOUS
  <2>3. PICK r : r = [loc[t] EXCEPT !.node = inodes[i], !.rest = Tail(loc[t].rest)]
    OBVIOUS
  <2>4. /\ Resolves(loc[t].node, Head(loc[t].rest)) /\ r \in Locals /\ Steps(t, pc[t], r)
    BY <1>2, <2>2, <2>3, WalkSteps
  <2>5. /\ r.node = inodes[i] /\ r.held = loc[t].held /\ r.born = loc[t].born
        /\ r.doomed = loc[t].doomed /\ r.dparent = loc[t].dparent /\ r.dput = loc[t].dput
        /\ r.stack = loc[t].stack /\ r.parent = loc[t].parent /\ r.target = loc[t].target
        /\ r.path = loc[t].path /\ r.dest = loc[t].dest /\ r.body = loc[t].body
    BY <2>3, LocalsTyped DEF Locals, Typed
  <2>6. Copy(own, t, inodes[i])
    BY <2>1, <2>2, <2>4, WalkFinds DEF Resolves, Resolvable
  <2>7. Walking(own, t) /\ Given(t) /\ pc[t] \in PCs
    BY <2>1 DEF Consistent, TaskSound, PCs, Walks
  <2>8. Given(t)'
    <3>1. loc'[t] = r /\ op'[t] = op[t]
      BY <2>1, <2>4, <2>5, <2>7, StepsStay DEF Walks
    <3> QED BY <2>1, <2>5, <2>7, <3>1, GivenKept DEF Walks
  <2> QED BY <2>1, <2>4, <2>5, <2>6, <2>7, <2>8, WalksOn DEF Walking, TargetSound
<1> QED BY <1>1, <1>2

-----------------------------------------------------------------------------
(* The ends of walks, where nothing is stored: a source or a target was    *)
(* found, a link is followed, a directory is listed, a file read or        *)
(* appended to.                                                            *)

LEMMA ContentResolvedSound ==
  ASSUME Typed, Typed', NEW own \in Owners, Consistent(own), NEW t \in Tasks,
         ContentResolved(t), Intact'
  PROVE  Consistent(own)'
<1>1. pc[t] = "content" /\ loc[t].rest = <<>> /\ op[t] \in {"symlink", "hardlink"}
  BY DEF ContentResolved, At, Typed, Placed
<1>2. CASE Fail(t)
  BY <1>1, <1>2, FailureSound
<1>3. ASSUME NEW r \in Locals, op[t] = "hardlink" => loc[t].node.kind = "File",
             r = [loc[t] EXCEPT !.target = loc[t].node, !.node = inodes[Root],
                                !.rest = ParentOf(loc[t].path)],
             Steps(t, "parent", r)
      PROVE  Consistent(own)'
  <2>1. /\ r.node = inodes[Root] /\ r.held = loc[t].held /\ r.born = loc[t].born
        /\ r.doomed = loc[t].doomed /\ r.dparent = loc[t].dparent /\ r.dput = loc[t].dput
        /\ r.stack = loc[t].stack /\ r.target = loc[t].node
        /\ r.path = loc[t].path /\ r.dest = loc[t].dest /\ r.body = loc[t].body
        /\ r.rest = ParentOf(loc[t].path)
    BY <1>3, LocalsTyped DEF Locals, Typed
  <2>2. Copy(own, t, loc[t].node) /\ Given(t)
    BY <1>1, WalkEnds DEF Walks, Consistent, TaskSound
  <2>3. Homely(own, t, r.rest)
    BY <1>1, <2>1, <2>2, PathsHomely DEF Given, Creating, Linking
  <2>4. "parent" \in PCs /\ "parent" \in Walks /\ pc[t] \in Walks
    BY <1>1 DEF PCs, Walks
  <2>5. Given(t)'
    <3>1. loc'[t] = r /\ op'[t] = op[t]
      BY <1>3, <2>4, StepsFacts DEF Typed
    <3> QED BY <1>1, <2>1, <2>2, <3>1, GivenKept
  <2> QED BY <1>1, <1>3, <2>1, <2>2, <2>3, <2>4, <2>5, WalksOn
<1> QED BY <1>2, <1>3, ContentResolvedSteps

LEMMA SourceResolvedSound ==
  ASSUME Typed, Typed', NEW own \in Owners, Consistent(own), NEW t \in Tasks,
         SourceResolved(t), Intact'
  PROVE  Consistent(own)'
<1>1. pc[t] = "parent" /\ loc[t].rest = <<>> /\ op[t] = "move"
  BY DEF SourceResolved, At
<1>2. PICK r \in Locals :
        /\ r = [loc[t] EXCEPT !.parent = loc[t].node, !.node = inodes[Root],
                              !.rest = ParentOf(loc[t].dest)]
        /\ Steps(t, "dest", r)
  BY SourceResolvedSteps
<1>3. /\ r.node = inodes[Root] /\ r.held = loc[t].held /\ r.born = loc[t].born
      /\ r.doomed = loc[t].doomed /\ r.dparent = loc[t].dparent /\ r.dput = loc[t].dput
      /\ r.stack = loc[t].stack /\ r.parent = loc[t].node
      /\ r.path = loc[t].path /\ r.dest = loc[t].dest /\ r.body = loc[t].body
      /\ r.rest = ParentOf(loc[t].dest)
  BY <1>2, LocalsTyped DEF Locals, Typed
<1>4. Copy(own, t, loc[t].node) /\ Given(t)
  BY <1>1, WalkEnds DEF Walks, Consistent, TaskSound
<1>5. Homely(own, t, r.rest)
  BY <1>1, <1>3, <1>4, PathsHomely DEF Given
<1>6. "dest" \in PCs /\ "dest" \in Walks /\ pc[t] \in Walks
  BY <1>1 DEF PCs, Walks
<1>7. Given(t)'
  <2>1. loc'[t] = r /\ op'[t] = op[t]
    BY <1>2, <1>6, StepsFacts DEF Typed
  <2> QED BY <1>1, <1>3, <1>4, <2>1, GivenKept
<1> QED BY <1>1, <1>2, <1>3, <1>4, <1>5, <1>6, <1>7, WalksOn

(* A symlink is followed within what the path of its owner leads to.       *)
LEMMA SymlinkLeads ==
  ASSUME Typed, NEW own \in Owners, Consistent(own), NEW t \in Tasks, NEW x,
         Copy(own, t, x), x.kind = "Symlink"
  PROVE  Homely(own, t, Bytes(x.ext).path)
<1>1. /\ x.inumber \in Sound /\ x = inodes[x.inumber] /\ x.ext # None /\ own[x.inumber] = t
  BY ReadsAsDirectory DEF Copy
<1> QED BY <1>1 DEF Bytes, Consistent, Shared, NodesSound, NodeSound, SymlinkSound

(* So is a hardlink.                                                       *)
LEMMA HardlinkLeads ==
  ASSUME Typed, NEW own \in Owners, Consistent(own), NEW t \in Tasks, ~Removing(t), NEW x,
         Copy(own, t, x), x.kind = "Hardlink"
  PROVE  LET j == Bytes(x.ext).target
         IN  Copy(own, t, inodes[j]) /\ inodes[j].kind = "File" /\ j \in Counted \ {Root}
<1>1. /\ x.inumber \in Sound /\ x = inodes[x.inumber] /\ x.ext # None /\ own[x.inumber] = t
      /\ x.inumber \in INumbers
  BY ReadsAsDirectory DEF Copy
<1>2. PICK i : i = x.inumber
  OBVIOUS
<1>3. ASSUME NEW u \in Tasks, ExcusedLink(own, u, i) PROVE FALSE
  <2>1. Removing(u) /\ own[i] = u
    BY <1>3 DEF ExcusedLink
  <2> QED BY <1>1, <1>2, <2>1
<1>4. Leads(own, i, TargetOf(i)) /\ inodes[TargetOf(i)].kind = "File"
  BY <1>1, <1>2, <1>3 DEF Consistent, Shared, NodesSound, NodeSound, HardlinkSound
<1>5. PICK j : j = TargetOf(i)
  OBVIOUS
<1>6. j \in Counted \ {Root} /\ own[j] = t /\ inodes[j].kind = "File" /\ inodes[j].inumber = j
  BY <1>1, <1>2, <1>4, <1>5, SharingAssumption, Inside DEF Leads
<1>7. j = Bytes(x.ext).target
  BY <1>1, <1>2, <1>5 DEF TargetOf
<1> QED BY <1>6, <1>7 DEF Copy

LEMMA ListReachedSound ==
  ASSUME Typed, Typed', NEW own \in Owners, Consistent(own), NEW t \in Tasks,
         ListReached(t), Intact'
  PROVE  Consistent(own)'
<1>1. pc[t] = "ls" /\ loc[t].rest = <<>> /\ op[t] = "ls" /\ pc[t] \in Walks /\ pc[t] \in PCs
  BY DEF ListReached, At, Typed, Placed, Walks, PCs
<1>2. CASE Fail(t)
  BY <1>1, <1>2, FailureSound
<1>3. ASSUME NEW r \in Locals, loc[t].node.kind = "Symlink",
             r = [loc[t] EXCEPT !.path = Reached(t).path, !.node = inodes[Root],
                                !.rest = Reached(t).path],
             Steps(t, pc[t], r)
      PROVE  Consistent(own)'
  <2>1. /\ r.node = inodes[Root] /\ r.held = loc[t].held /\ r.born = loc[t].born
        /\ r.doomed = loc[t].doomed /\ r.dparent = loc[t].dparent /\ r.dput = loc[t].dput
        /\ r.stack = loc[t].stack /\ r.rest = Reached(t).path
    BY <1>3, LocalsTyped DEF Locals, Typed
  <2>2. Copy(own, t, loc[t].node) /\ Given(t)
    BY <1>1, WalkEnds DEF Consistent, TaskSound
  <2>3. Homely(own, t, r.rest)
    BY <1>3, <2>1, <2>2, SymlinkLeads DEF Reached
  <2>4. Given(t)'
    <3>1. loc'[t] = r /\ op'[t] = op[t] /\ pc'[t] = pc[t]
      <4>1. pc[t] \in PCs /\ r \in Locals /\ Steps(t, pc[t], r) /\ StateTyped
        BY <1>1, <1>3 DEF Typed
      <4> QED BY <4>1, StepsFacts
    <3> QED BY <1>1, <2>2, <3>1 DEF Given, Creating, Linking
  <2> QED BY <1>1, <1>3, <2>1, <2>2, <2>3, <2>4, WalksOn
<1> QED BY <1>2, <1>3, ListReachedSteps

LEMMA FollowSound ==
  ASSUME Typed, Typed', NEW own \in Owners, Consistent(own), NEW t \in Tasks,
         NEW label \in {"append", "readLinked"}, Follow(t, label), Intact',
         pc[t] \in Walks, op[t] \in {"append", "read"}, loc[t].rest = <<>>
  PROVE  Consistent(own)'
<1>1. label \in PCs /\ label \in Walks /\ label # "dest"
  BY DEF PCs, Walks
<1>2. Copy(own, t, loc[t].node) /\ Given(t) /\ ~Removing(t)
  BY WalkEnds DEF Consistent, TaskSound, Removing
<1>3. CASE Fail(t)
  BY <1>3, FailureSound DEF Walks
<1>4. ASSUME NEW x, NEW p, NEW r \in Locals,
             r = [loc[t] EXCEPT !.node = x, !.rest = p], Steps(t, label, r),
             Copy(own, t, x) \/ (x = inodes[Root] /\ Homely(own, t, p))
      PROVE  Consistent(own)'
  <2>1. /\ r.node = x /\ r.held = loc[t].held /\ r.born = loc[t].born
        /\ r.doomed = loc[t].doomed /\ r.dparent = loc[t].dparent /\ r.dput = loc[t].dput
        /\ r.stack = loc[t].stack /\ r.rest = p
        /\ r.path = loc[t].path /\ r.dest = loc[t].dest /\ r.body = loc[t].body
    BY <1>4, LocalsTyped DEF Locals, Typed
  <2>2. Given(t)'
    <3>1. loc'[t] = r /\ op'[t] = op[t]
      BY <1>1, <1>4, StepsFacts DEF Typed
    <3> QED BY <1>2, <2>1, <3>1, GivenKept DEF Walks
  <2> QED BY <1>1, <1>4, <2>1, <2>2, WalksOn
<1>5. CASE \E r \in Locals :
              /\ loc[t].node.kind = "Symlink" /\ Reached(t).form = "path"
              /\ r = [loc[t] EXCEPT !.node = inodes[Root],
                                    !.rest = Reached(t).path]
              /\ Steps(t, label, r)
  BY <1>2, <1>4, <1>5, SymlinkLeads DEF Reached
<1>6. CASE \E r \in Locals :
              /\ loc[t].node.kind = "Hardlink" /\ Reached(t).form = "number"
              /\ Reached(t).target \in bits
              /\ r = [loc[t] EXCEPT !.node = inodes[Reached(t).target],
                                    !.rest = <<>>]
              /\ Steps(t, label, r)
  <2>1. PICK y : y = inodes[Reached(t).target]
    OBVIOUS
  <2>2. PICK r \in Locals :
              /\ loc[t].node.kind = "Hardlink"
              /\ r = [loc[t] EXCEPT !.node = y, !.rest = <<>>]
              /\ Steps(t, label, r)
    BY <1>6, <2>1
  <2>3. Copy(own, t, y)
    BY <1>2, <2>1, <2>2, HardlinkLeads DEF Reached
  <2> QED BY <1>4, <2>2, <2>3
<1> QED BY <1>1, <1>3, <1>5, <1>6, FollowSteps

LEMMA ReadReachedSound ==
  ASSUME Typed, Typed', NEW own \in Owners, Consistent(own), NEW t \in Tasks,
         ReadReached(t), Intact'
  PROVE  Consistent(own)'
<1>1. pc[t] \in {"read", "readLinked"} /\ loc[t].rest = <<>> /\ op[t] = "read"
  BY DEF ReadReached, At, Typed, Placed
<1>2. CASE Fail(t)
  BY <1>1, <1>2, FailureSound
<1>3. CASE Follow(t, "readLinked")
  BY <1>1, <1>3, FollowSound DEF Walks
<1> QED BY <1>2, <1>3 DEF ReadReached

(* fappend grows a chain: the inode is registered as it is.                *)
LEMMA AppendReachedSound ==
  ASSUME Typed, Typed', NEW own \in Owners, Consistent(own), NEW t \in Tasks,
         AppendReached(t), Intact'
  PROVE  Consistent(own)'
<1>1. pc[t] = "append" /\ loc[t].rest = <<>> /\ op[t] = "append" /\ pc[t] \in Walks
  BY DEF AppendReached, At, Typed, Placed, Walks
<1>2. Copy(own, t, loc[t].node) /\ Given(t) /\ Walking(own, t)
  BY <1>1, WalkEnds DEF Consistent, TaskSound
<1>3. CASE Fail(t)
  BY <1>1, <1>3, FailureSound
<1>4. CASE Follow(t, "append")
  BY <1>1, <1>4, FollowSound
<1>5. ASSUME NEW r \in Locals, loc[t].node.kind = "File",
             r = [loc[t] EXCEPT !.put = loc[t].node], Steps(t, "commit", r)
      PROVE  Consistent(own)'
  <2>1. /\ r.put = loc[t].node /\ r.held = loc[t].held /\ r.born = loc[t].born
        /\ r.doomed = loc[t].doomed /\ r.dparent = loc[t].dparent /\ r.dput = loc[t].dput
        /\ r.path = loc[t].path /\ r.dest = loc[t].dest /\ r.body = loc[t].body
    BY <1>5, LocalsTyped DEF Locals, Typed
  <2>2. "commit" \in PCs
    BY DEF PCs
  <2>3. Stays /\ pc'[t] = "commit" /\ loc'[t] = r /\ op'[t] = op[t]
    BY <1>1, <1>5, <2>1, <2>2, StepsStay
  <2>4. Given(t)'
    BY <1>1, <1>2, <2>1, <2>3, GivenKept
  <2>6. Appending(own, t)'
    <3>1. Copy(own, t, r.put)'
      BY <1>2, <2>1, <2>3, StaysFacts DEF Copy
    <3>2. Clean(t)'
      BY <1>2, <2>1, <2>3 DEF Walking, Clean, Alone
    <3> QED BY <1>5, <2>1, <2>3, <3>1, <3>2 DEF Appending, Copy
  <2>7. TaskSound(own, t)'
    BY <1>1, <2>3, <2>4, <2>6 DEF TaskSound, Walks, Removing, Creating, Linking
  <2>8. Aside(own, t)
    <3>1. Even(t) /\ Even(t)'
      BY <1>1, <2>3 DEF Even, Removing
    <3> QED BY <3>1, EvenAsideNext
  <2> QED BY <1>1, <1>5, <2>1, <2>2, <2>7, <2>8, StepsSound DEF Registering
<1>6. loc[t].node.kind = "File" => loc[t].node.ext # None
  BY <1>2, ReadsAsDirectory
<1> QED BY <1>3, <1>4, <1>5, <1>6, AppendReachedSteps

-----------------------------------------------------------------------------
(* Lookups before something is made, or a file is written over.            *)

LEMMA MkdirSound ==
  ASSUME Typed, Typed', NEW own \in Owners, Consistent(own), NEW t \in Tasks,
         MkdirComponent(t), Intact'
  PROVE  Consistent(own)'
<1>1. pc[t] = "mkdir" /\ op[t] = "mkdir" /\ pc[t] \in Walks /\ pc[t] \in PCs
  BY DEF MkdirComponent, At, Typed, Placed, Walks, PCs
<1>2. Walking(own, t) /\ Given(t) /\ Even(t) /\ ~Removing(t)
  BY <1>1, WalksEven DEF Consistent, TaskSound
<1>3. CASE Fail(t)
  BY <1>1, <1>3, FailureSound
<1>4. CASE Return(t) /\ Kept
  <2>1. /\ Others(t) /\ pc'[t] = "idle" /\ op'[t] = "ls" /\ loc'[t] = Idle
    BY <1>4, ReturnFacts DEF Typed
  <2>2. loc'[t].held = loc[t].held /\ loc'[t].born = loc[t].born
    BY <1>2, <2>1 DEF Idle, Walking, Clean
  <2>3. Even(t)'
    BY <2>1 DEF Even, Removing
  <2>4. Guarded'
    BY <1>1, <1>4, <2>1, GuardKept DEF Kept, Registering
  <2>5. UNCHANGED <<bits, inodes, used, disk, lost, orphans>>
    BY <1>4 DEF Kept
  <2> QED BY <1>1, <1>2, <2>1, <2>2, <2>3, <2>4, <2>5, IdleSound, EvenAsideNext, LocalSound
<1>5. PICK d, n, j : d = EntriesHere(t) /\ n = Head(loc[t].rest) /\ j = Bound(d, n)
  OBVIOUS
<1>6. ASSUME loc[t].rest # <<>>, loc[t].node.kind = "Directory"
      PROVE  IF Binds(d, n)
             THEN Copy(own, t, inodes[j])
             ELSE Folder(own, t, loc[t].node) /\ d = EntriesOf(loc[t].node.inumber)
  BY <1>1, <1>5, <1>6, WalkFinds DEF EntriesHere, Reached
<1>7. ASSUME loc[t].rest # <<>>, loc[t].node.kind = "Directory", Binds(d, n),
             NEW r \in Locals,
             r = [loc[t] EXCEPT !.node = inodes[j], !.rest = Tail(loc[t].rest)],
             Steps(t, pc[t], r)
      PROVE  Consistent(own)'
  <2>1. /\ r.node = inodes[j] /\ r.held = loc[t].held /\ r.born = loc[t].born
        /\ r.doomed = loc[t].doomed /\ r.dparent = loc[t].dparent /\ r.dput = loc[t].dput
        /\ r.stack = loc[t].stack /\ r.parent = loc[t].parent /\ r.target = loc[t].target
        /\ r.path = loc[t].path /\ r.dest = loc[t].dest /\ r.body = loc[t].body
    BY <1>7, LocalsTyped DEF Locals, Typed
  <2>2. Given(t)'
    <3>1. loc'[t] = r /\ op'[t] = op[t]
      BY <1>1, <1>7, StepsFacts DEF Typed
    <3> QED BY <1>1, <1>2, <2>1, <3>1, GivenKept
  <2> QED BY <1>1, <1>6, <1>7, <2>1, <2>2, WalksOn
<1>8. ASSUME loc[t].rest # <<>>, loc[t].node.kind = "Directory", ~Binds(d, n),
             NEW r \in Locals,
             r = [loc[t] EXCEPT !.parent = loc[t].node, !.dir = d, !.child = NoINode],
             Steps(t, "choose", r)
      PROVE  Consistent(own)'
  <2>1. /\ r.parent = loc[t].node /\ r.dir = d /\ r.child = NoINode
        /\ r.held = loc[t].held /\ r.born = loc[t].born
        /\ r.doomed = loc[t].doomed /\ r.dparent = loc[t].dparent /\ r.dput = loc[t].dput
        /\ r.rest = loc[t].rest
        /\ r.path = loc[t].path /\ r.dest = loc[t].dest /\ r.body = loc[t].body
    BY <1>8, LocalsTyped DEF Locals, Typed
  <2>2. "choose" \in PCs
    BY DEF PCs
  <2>3. Stays /\ pc'[t] = "choose" /\ loc'[t] = r /\ op'[t] = op[t]
    <3>1. Steps(t, "choose", r) /\ r.born = loc[t].born /\ pc[t] # "clear"
      BY <1>1, <1>8, <2>1
    <3> QED BY <2>2, <3>1, StepsStay
  <2>4. Given(t)'
    BY <1>1, <1>2, <2>1, <2>3, GivenKept
  <2>5. PICK x : x = loc[t].node
    OBVIOUS
  <2>6. PICK i : i = x.inumber
    OBVIOUS
  <2>7. Folder(own, t, x) /\ d = EntriesOf(i) /\ i \in Sound
    BY <1>6, <1>8, <2>5, <2>6, ReadsAsDirectory DEF Folder
  <2>8. Folder(own, t, x)' /\ EntriesOf(i)' = d
    BY <2>3, <2>7, StaysFacts
  <2>9. Folder(own, t, loc[t].parent)'
    BY <2>1, <2>3, <2>5, <2>8 DEF Folder, Copy
  <2>10. Source(t)' = d
    BY <2>1, <2>3, <2>5, <2>6, <2>8 DEF Source
  <2>11. NewName(t)' = n
    BY <1>1, <1>5, <2>1, <2>3 DEF NewName
  <2>12. loc'[t].child.ext = None
    BY <2>1, <2>3 DEF NoINode
  <2>13. Making(own, t)'
    BY <1>1, <1>2, <1>8, <2>1, <2>3, <2>9, <2>10, <2>11, <2>12
       DEF Making, Walking, Clean, Alone, TargetSound
  <2>14. TaskSound(own, t)'
    BY <1>1, <2>3, <2>4, <2>13 DEF TaskSound, Walks, Removing, Deleting
  <2>15. Aside(own, t)
    BY <1>2, <2>3, WalksEvenNext, EvenAsideNext
  <2> QED BY <1>1, <1>8, <2>1, <2>2, <2>14, <2>15, StepsSound DEF Registering
<1> QED BY <1>3, <1>4, <1>5, <1>7, <1>8, MkdirSteps

LEMMA LookupWriteSound ==
  ASSUME Proper, Typed, Typed', NEW own \in Owners, Consistent(own), NEW t \in Tasks,
         LookupWrite(t), Intact'
  PROVE  Consistent(own)'
<1>1. pc[t] = "parent" /\ loc[t].rest = <<>> /\ op[t] \in Linking /\ pc[t] \in Walks
  BY DEF LookupWrite, At, Linking, Walks
<1>2. Walking(own, t) /\ Given(t) /\ Even(t) /\ ~Removing(t) /\ Copy(own, t, loc[t].node)
  BY <1>1, WalksEven, WalkEnds DEF Consistent, TaskSound
<1>3. CASE Fail(t)
  BY <1>1, <1>3, FailureSound
<1>4. PICK d, n, j : d = EntriesHere(t) /\ n = NameOf(loc[t].path) /\ j = Bound(d, n)
  OBVIOUS
<1>5. PICK x, i : x = loc[t].node /\ i = x.inumber
  OBVIOUS
<1>6. ASSUME ~Unreadable(t)
      PROVE  Folder(own, t, x) /\ d = EntriesOf(i) /\ i \in Sound
  BY <1>2, <1>4, <1>5, <1>6, ReadsAsDirectory DEF Unreadable, EntriesHere, Reached
<1>7. ASSUME ~Unreadable(t), ~Binds(d, n), NEW r \in Locals,
             r = [loc[t] EXCEPT !.parent = x, !.dir = d],
             Steps(t, "data", r)
      PROVE  Consistent(own)'
  <2>1. /\ r.parent = x /\ r.dir = d /\ r.target = loc[t].target
        /\ r.held = loc[t].held /\ r.born = loc[t].born
        /\ r.doomed = loc[t].doomed /\ r.dparent = loc[t].dparent /\ r.dput = loc[t].dput
        /\ r.path = loc[t].path /\ r.dest = loc[t].dest /\ r.body = loc[t].body
    BY <1>7, LocalsTyped DEF Locals, Typed
  <2>2. "data" \in PCs
    BY DEF PCs
  <2>3. Stays /\ pc'[t] = "data" /\ loc'[t] = r /\ op'[t] = op[t]
    <3>1. Steps(t, "data", r) /\ r.born = loc[t].born /\ pc[t] # "clear"
      BY <1>1, <1>7, <2>1
    <3> QED BY <2>2, <3>1, StepsStay
  <2>4. Given(t)'
    BY <1>1, <1>2, <2>1, <2>3, GivenKept
  <2>7. Folder(own, t, x) /\ d = EntriesOf(i) /\ i \in Sound
    BY <1>6, <1>7
  <2>8. Folder(own, t, x)' /\ EntriesOf(i)' = d
    BY <2>3, <2>7, StaysFacts
  <2>9. Folder(own, t, loc[t].parent)'
    BY <2>1, <2>3, <2>8 DEF Folder, Copy
  <2>10. Source(t)' = d
    BY <1>5, <2>1, <2>3, <2>8 DEF Source
  <2>11. NewName(t)' = n
    BY <1>1, <1>4, <2>1, <2>3 DEF NewName, Linking
  <2>12. TargetSound(own, t)'
    BY <1>1, <1>2, <2>1, <2>3, StaysFacts DEF Walking, TargetSound, Copy
  <2>13. Making(own, t)'
    BY <1>1, <1>2, <1>7, <2>1, <2>3, <2>9, <2>10, <2>11, <2>12
       DEF Making, Walking, Clean, Alone
  <2>14. TaskSound(own, t)'
    BY <1>1, <2>3, <2>4, <2>13 DEF TaskSound, Walks, Removing, Deleting
  <2>15. Aside(own, t)
    BY <1>2, <2>3, WalksEvenNext, EvenAsideNext
  <2> QED BY <1>1, <1>7, <2>1, <2>2, <2>14, <2>15, StepsSound DEF Registering
<1>8. ASSUME ~Unreadable(t), Binds(d, n), Writable(t, inodes[j]), NEW r \in Locals,
             r = [loc[t] EXCEPT !.child = inodes[j]],
             Steps(t, "replace", r)
      PROVE  Consistent(own)'
  <2>1. /\ r.child = inodes[j]
        /\ r.held = loc[t].held /\ r.born = loc[t].born
        /\ r.doomed = loc[t].doomed /\ r.dparent = loc[t].dparent /\ r.dput = loc[t].dput
        /\ r.path = loc[t].path /\ r.dest = loc[t].dest /\ r.body = loc[t].body
    BY <1>8, LocalsTyped DEF Locals, Typed
  <2>2. "replace" \in PCs
    BY DEF PCs
  <2>3. Stays /\ pc'[t] = "replace" /\ loc'[t] = r /\ op'[t] = op[t]
    <3>1. Steps(t, "replace", r) /\ r.born = loc[t].born /\ pc[t] # "clear"
      BY <1>1, <1>8, <2>1
    <3> QED BY <2>2, <3>1, StepsStay
  <2>4. Given(t)'
    BY <1>1, <1>2, <2>1, <2>3, GivenKept
  <2>5. PICK y : y = inodes[j]
    OBVIOUS
  <2>6. Copy(own, t, y) /\ j \in Sound
    BY <1>2, <1>4, <1>5, <1>6, <1>8, <2>5, EntriesLead, Inside
  <2>7. y.kind = "File" /\ op[t] = "write"
    BY <1>8, <2>5, <2>6 DEF Proper, Writable, Consistent, Shared, ContentSound
  <2>8. Copy(own, t, y)'
    BY <2>3, <2>6, StaysFacts
  <2>9. Overwriting(own, t)'
    BY <1>2, <2>1, <2>3, <2>5, <2>7, <2>8 DEF Overwriting, Copy, Walking, Clean, Alone
  <2>14. TaskSound(own, t)'
    BY <1>1, <2>3, <2>4, <2>9 DEF TaskSound, Walks, Removing, Deleting
  <2>15. Aside(own, t)
    BY <1>2, <2>3, WalksEvenNext, EvenAsideNext
  <2> QED BY <1>1, <1>8, <2>1, <2>2, <2>14, <2>15, StepsSound DEF Registering
<1> QED BY <1>3, <1>4, <1>5, <1>7, <1>8, LookupWriteSteps

-----------------------------------------------------------------------------
(* Lookups before an entry is removed or moved.                            *)

LEMMA LookupUnlinkSound ==
  ASSUME Typed, Typed', NEW own \in Owners, Consistent(own), NEW t \in Tasks,
         LookupUnlink(t), Intact'
  PROVE  Consistent(own)'
<1>1. pc[t] = "parent" /\ loc[t].rest = <<>> /\ op[t] = "unlink" /\ pc[t] \in Walks
  BY DEF LookupUnlink, At, Walks
<1>2. Walking(own, t) /\ Given(t) /\ Even(t) /\ ~Removing(t) /\ Copy(own, t, loc[t].node)
  BY <1>1, WalksEven, WalkEnds DEF Consistent, TaskSound
<1>3. CASE Fail(t)
  BY <1>1, <1>3, FailureSound
<1>4. PICK d, n, j : d = EntriesHere(t) /\ n = NameOf(loc[t].path) /\ j = Bound(d, n)
  OBVIOUS
<1>5. PICK x, i : x = loc[t].node /\ i = x.inumber
  OBVIOUS
<1>6. ASSUME ~Unreadable(t)
      PROVE  Folder(own, t, x) /\ d = EntriesOf(i) /\ i \in Sound
  BY <1>2, <1>4, <1>5, <1>6, ReadsAsDirectory DEF Unreadable, EntriesHere, Reached
<1>7. ASSUME ~Unreadable(t), Binds(d, n), Removable(inodes[j]), NEW r \in Locals,
             r = [loc[t] EXCEPT !.parent = x, !.dir = Without(d, n), !.stack = <<j>>],
             Steps(t, "links", r)
      PROVE  Consistent(own)'
  <2>1. /\ r.parent = x /\ r.dir = Without(d, n) /\ r.stack = <<j>>
        /\ r.held = loc[t].held /\ r.born = loc[t].born
        /\ r.doomed = loc[t].doomed /\ r.dparent = loc[t].dparent /\ r.dput = loc[t].dput
        /\ r.path = loc[t].path /\ r.dest = loc[t].dest /\ r.body = loc[t].body
    BY <1>7, LocalsTyped DEF Locals, Typed
  <2>2. "links" \in PCs
    BY DEF PCs
  <2>3. Stays /\ pc'[t] = "links" /\ loc'[t] = r /\ op'[t] = op[t]
    <3>1. Steps(t, "links", r) /\ r.born = loc[t].born /\ pc[t] # "clear"
      BY <1>1, <1>7, <2>1
    <3> QED BY <2>2, <3>1, StepsStay
  <2>4. Given(t)'
    BY <1>1, <1>2, <2>1, <2>3, GivenKept
  <2>7. Folder(own, t, x) /\ d = EntriesOf(i) /\ i \in Sound
    BY <1>6, <1>7
  <2>8. Folder(own, t, x)' /\ EntriesOf(i)' = d
    BY <2>3, <2>7, StaysFacts
  <2>9. Folder(own, t, loc[t].parent)'
    BY <2>1, <2>3, <2>8 DEF Folder, Copy
  <2>10. Source(t)' = d
    BY <1>5, <2>1, <2>3, <2>8 DEF Source
  <2>11. Victim(t)' = j /\ NameOf(loc'[t].path) = n
    BY <1>4, <2>1, <2>3, <2>10 DEF Victim
  <2>12. j \in Sound /\ own[j] = t
    BY <1>2, <1>4, <1>5, <1>7, <2>7, EntriesLead, Inside
  <2>13. Mine(own, t)' /\ Removable(inodes[Victim(t)])'
    <3>1. Removable(inodes[j])'
      BY <1>7, <2>3, <2>12, StaysFacts
    <3>2. Mine(own, t)'
      BY <2>3, <2>11, <2>12 DEF Mine, Stays
    <3>3. Removable(inodes[Victim(t)])' <=> Removable(inodes[j])'
      BY <2>11 DEF Removable
    <3> QED BY <3>1, <3>2, <3>3
  <2>14. Editing(own, t)'
    BY <2>3, <2>9 DEF Editing
  <2>15. loc'[t].stack = <<Victim(t)'>>
    BY <2>1, <2>3, <2>11
  <2>16. Unlinking(own, t)'
    BY <1>2, <1>7, <2>1, <2>3, <2>10, <2>11, <2>13, <2>14, <2>15
       DEF Unlinking, Walking, Clean, Alone
  <2>17. TaskSound(own, t)'
    BY <1>1, <2>3, <2>4, <2>16 DEF TaskSound, Walks, Removing, Deleting, Creating, Linking
  <2>18. Aside(own, t)
    <3>1. Even(t)'
      BY <1>1, <1>2, <2>1, <2>3 DEF Even, Walking, Clean
    <3> QED BY <1>2, <3>1, EvenAsideNext
  <2> QED BY <1>1, <1>7, <2>1, <2>2, <2>17, <2>18, StepsSound DEF Registering
<1> QED BY <1>3, <1>4, <1>5, <1>7, LookupUnlinkSteps

LEMMA LookupMoveSound ==
  ASSUME Typed, Typed', NEW own \in Owners, Consistent(own), NEW t \in Tasks,
         LookupMove(t), Intact'
  PROVE  Consistent(own)'
<1>1. pc[t] = "dest" /\ loc[t].rest = <<>> /\ op[t] = "move" /\ pc[t] \in Walks
  BY DEF LookupMove, At, Walks, Typed, Placed
<1>2. /\ Walking(own, t) /\ Given(t) /\ Even(t) /\ ~Removing(t) /\ Copy(own, t, loc[t].node)
      /\ Copy(own, t, loc[t].parent)
  BY <1>1, WalksEven, WalkEnds DEF Consistent, TaskSound, Walking
<1>3. CASE Fail(t)
  BY <1>1, <1>3, FailureSound
<1>4. PICK d, n, m, x : /\ d = Bytes(loc[t].parent.ext).entries
                        /\ n = NameOf(loc[t].path) /\ m = NameOf(loc[t].dest)
                        /\ x = Bound(d, n)
  OBVIOUS
<1>5. PICK p, i, q, k : /\ p = loc[t].parent /\ i = p.inumber
                        /\ q = loc[t].node /\ k = q.inumber
  OBVIOUS
<1>6. ASSUME IsDirectory(Bytes(loc[t].parent.ext))
      PROVE  Folder(own, t, p) /\ d = EntriesOf(i) /\ i \in Sound
  BY <1>2, <1>4, <1>5, <1>6, ReadsAsDirectory
<1>7. ASSUME ~Unreadable(t)
      PROVE  Folder(own, t, q) /\ EntriesHere(t) = EntriesOf(k) /\ k \in Sound /\ q # NoINode
  <2>1. Folder(own, t, q) /\ EntriesHere(t) = EntriesOf(k) /\ k \in Sound
    BY <1>2, <1>5, <1>7, ReadsAsDirectory DEF Unreadable, EntriesHere, Reached
  <2>2. NoINode.inumber = None /\ k # None
    BY <2>1, Inside DEF NoINode
  <2> QED BY <1>5, <2>1, <2>2
<1>8. ASSUME IsDirectory(Bytes(loc[t].parent.ext)), ~Unreadable(t), Binds(d, n),
             NEW r \in Locals, Steps(t, "rewrite", r),
             NEW dir, NEW dp, NEW dd,
             r = [loc[t] EXCEPT !.dir = dir, !.dparent = dp, !.ddir = dd],
             \/ /\ dp = NoINode /\ ~Binds(d, m) /\ dir = With(Without(d, n), m, x)
             \/ /\ dp = q /\ i # k /\ dir = Without(d, n)
                /\ ~Binds(EntriesOf(k), m) /\ dd = With(EntriesOf(k), m, x)
      PROVE  Consistent(own)'
  <2>1. /\ r.dir = dir /\ r.dparent = dp /\ r.ddir = dd
        /\ r.held = loc[t].held /\ r.born = loc[t].born
        /\ r.doomed = loc[t].doomed /\ r.dput = loc[t].dput /\ r.parent = loc[t].parent
        /\ r.path = loc[t].path /\ r.dest = loc[t].dest /\ r.body = loc[t].body
    BY <1>8, LocalsTyped DEF Locals, Typed
  <2>2. "rewrite" \in PCs
    BY DEF PCs
  <2>3. Stays /\ pc'[t] = "rewrite" /\ loc'[t] = r /\ op'[t] = op[t]
    <3>1. Steps(t, "rewrite", r) /\ r.born = loc[t].born /\ pc[t] # "clear"
      BY <1>1, <1>8, <2>1
    <3> QED BY <2>2, <3>1, StepsStay
  <2>4. Given(t)'
    BY <1>1, <1>2, <2>1, <2>3, GivenKept
  <2>7. Folder(own, t, p) /\ d = EntriesOf(i) /\ i \in Sound
        /\ Folder(own, t, q) /\ k \in Sound /\ q # NoINode
    BY <1>6, <1>7, <1>8
  <2>8. Folder(own, t, p)' /\ EntriesOf(i)' = d /\ Folder(own, t, q)'
        /\ EntriesOf(k)' = EntriesOf(k)
    BY <2>3, <2>7, StaysFacts
  <2>9. Folder(own, t, loc[t].parent)'
    BY <1>5, <2>1, <2>3, <2>8 DEF Folder, Copy
  <2>10. Source(t)' = d
    BY <1>5, <2>1, <2>3, <2>8 DEF Source
  <2>11. Victim(t)' = x /\ NameOf(loc'[t].path) = n /\ NameOf(loc'[t].dest) = m
    BY <1>4, <2>1, <2>3, <2>10 DEF Victim
  <2>12. Editing(own, t)'
    BY <2>3, <2>9 DEF Editing
  <2>13. loc'[t].held = {} /\ loc'[t].born = {} /\ loc'[t].doomed = {} /\ loc'[t].dput = NoINode
    BY <1>2, <2>1, <2>3 DEF Walking, Clean, Alone
  <2>14. Moving(own, t)'
    <3>1. CASE dp = NoINode /\ ~Binds(d, m) /\ dir = With(Without(d, n), m, x)
      BY <1>8, <2>1, <2>3, <2>10, <2>11, <2>12, <2>13, <3>1 DEF Moving
    <3>2. CASE /\ dp = q /\ i # k /\ dir = Without(d, n)
               /\ ~Binds(EntriesOf(k), m) /\ dd = With(EntriesOf(k), m, x)
      <4>1. Folder(own, t, loc[t].dparent)'
        BY <2>1, <2>3, <2>8, <3>2 DEF Folder, Copy
      <4>2. EntriesOf(loc[t].dparent.inumber)' = EntriesOf(k)
        <5>1. loc'[t].dparent.inumber = k
          BY <1>5, <2>1, <2>3, <3>2
        <5>2. EntriesOf(loc[t].dparent.inumber)' = EntriesOf(k)'
          BY <5>1 DEF EntriesOf
        <5> QED BY <2>8, <5>2
      <4>3. loc'[t].dparent # NoINode /\ loc'[t].dparent.inumber # loc'[t].parent.inumber
        BY <1>5, <2>1, <2>3, <2>7, <3>2
      <4> QED BY <1>8, <2>1, <2>3, <2>10, <2>11, <2>12, <2>13, <3>2, <4>1, <4>2, <4>3 DEF Moving
    <3> QED BY <1>8, <3>1, <3>2
  <2>17. TaskSound(own, t)'
    BY <1>1, <2>3, <2>4, <2>14 DEF TaskSound, Walks, Removing, Deleting, Creating, Linking
  <2>18. Aside(own, t)
    <3>1. Even(t)'
      BY <1>1, <2>3 DEF Even, Removing
    <3> QED BY <1>2, <3>1, EvenAsideNext
  <2> QED BY <1>1, <1>8, <2>1, <2>2, <2>17, <2>18, StepsSound DEF Registering
<1>9. ASSUME IsDirectory(Bytes(loc[t].parent.ext)), ~Unreadable(t), Binds(d, n),
             i = k, ~Binds(d, m), NEW r \in Locals, Steps(t, "rewrite", r),
             r = [loc[t] EXCEPT !.dir = With(Without(d, n), m, x)]
      PROVE  Consistent(own)'
  <2>1. PICK dir : dir = With(Without(d, n), m, x)
    OBVIOUS
  <2>2. loc[t].dparent = NoINode
    BY <1>2 DEF Walking, Clean, Alone
  <2>3. r = [loc[t] EXCEPT !.dir = dir, !.dparent = NoINode, !.ddir = loc[t].ddir]
    BY <1>9, <2>1, <2>2, LocalsTyped DEF Locals, Typed
  <2> QED BY <1>8, <1>9, <2>1, <2>3
<1>10. ASSUME IsDirectory(Bytes(loc[t].parent.ext)), ~Unreadable(t), Binds(d, n),
              i # k, ~Binds(EntriesHere(t), m), NEW r \in Locals, Steps(t, "rewrite", r),
              r = [loc[t] EXCEPT !.dir = Without(d, n), !.dparent = q,
                                 !.ddir = With(EntriesHere(t), m, x)]
      PROVE  Consistent(own)'
  BY <1>7, <1>8, <1>10
<1> QED BY <1>3, <1>4, <1>5, <1>9, <1>10, LookupMoveSteps

-----------------------------------------------------------------------------
(* Removals. The stack of a deletion has the victim and, where that is a   *)
(* hardlink, the file it refers to; nothing longer.                        *)

(* What a removal has come to, where the step changes no sound inode.      *)
LEMMA RemovalStays ==
  ASSUME Typed, Stays, NEW own \in Owners, NEW t \in Tasks,
         Folder(own, t, loc[t].parent), Binds(Source(t), NameOf(loc[t].path)),
         loc'[t].parent = loc[t].parent, loc'[t].path = loc[t].path,
         loc'[t].doomed = loc[t].doomed, op'[t] = op[t],
         Removing(t), Removing(t)'
  PROVE  /\ Source(t)' = Source(t) /\ Victim(t)' = Victim(t)
         /\ Folder(own, t, loc[t].parent)'
         /\ Mine(own, t)' <=> Mine(own, t)
         /\ Mine(own, t) =>
              /\ TargetOf(Victim(t))' = TargetOf(Victim(t))
              /\ Removable(inodes[Victim(t)])' <=> Removable(inodes[Victim(t)])
         /\ Plain(own, t) => Plain(own, t)'
         /\ Refers(own, t) => Refers(own, t)'
         /\ Followed(own, t)' <=> Followed(own, t)
         /\ Spared(own, t) => Spared(own, t)'
         /\ Aside(own, t)
<1>1. PICK p, i : p = loc[t].parent /\ i = p.inumber
  OBVIOUS
<1>2. i \in Sound /\ Folder(own, t, p)
  BY <1>1, Inside DEF Folder, Copy
<1>3. EntriesOf(i)' = EntriesOf(i) /\ Folder(own, t, p)'
  BY <1>2, StaysFacts
<1>4. Folder(own, t, loc[t].parent)'
  BY <1>1, <1>3 DEF Folder, Copy
<1>5. Source(t)' = Source(t)
  BY <1>1, <1>3 DEF Source
<1>6. PICK x : x = Victim(t) /\ x = Victim(t)'
  BY <1>5 DEF Victim
<1>7. Mine(own, t)' <=> Mine(own, t)
  BY <1>6 DEF Mine, Stays
<1>8. Mine(own, t) =>
        /\ x \in Sound /\ own[x] = t /\ inodes'[x] = inodes[x]
        /\ TargetOf(x)' = TargetOf(x)
        /\ Removable(inodes[x])' <=> Removable(inodes[x])
  BY <1>6, StaysFacts DEF Mine, Stays
<1>9. Mine(own, t) =>
        /\ TargetOf(Victim(t))' = TargetOf(x)
        /\ Removable(inodes[Victim(t)])' <=> Removable(inodes[x])
        /\ inodes'[Victim(t)'] = inodes[x]
  BY <1>6, <1>8 DEF TargetOf, Removable
<1>10. Plain(own, t) => Plain(own, t)'
  BY <1>6, <1>7, <1>8, <1>9 DEF Plain
<1>11. Followed(own, t)' <=> Followed(own, t)
  <2>1. CASE Mine(own, t)
    BY <1>6, <1>7, <1>8, <1>9, <2>1 DEF Followed
  <2>2. CASE ~Mine(own, t)
    BY <1>7, <2>2 DEF Followed
  <2> QED BY <2>1, <2>2
<1>12. Spared(own, t) => Spared(own, t)'
  BY <1>6, <1>7, <1>8 DEF Spared
<1>13. ASSUME Refers(own, t) PROVE Refers(own, t)'
  <2>1. PICK y : y = TargetOf(x)
    OBVIOUS
  <2>2. y \in Sound /\ y # x /\ own[y] = t /\ inodes[y].kind = "File" /\ Mine(own, t)
        /\ inodes[x].kind = "Hardlink" /\ loc[t].doomed = {}
    BY <1>6, <1>13, <2>1 DEF Refers
  <2>3. y \in Sound' /\ inodes'[y] = inodes[y]
    BY <2>2 DEF Stays
  <2>4. TargetOf(Victim(t))' = y
    BY <1>9, <2>1, <2>2
  <2> QED BY <1>6, <1>7, <1>8, <2>2, <2>3, <2>4 DEF Refers
<1>14. Aside(own, t)
  <2>1. \A j, e : Excused(t, j, e) => Excused(t, j, e)'
    BY DEF Excused
  <2>2. ASSUME NEW j \in Sound, ExcusedLink(own, t, j)
        PROVE  ExcusedLink(own, t, j)'
    <3>1. j = x /\ own[j] = t /\ TargetOf(j) \in loc[t].doomed
      BY <1>6, <2>2 DEF ExcusedLink
    <3>2. TargetOf(j)' = TargetOf(j)
      BY StaysFacts
    <3> QED BY <1>6, <3>1, <3>2 DEF ExcusedLink
  <2>3. ASSUME NEW j
        PROVE  Surplus(own, t, j)' <=> Surplus(own, t, j)
    BY <1>7 DEF Surplus, Removing
  <2> QED BY <2>1, <2>2, <2>3 DEF Aside
<1> QED BY <1>4, <1>5, <1>6, <1>7, <1>8, <1>9, <1>10, <1>11, <1>12, <1>13, <1>14

LEMMA UnlinkingIs ==
  ASSUME Typed, NEW own \in Owners, Consistent(own), NEW t \in Tasks,
         pc[t] \in Deleting \/ Removing(t)
  PROVE  /\ op[t] = "unlink" /\ Removing(t) /\ Unlinking(own, t) /\ Given(t)
         /\ Folder(own, t, loc[t].parent) /\ Binds(Source(t), NameOf(loc[t].path))
         /\ loc[t].stack \in Seq(INumbers) /\ Victim(t) \in INumbers
<1>1. op[t] = "unlink" /\ Removing(t)
  BY DEF Removing, Typed, Placed
<1>2. Unlinking(own, t) /\ Given(t)
  BY <1>1 DEF Consistent, TaskSound
<1>3. Folder(own, t, loc[t].parent) /\ Binds(Source(t), NameOf(loc[t].path))
  BY <1>2 DEF Unlinking, Editing
<1> QED BY <1>1, <1>2, <1>3, LocalsTyped, VictimTyped DEF Typed

(* The two stacks a deletion may have.                                     *)
LEMMA Stacks ==
  ASSUME NEW x \in INumbers, NEW y
  PROVE  /\ NameOf(<<x>>) = x /\ ParentOf(<<x>>) = <<>>
         /\ y \in INumbers => /\ NameOf(<<x, y>>) = y /\ ParentOf(<<x, y>>) = <<x>>
                              /\ Append(<<x>>, y) = <<x, y>>
         /\ <<x>> # <<>> /\ <<x, y>> # <<>> /\ <<x, y>> # <<x>>
<1>1. NameOf(<<x>>) = x /\ ParentOf(<<x>>) = <<>>
  BY DEF NameOf, ParentOf
<1>2. ASSUME y \in INumbers
      PROVE  /\ NameOf(<<x, y>>) = y /\ ParentOf(<<x, y>>) = <<x>>
             /\ Append(<<x>>, y) = <<x, y>>
  <2>1. <<x>> \in Seq(INumbers) /\ <<x, y>> \in Seq(INumbers)
        /\ Len(<<x>>) = 1 /\ Len(<<x, y>>) = 2
    BY <1>2
  <2>2. <<x>>[1] = x /\ <<x, y>>[1] = x /\ <<x, y>>[2] = y
    OBVIOUS
  <2>3. PICK s, w : s = <<x, y>> /\ w = <<x>>
    OBVIOUS
  <2>4. NameOf(s) = y
    BY <2>1, <2>2, <2>3 DEF NameOf
  <2>5. ParentOf(s) = w
    <3>1. ParentOf(s) = SubSeq(s, 1, 1)
      BY <2>1, <2>3 DEF ParentOf
    <3>2. SubSeq(s, 1, 1) \in Seq(INumbers) /\ Len(SubSeq(s, 1, 1)) = 1
          /\ SubSeq(s, 1, 1)[1] = s[1]
      <4>1. s[1] \in INumbers
        BY <2>2, <2>3
      <4> QED BY <4>1, SubSeqProperties
    <3>3. PICK v : v = SubSeq(s, 1, 1)
      OBVIOUS
    <3>4. v = w
      <4>1. v \in Seq(INumbers) /\ w \in Seq(INumbers) /\ Len(v) = 1 /\ Len(w) = 1
            /\ v[1] = w[1]
        BY <2>1, <2>2, <2>3, <3>2, <3>3
      <4>2. \A k \in 1 .. Len(v) : v[k] = w[k]
        BY <4>1
      <4> QED BY <4>1, <4>2, SeqEqual
    <3> QED BY <3>1, <3>3, <3>4
  <2>6. Append(w, y) = s
    <3>1. PICK v : v = Append(w, y)
      OBVIOUS
    <3>2. w \in Seq(INumbers) /\ s \in Seq(INumbers) /\ Len(w) = 1 /\ Len(s) = 2
          /\ w[1] = x /\ s[1] = x /\ s[2] = y
      BY <2>1, <2>2, <2>3
    <3>3. v \in Seq(INumbers) /\ Len(v) = 2 /\ v[1] = x /\ v[2] = y
      <4>1. /\ Append(w, y) \in Seq(INumbers) /\ Len(Append(w, y)) = Len(w) + 1
            /\ \A k \in 1 .. Len(w) : Append(w, y)[k] = w[k]
            /\ Append(w, y)[Len(w) + 1] = y
        <5>1. w \in Seq(INumbers)
          BY <3>2
        <5>2. y \in INumbers
          BY <1>2
        <5>3. Append(w, y) \in Seq(INumbers)
          BY <5>1, <5>2
        <5>4. Len(Append(w, y)) = Len(w) + 1
          BY <5>1, <5>2
        <5>5. \A k \in 1 .. Len(w) : Append(w, y)[k] = w[k]
          BY <5>1, <5>2
        <5>6. Append(w, y)[Len(w) + 1] = y
          BY <5>1, <5>2
        <5> QED BY <5>3, <5>4, <5>5, <5>6
      <4>2. /\ v \in Seq(INumbers) /\ Len(v) = Len(w) + 1
            /\ \A k \in 1 .. Len(w) : v[k] = w[k] /\ v[Len(w) + 1] = y
        BY <3>1, <3>2, <4>1
      <4>3. Len(w) + 1 = 2 /\ 1 \in 1 .. Len(w)
        BY <3>2
      <4> QED BY <3>2, <4>2, <4>3
    <3>4. \A k \in 1 .. Len(v) : v[k] = s[k]
      BY <3>2, <3>3
    <3>5. v = s
      BY <3>2, <3>3, <3>4, SeqEqual
    <3> QED BY <3>1, <3>5
  <2> QED BY <2>3, <2>4, <2>5, <2>6
<1> QED BY <1>1, <1>2

-----------------------------------------------------------------------------
(* The stages of a deletion, and the steps between them.                   *)

(* How far a deletion is that has nothing half done.                       *)
Stage(own, t) ==
  LET x == Victim(t)
      c == loc[t].child.inumber
      stack == loc[t].stack
  IN  /\ pc[t] = "links" =>
           \/ /\ stack = <<x>> /\ loc[t].doomed = {} /\ Mine(own, t)
              /\ Removable(inodes[x])
           \/ stack = <<x, TargetOf(x)>> /\ Refers(own, t)
      /\ pc[t] = "delete" =>
           \/ stack = <<x>> /\ (Plain(own, t) \/ Followed(own, t))
           \/ stack = <<x, TargetOf(x)>> /\ Refers(own, t)
           \/ stack = <<>> /\ Spared(own, t)
      /\ pc[t] = "drop" =>
           /\ loc[t].child = [inodes[c] EXCEPT !.nlink = @ - 1]
           /\ inodes[c].nlink > 1
           /\ Due(own, t, c) /\ ~Followed(own, t)
      /\ pc[t] = "free" =>
           /\ loc[t].child = [inodes[c] EXCEPT !.nlink = 0]
           /\ inodes[c].nlink = 1
           /\ Due(own, t, c)
      /\ pc[t] \in {"rewrite", "commit"} =>
           stack = <<>> /\ Spared(own, t)

(* The locals of t with its place in a deletion changed.                   *)
Further(t, s, sn, c) == [loc[t] EXCEPT !.stack = s, !.snap = sn, !.child = c]

(* What a step of a deletion that changes its own locals alone finds.      *)
Later(own, t, label, s, c) ==
  /\ Stays /\ pc'[t] = label /\ op'[t] = op[t]
  /\ loc'[t].stack = s /\ loc'[t].child = c /\ loc'[t].doomed = loc[t].doomed
  /\ Source(t)' = Source(t) /\ Victim(t)' = Victim(t)
  /\ Mine(own, t)' <=> Mine(own, t)
  /\ Mine(own, t) =>
       /\ TargetOf(Victim(t))' = TargetOf(Victim(t))
       /\ Removable(inodes[Victim(t)])' <=> Removable(inodes[Victim(t)])
  /\ Plain(own, t) => Plain(own, t)'
  /\ Refers(own, t) => Refers(own, t)'
  /\ Followed(own, t)' <=> Followed(own, t)
  /\ Spared(own, t) => Spared(own, t)'

(* They keep the volume consistent.                                        *)
LEMMA DeletionSteps ==
  ASSUME Typed, Typed', NEW own \in Owners, Consistent(own), NEW t \in Tasks,
         pc[t] \in {"links", "delete"},
         NEW label \in {"links", "delete", "drop", "free", "rewrite"},
         NEW r \in Locals, NEW s, NEW sn, NEW c,
         r = Further(t, s, sn, c),
         Steps(t, label, r),
         Later(own, t, label, s, c) => Stage(own, t)'
  PROVE  Consistent(own)'
<1>1. /\ op[t] = "unlink" /\ Removing(t) /\ Given(t) /\ Unlinking(own, t)
      /\ Folder(own, t, loc[t].parent) /\ Binds(Source(t), NameOf(loc[t].path))
  BY UnlinkingIs DEF Deleting
<1>2. /\ r.stack = s /\ r.child = c /\ r.doomed = loc[t].doomed
      /\ r.held = loc[t].held /\ r.born = loc[t].born /\ r.parent = loc[t].parent
      /\ r.dparent = loc[t].dparent /\ r.dput = loc[t].dput /\ r.dir = loc[t].dir
      /\ r.path = loc[t].path /\ r.dest = loc[t].dest /\ r.body = loc[t].body
  BY LocalsTyped DEF Locals, Typed, Further
<1>3. label \in PCs
  BY DEF PCs
<1>4. Stays /\ pc'[t] = label /\ loc'[t] = r /\ op'[t] = op[t]
  <2>1. Steps(t, label, r) /\ r.born = loc[t].born /\ pc[t] # "clear" /\ label # "clear"
    BY <1>2
  <2> QED BY <1>3, <2>1, StepsStay
<1>5. Removing(t)'
  BY <1>1, <1>4 DEF Removing, Deleting
<1>6. /\ Source(t)' = Source(t) /\ Victim(t)' = Victim(t)
      /\ Folder(own, t, loc[t].parent)'
      /\ Mine(own, t)' <=> Mine(own, t)
      /\ Mine(own, t) =>
           /\ TargetOf(Victim(t))' = TargetOf(Victim(t))
           /\ Removable(inodes[Victim(t)])' <=> Removable(inodes[Victim(t)])
      /\ Plain(own, t) => Plain(own, t)'
      /\ Refers(own, t) => Refers(own, t)'
      /\ Followed(own, t)' <=> Followed(own, t)
      /\ Spared(own, t) => Spared(own, t)'
      /\ Aside(own, t)
  BY <1>1, <1>2, <1>4, <1>5, RemovalStays
<1>7. Later(own, t, label, s, c)
  BY <1>2, <1>4, <1>6 DEF Later
<1>8. Stage(own, t)'
  BY <1>7
<1>9. Editing(own, t)'
  BY <1>4, <1>6 DEF Editing
<1>10. Unlinking(own, t)'
  <2>1. loc'[t].born = {} /\ Alone(t)' /\ loc'[t].held = {}
        /\ Binds(Source(t)', NameOf(loc'[t].path))
        /\ loc'[t].dir = Without(Source(t)', NameOf(loc'[t].path))
    BY <1>1, <1>2, <1>4, <1>6 DEF Unlinking, Alone
  <2>2. pc'[t] # "commit" /\ pc'[t] # "clear"
    BY <1>4
  <2> QED BY <1>8, <1>9, <2>1, <2>2 DEF Unlinking, Stage
<1>11. Given(t)'
  BY <1>1, <1>2, <1>4, GivenKept
<1>12. TaskSound(own, t)'
  BY <1>1, <1>4, <1>10, <1>11 DEF TaskSound, Walks, Creating, Linking
<1>13. label \notin {"born", "clear"} /\ pc[t] \notin {"idle", "born", "clear"}
  OBVIOUS
<1> QED BY <1>2, <1>3, <1>6, <1>12, <1>13, StepsSound DEF Registering

-----------------------------------------------------------------------------
(* The victim turns out to be a hardlink, and what it refers to is added.  *)

LEMMA SamePlace ==
  ASSUME Typed, NEW t \in Tasks
  PROVE  loc[t] = Further(t, loc[t].stack, loc[t].snap, loc[t].child)
  BY LocalsTyped DEF Typed, Locals, Further

(* What the file is that a hardlink about to be deleted refers to.         *)
LEMMA VictimRefers ==
  ASSUME Typed, NEW own \in Owners, Consistent(own), NEW t \in Tasks,
         Mine(own, t), inodes[Victim(t)].kind = "Hardlink", loc[t].doomed = {}
  PROVE  Refers(own, t)
<1>1. PICK x : x = Victim(t)
  OBVIOUS
<1>2. x \in Sound /\ own[x] = t /\ inodes[x].kind = "Hardlink"
  BY <1>1 DEF Mine
<1>3. ASSUME NEW u \in Tasks, ExcusedLink(own, u, x) PROVE FALSE
  <2>1. own[x] = u /\ TargetOf(x) \in loc[u].doomed
    BY <1>3 DEF ExcusedLink
  <2> QED BY <1>2, <2>1
<1>4. Leads(own, x, TargetOf(x)) /\ inodes[TargetOf(x)].kind = "File"
  BY <1>2, <1>3 DEF Consistent, Shared, NodesSound, NodeSound, HardlinkSound
<1>5. PICK y : y = TargetOf(x)
  OBVIOUS
<1>6. y \in Sound /\ own[y] = t /\ inodes[y].kind = "File" /\ y # x
  BY <1>2, <1>4, <1>5, SharingAssumption, Inside DEF Leads
<1> QED BY <1>1, <1>5, <1>6 DEF Refers

LEMMA FollowLinkSound ==
  ASSUME Typed, Typed', NEW own \in Owners, Consistent(own), NEW t \in Tasks,
         FollowLink(t), Intact'
  PROVE  Consistent(own)'
<1>1. pc[t] = "links"
  BY DEF FollowLink
<1>2. /\ Unlinking(own, t) /\ Victim(t) \in INumbers /\ loc[t].stack \in Seq(INumbers)
  BY <1>1, UnlinkingIs DEF Deleting
<1>3. PICK x, y : x = Victim(t) /\ y = TargetOf(x)
  OBVIOUS
<1>4. \/ /\ loc[t].stack = <<x>> /\ loc[t].doomed = {} /\ Mine(own, t) /\ Removable(inodes[x])
      \/ loc[t].stack = <<x, y>> /\ Refers(own, t)
  BY <1>1, <1>2, <1>3 DEF Unlinking
<1>5. PICK i : i = NameOf(loc[t].stack)
  OBVIOUS
<1>6. /\ x \in INumbers /\ x \in Sound /\ own[x] = t /\ x \in bits /\ Mine(own, t)
      /\ Refers(own, t) => y \in INumbers /\ y \in bits /\ inodes[y].kind = "File"
  BY <1>2, <1>3, <1>4, Inside DEF Refers, Mine
<1>7. \/ loc[t].stack = <<x>> /\ i = x
      \/ loc[t].stack = <<x, y>> /\ i = y /\ Refers(own, t)
  BY <1>4, <1>5, <1>6, Stacks
<1>8. CASE Fail(t)
  BY <1>1, <1>8, FailureSound
<1>9. CASE (i \notin bits \/ inodes[i].kind # "Hardlink") /\ Steps(t, "delete", loc[t])
  <2>1. PICK r : r = loc[t]
    OBVIOUS
  <2>2. r \in Locals /\ Steps(t, "delete", r)
        /\ r = Further(t, loc[t].stack, loc[t].snap, loc[t].child)
    BY <1>9, <2>1, SamePlace, LocalsTyped DEF Typed
  <2>3. \/ loc[t].stack = <<x>> /\ Plain(own, t)
        \/ loc[t].stack = <<x, y>> /\ Refers(own, t)
    BY <1>3, <1>4, <1>6, <1>7, <1>9 DEF Plain
  <2>4. ASSUME Later(own, t, "delete", loc[t].stack, loc[t].child)
        PROVE  Stage(own, t)'
    BY <1>3, <1>6, <2>3, <2>4 DEF Later, Stage
  <2> QED BY <1>1, <2>2, <2>4, DeletionSteps
<1>10. ASSUME inodes[i].kind = "Hardlink", i \in bits,
              NEW r \in Locals, Steps(t, pc[t], r),
              r = [loc[t] EXCEPT !.stack = Append(loc[t].stack, Bytes(inodes[i].ext).target)]
       PROVE  Consistent(own)'
  <2>1. loc[t].stack = <<x>> /\ i = x /\ loc[t].doomed = {}
    BY <1>4, <1>6, <1>7, <1>10
  <2>2. Refers(own, t)
    BY <1>3, <1>6, <1>10, <2>1, VictimRefers
  <2>3. PICK s : s = <<x, y>>
    OBVIOUS
  <2>4. Append(loc[t].stack, Bytes(inodes[i].ext).target) = s
    BY <1>3, <1>6, <2>1, <2>2, <2>3, Stacks DEF TargetOf
  <2>5. r = Further(t, s, loc[t].snap, loc[t].child)
    BY <1>10, <2>4, LocalsTyped DEF Typed, Locals, Further
  <2>6. ASSUME Later(own, t, "links", s, loc[t].child)
        PROVE  Stage(own, t)'
    BY <1>3, <1>6, <2>2, <2>3, <2>6 DEF Later, Stage
  <2>7. Steps(t, "links", r)
    BY <1>1, <1>10
  <2> QED BY <1>1, <2>5, <2>6, <2>7, DeletionSteps
<1> QED BY <1>5, <1>8, <1>9, <1>10, FollowLinkSteps

-----------------------------------------------------------------------------
(* The next inode of a deletion is looked at, to be counted down or freed. *)

LEMMA DeleteNextSound ==
  ASSUME Typed, Typed', NEW own \in Owners, Consistent(own), NEW t \in Tasks,
         DeleteNext(t), Intact'
  PROVE  Consistent(own)'
<1>1. pc[t] = "delete"
  BY DEF DeleteNext
<1>2. /\ Unlinking(own, t) /\ Victim(t) \in INumbers /\ loc[t].stack \in Seq(INumbers)
  BY <1>1, UnlinkingIs DEF Deleting
<1>3. PICK x, y : x = Victim(t) /\ y = TargetOf(x)
  OBVIOUS
<1>4. \/ loc[t].stack = <<x>> /\ (Plain(own, t) \/ Followed(own, t))
      \/ loc[t].stack = <<x, y>> /\ Refers(own, t)
      \/ loc[t].stack = <<>> /\ Spared(own, t)
  BY <1>1, <1>2, <1>3 DEF Unlinking
<1>5. PICK i : i = NameOf(loc[t].stack)
  OBVIOUS
<1>6. /\ x \in INumbers
      /\ Plain(own, t) \/ Followed(own, t) => x \in Sound /\ x \in bits
      /\ Refers(own, t) => y \in INumbers /\ y \in Sound /\ y \in bits
  BY <1>2, <1>3, <1>4, Inside DEF Plain, Followed, Refers, Mine
<1>7. CASE loc[t].stack = <<>> /\ Steps(t, "rewrite", loc[t])
  <2>1. PICK r : r = loc[t]
    OBVIOUS
  <2>2. r \in Locals /\ Steps(t, "rewrite", r)
        /\ r = Further(t, loc[t].stack, loc[t].snap, loc[t].child)
    BY <1>7, <2>1, SamePlace, LocalsTyped DEF Typed
  <2>3. Spared(own, t)
    BY <1>4, <1>7, Stacks, <1>6
  <2>4. ASSUME Later(own, t, "rewrite", loc[t].stack, loc[t].child)
        PROVE  Stage(own, t)'
    BY <1>7, <2>3, <2>4 DEF Later, Stage
  <2> QED BY <1>1, <2>2, <2>4, DeletionSteps
<1>8. ASSUME loc[t].stack # <<>>
      PROVE  /\ i \in INumbers /\ i \in Sound /\ i \in bits
             /\ \/ /\ i = x /\ ParentOf(loc[t].stack) = <<>>
                   /\ Plain(own, t) \/ Followed(own, t)
                \/ /\ i = y /\ ParentOf(loc[t].stack) = <<x>>
                   /\ Refers(own, t)
  <2>1. CASE loc[t].stack = <<x>> /\ (Plain(own, t) \/ Followed(own, t))
    BY <1>5, <1>6, <2>1, Stacks
  <2>2. CASE loc[t].stack = <<x, y>> /\ Refers(own, t)
    BY <1>5, <1>6, <2>2, Stacks
  <2> QED BY <1>4, <1>8, <2>1, <2>2
<1>9. ASSUME loc[t].stack # <<>>, NEW r \in Locals,
             r = [loc[t] EXCEPT
                    !.stack = ParentOf(loc[t].stack),
                    !.snap = bits \cap INodesOf(GroupOf(i)),
                    !.child = [inodes[i] EXCEPT !.nlink = Left(i)]],
             Steps(t, IF Left(i) = 0 THEN "free" ELSE "drop", r)
      PROVE  Consistent(own)'
  <2>1. PICK s, sn, c : /\ s = ParentOf(loc[t].stack)
                        /\ sn = bits \cap INodesOf(GroupOf(i))
                        /\ c = [inodes[i] EXCEPT !.nlink = Left(i)]
    OBVIOUS
  <2>2. r = Further(t, s, sn, c)
    BY <1>9, <2>1 DEF Further
  <2>3. PICK label : label = IF Left(i) = 0 THEN "free" ELSE "drop"
    OBVIOUS
  <2>4. label \in {"links", "delete", "drop", "free", "rewrite"} /\ Steps(t, label, r)
    BY <1>9, <2>3
  <2>5. /\ inodes[i].inumber = i /\ inodes[i] \in INode /\ inodes[i].nlink \in Nat
        /\ inodes[i].nlink >= 1
        /\ inodes[i].kind # "File" => inodes[i].nlink = 1
    BY <1>8, <1>9, Inside DEF Consistent, Shared, ContentSound
  <2>6. /\ Left(i) = inodes[i].nlink - 1
        /\ label = "free" <=> inodes[i].nlink = 1
        /\ label = "drop" <=> inodes[i].nlink > 1
    BY <2>3, <2>5 DEF Left
  <2>7. c.inumber = i /\ c = [inodes[i] EXCEPT !.nlink = inodes[i].nlink - 1]
    BY <2>1, <2>5, <2>6 DEF INode
  <2>8. label = "drop" => inodes[i].kind = "File"
    BY <2>5, <2>6
  <2>9. \/ s = <<>> /\ i = x /\ (Plain(own, t) \/ Followed(own, t))
        \/ s = <<x>> /\ i = y /\ Refers(own, t)
    BY <1>8, <1>9, <2>1
  <2>10. label = "drop" => ~Followed(own, t)
    BY <1>3, <2>8, <2>9 DEF Followed, Refers
  <2>11. label \in {"drop", "free"}
    BY <2>3
  <2>12. ASSUME Later(own, t, label, s, c)
         PROVE  Stage(own, t)'
    <3>1. /\ pc'[t] = label /\ loc'[t].stack = s /\ loc'[t].child = c
          /\ Victim(t)' = x /\ inodes'[i] = inodes[i]
          /\ Refers(own, t) => Refers(own, t)' /\ TargetOf(Victim(t))' = y
          /\ Plain(own, t) => Plain(own, t)'
          /\ Followed(own, t)' <=> Followed(own, t)
      BY <1>3, <1>8, <1>9, <2>12 DEF Later, Stays, Refers
    <3>2. \/ loc'[t].stack = <<>> /\ i = Victim(t)' /\ (Plain(own, t)' \/ Followed(own, t)')
          \/ loc'[t].stack = <<Victim(t)'>> /\ Refers(own, t)' /\ i = TargetOf(Victim(t))'
      BY <2>9, <3>1
    <3>3. Due(own, t, loc[t].child.inumber)'
      BY <2>7, <3>1, <3>2 DEF Due
    <3>4. label = "drop" =>
           /\ loc'[t].child = [inodes'[i] EXCEPT !.nlink = @ - 1]
           /\ inodes'[i].nlink > 1
           /\ ~Followed(own, t)'
      BY <2>6, <2>7, <2>10, <3>1
    <3>5. label = "free" =>
           /\ loc'[t].child = [inodes'[i] EXCEPT !.nlink = 0]
           /\ inodes'[i].nlink = 1
      BY <2>5, <2>6, <2>7, <3>1
    <3> QED BY <2>7, <2>11, <3>1, <3>3, <3>4, <3>5 DEF Stage
  <2> QED BY <1>1, <2>2, <2>4, <2>12, DeletionSteps
<1> QED BY <1>5, <1>7, <1>8, <1>9, DeleteNextSteps
=============================================================================
