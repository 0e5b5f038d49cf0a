----------------------------- MODULE Namespace -----------------------------
(***************************************************************************)
(* Inodes, directories and links of XHFS (xhfs-core/src/xhfs/mod.rs): the  *)
(* inode bitmaps and table, path resolution, and the steps of fwrite,      *)
(* fappend, create_symlink, create_hardlink, mkdir, unlink, fmove, ls and  *)
(* of the reads (fread, fread_stream, fseek).                              *)
(*                                                                         *)
(* One action is one access that other tasks, or a crash, can fall between:*)
(* the walk over one path component, an allocation, the registration of an *)
(* inode, the release of a chain.  A chain of extents is one extent here:  *)
(* what happens inside of allocate_and_write_extent, free_full_extent and  *)
(* append_or_allocate_extent, alloc_guard included, is in ExtentStore.  A  *)
(* freed extent keeps its bytes until it is allocated again; a run in      *)
(* which nothing reads them may scrub them, to have fewer states.          *)
(*                                                                         *)
(* An operation that returns an error before it has changed anything is    *)
(* not started.                                                            *)
(***************************************************************************)
EXTENDS Integers, Sequences, FiniteSets

CONSTANTS
  Tasks,           \* callers of one XHFS value
  NoTask,          \* "nobody holds alloc_guard"
  Names,           \* names of directory entries
  Unstorable,      \* those too long, or with control characters in them
  GroupCount,      \* Format.group_count
  InodesPerGroup,  \* GeometryLayout.n_inodes_in_group
  ExtentCount,     \* how many extents the device has room for
  MaxDepth,        \* components of the longest path a caller names
  Bodies,          \* what callers write: "empty", or any other value
  Ops,             \* operations the tasks may start
  Overwrite,       \* operations called with WriteOption.overwrite
  RelativeMoves,   \* whether fmove may get one relative and one absolute path
  Made,            \* directories made under the root before the tasks start
  Home,            \* the directory under which each task names paths
  Scrub,           \* whether a freed extent loses its bytes
  MaxLost,         \* bound: with more lost than this no operation starts
  MaxCrashes       \* bound on the number of crashes and cancelled tasks

AllOps ==
  {"write", "append", "symlink", "hardlink", "mkdir", "unlink", "move", "ls",
   "read"}

ASSUME SharingAssumption == NoTask \notin Tasks
ASSUME SizeAssumption ==
  /\ GroupCount \in Nat \ {0}
  /\ InodesPerGroup \in Nat \ {0}
  /\ ExtentCount \in Nat
  /\ MaxDepth \in Nat
ASSUME CallerAssumption ==
  /\ Ops \subseteq AllOps
  /\ Overwrite \subseteq {"write", "symlink", "hardlink"}
  /\ {RelativeMoves, Scrub} \subseteq BOOLEAN
  /\ Unstorable \subseteq Names
  /\ Made \in Seq(Names \ Unstorable)
  /\ Len(Made) < InodesPerGroup
  /\ \A k, l \in DOMAIN Made : Made[k] = Made[l] => k = l
  /\ Made = <<>> \/ ExtentCount > 0
  /\ Home \in [Tasks -> Seq(Names)]
  /\ {MaxLost, MaxCrashes} \subseteq Nat

None == 0
Extents == 1 .. ExtentCount
INumbers == 1 .. (GroupCount * InodesPerGroup)
Root == 1
Groups == 0 .. (GroupCount - 1)
GroupOf(i) == (i - 1) \div InodesPerGroup
FromZero(g) ==                            \* as if inumbers began with 0
  (g * InodesPerGroup) .. ((g + 1) * InodesPerGroup - 1)
INodesOf(g) == (g * InodesPerGroup + 1) .. ((g + 1) * InodesPerGroup)

Kinds == {"Directory", "File", "Symlink", "Hardlink"}
INode == [inumber : INumbers \cup {None}, kind : Kinds, nlink : Nat,
          ext : Extents \cup {None}]
NoINode == [inumber |-> None, kind |-> "File", nlink |-> 0, ext |-> None]

(* Paths are sequences of names.  parent(), file_name(), starts_with().   *)
Paths == UNION {[1 .. n -> Names] : n \in 0 .. MaxDepth}
PathsOf(t) == {p \in Paths : Len(p) > Len(Home[t])
                             /\ SubSeq(p, 1, Len(Home[t])) = Home[t]}
(* What could be found, and what a call can get as far as to create.       *)
Found(t) == {p \in PathsOf(t) : \A k \in DOMAIN p : p[k] \notin Unstorable}
Created(t) ==
  {p \in PathsOf(t) : \A k \in 1 .. (Len(p) - 1) : p[k] \notin Unstorable}
ParentOf(p) == SubSeq(p, 1, Len(p) - 1)
NameOf(p) == p[Len(p)]
StartsWith(p, q) == Len(q) <= Len(p) /\ SubSeq(p, 1, Len(q)) = q

(* What an extent holds, by how it can be parsed. *)
Blank == [form |-> "blank", entries |-> {}, path |-> <<>>, target |-> None,
          data |-> "empty"]
DirBytes(d) == [Blank EXCEPT !.form = "dir", !.entries = d]
PathBytes(p) == [Blank EXCEPT !.form = "path", !.path = p]
NumberBytes(i) == [Blank EXCEPT !.form = "number", !.target = i]
DataBytes(x) == IF x = "empty" THEN Blank
                ELSE [Blank EXCEPT !.form = "data", !.data = x]

(* Directory::deserialize: no bytes are an empty directory. *)
IsDirectory(b) == b.form \in {"blank", "dir"}
Entry == [name : Names, inumber : INumbers]
Binds(d, n) == \E e \in d : e.name = n
Bound(d, n) == (CHOOSE e \in d : e.name = n).inumber
Without(d, n) == {e \in d : e.name # n}
With(d, n, i) == d \cup {[name |-> n, inumber |-> i]}
(* Directory::serialize refuses what only now turns out to be no name.     *)
Storable(d) == \A e \in d : e.name \notin Unstorable

-----------------------------------------------------------------------------
VARIABLES
  (* on the device *)
  bits,     \* the inode bitmaps of all groups: the inumbers marked true
  inodes,   \* the inode tables
  used,     \* the allocated extents
  disk,     \* the bytes of each extent
  (* in memory *)
  guard,    \* the task in the middle of allocate_inode_near or of
            \* register_inode, or NoTask
  pc,       \* where each task is
  op,       \* its operation
  loc,      \* its local variables
  (* history *)
  lost,     \* extents a failed or cut operation left allocated
  orphans,  \* inodes it left allocated and in no directory
  doomed,   \* inodes whose deletion was cut after it began, entry still there
  clobbered, \* inodes whose bit was overwritten by a bitmap read before it
             \* changed
  crashes

device == <<bits, inodes, used, disk>>
history == <<lost, orphans, doomed, clobbered, crashes>>
vars == <<bits, inodes, used, disk, guard, pc, op, loc, lost, orphans, doomed,
          clobbered, crashes>>

Idle ==
  [path |-> <<>>,      \* the path named, for fmove and fcopy the source
   dest |-> <<>>,      \* the destination, or what a link refers to
   body |-> "empty",   \* the data
   recursive |-> FALSE,
   rest |-> <<>>,      \* components still to resolve
   node |-> NoINode,   \* the inode reached
   parent |-> NoINode, \* copy of the directory's inode
   dir |-> {},         \* its entries, changed in memory
   dparent |-> NoINode, ddir |-> {},   \* the same for fmove's destination
   child |-> NoINode,  \* copy of the entry's inode
   target |-> NoINode, \* copy of the inode a new hardlink refers to
   stack |-> <<>>,     \* deletion_stack
   inum |-> None,      \* the inumber chosen
   snap |-> {},        \* an inode bitmap read earlier
   put |-> NoINode, old |-> None,      \* inode to register, chain to free
   dput |-> NoINode, dold |-> None,    \* the same for fmove's destination
   held |-> {},        \* history: extents of this operation in no inode
   born |-> {},        \* history: inodes of this operation in no directory
   doomed |-> {}]      \* history: inodes it has freed, or counted down

(* The volume as format_new leaves it, and the directories in Made. *)
Init ==
  LET made == {[name |-> Made[k], inumber |-> k + 1] : k \in DOMAIN Made}
      dir(i, e) == [inumber |-> i, kind |-> "Directory", nlink |-> 1,
                    ext |-> e]
      rootExt == IF Made = <<>> THEN None ELSE 1
  IN  /\ bits = 1 .. (Len(Made) + 1)
      /\ inodes = [i \in INumbers |->
                     IF i = Root THEN dir(Root, rootExt)
                     ELSE IF i \in bits THEN dir(i, None) ELSE NoINode]
      /\ used = {rootExt} \ {None}
      /\ disk = [e \in Extents |-> IF e \in used THEN DirBytes(made) ELSE Blank]
      /\ guard = NoTask
      /\ pc = [t \in Tasks |-> "idle"]
      /\ op = [t \in Tasks |-> "ls"]
      /\ loc = [t \in Tasks |-> Idle]
      /\ lost = {} /\ orphans = {} /\ doomed = {} /\ clobbered = {}
      /\ crashes = 0

Goto(t, label) == pc' = [pc EXCEPT ![t] = label]

Return(t) ==
  /\ Goto(t, "idle")
  /\ op' = [op EXCEPT ![t] = "ls"]
  /\ loc' = [loc EXCEPT ![t] = Idle]

(* An error is returned: nothing that was allocated is given back. *)
Fail(t) ==
  /\ Return(t)
  /\ lost' = lost \cup loc[t].held
  /\ orphans' = orphans \cup loc[t].born
  /\ doomed' = doomed \cup loc[t].doomed
  /\ UNCHANGED <<device, guard, clobbered, crashes>>

Bytes(e) == IF e = None THEN Blank ELSE disk[e]
Full == used = Extents

(* The step of a task that changes nothing but its own locals. *)
Private == UNCHANGED <<device, guard, op, history>>

-----------------------------------------------------------------------------
(* Starting an operation: the caller's arguments, and the walk ahead.      *)

Start(t, o, label, args) ==
  /\ pc[t] = "idle"
  /\ o \in Ops
  /\ Cardinality(lost) + Cardinality(orphans \cup doomed) <= MaxLost
  /\ clobbered = {}
  /\ op' = [op EXCEPT ![t] = o]
  /\ Goto(t, label)
  /\ loc' = [loc EXCEPT ![t] = args]
  /\ UNCHANGED <<device, guard, history>>

Toward(path, args) ==
  [args EXCEPT !.node = inodes[Root], !.rest = path]

(* blob_write asks for room before it resolves the parent. *)
StartWrite(t) ==
  \E p \in Created(t), x \in Bodies :
    /\ ~Full
    /\ Start(t, "write", "parent",
             Toward(ParentOf(p), [Idle EXCEPT !.path = p, !.body = x]))

StartAppend(t) ==
  \E p \in Found(t), x \in Bodies :
    Start(t, "append", "append", Toward(p, [Idle EXCEPT !.body = x]))

(* create_symlink resolves the parent of what the link refers to, and      *)
(* create_hardlink the file itself, before blob_write.                     *)
StartSymlink(t) ==
  \E p, q \in Created(t) :
    Start(t, "symlink", "content",
          Toward(ParentOf(q), [Idle EXCEPT !.path = p, !.dest = q]))

StartHardlink(t) ==
  \E p \in Created(t), q \in Found(t) :
    Start(t, "hardlink", "content",
          Toward(q, [Idle EXCEPT !.path = p, !.dest = q]))

StartMkdir(t) ==
  \E p \in Created(t), r \in BOOLEAN :
    Start(t, "mkdir", "mkdir",
          Toward(p, [Idle EXCEPT !.path = p, !.recursive = r]))

StartUnlink(t) ==
  \E p \in Found(t) :
    Start(t, "unlink", "parent", Toward(ParentOf(p), [Idle EXCEPT !.path = p]))

(* fmove compares the paths as they are written: a relative path is never  *)
(* a prefix of an absolute one, though both are resolved from the root.    *)
Refused(p, q, mixed) == ~mixed /\ StartsWith(q, p)

StartMove(t) ==
  \E p \in Found(t), q \in Created(t), mixed \in {FALSE, RelativeMoves} :
    /\ ~Refused(p, q, mixed)
    /\ Start(t, "move", "parent",
             Toward(ParentOf(p), [Idle EXCEPT !.path = p, !.dest = q]))

StartLs(t) ==
  \E p \in Found(t) :
    Start(t, "ls", "ls", Toward(p, [Idle EXCEPT !.path = p]))

StartRead(t) ==
  \E p \in Found(t) : Start(t, "read", "read", Toward(p, Idle))

-----------------------------------------------------------------------------
(* resolve_path: one component per step, read through the bitmap.          *)

Resolvable(d, n) == Binds(d, n) /\ Bound(d, n) \in bits

Resolves(node, n) ==
  /\ node.kind = "Directory"
  /\ IsDirectory(Bytes(node.ext))
  /\ Resolvable(Bytes(node.ext).entries, n)

Walk(t) ==
  /\ pc[t] \in {"content", "parent", "dest", "append", "ls", "read",
               "readLinked"}
  /\ loc[t].rest # <<>>
  /\ LET node == loc[t].node
         n == Head(loc[t].rest)
     IN  IF Resolves(node, n)
         THEN /\ loc' = [loc EXCEPT
                   ![t].node = inodes[Bound(Bytes(node.ext).entries, n)],
                   ![t].rest = Tail(@)]
              /\ UNCHANGED pc /\ Private
         ELSE Fail(t)

At(t, label) == pc[t] = label /\ loc[t].rest = <<>>

(* The entries of the directory reached.  resolve_parent does not ask      *)
(* whether it is one.                                                      *)
Reached(t) == Bytes(loc[t].node.ext)
Unreadable(t) == ~IsDirectory(Reached(t))
EntriesHere(t) == Reached(t).entries

-----------------------------------------------------------------------------
(* Allocation, registration and release, each under alloc_guard.           *)

Fresh == CHOOSE e \in Extents \ used : \A f \in Extents \ used : e <= f

(* allocate_and_write_extent: no bytes, no extent. *)
Allocates(b, e) ==
  /\ guard = NoTask
  /\ IF b.form = "blank"
     THEN e = None /\ UNCHANGED <<used, disk>>
     ELSE /\ ~Full
          /\ e = Fresh
          /\ used' = used \cup {e}
          /\ disk' = [disk EXCEPT ![e] = b]
Insufficient(b) == guard = NoTask /\ b.form # "blank" /\ Full

WriteNothing(i, bitmap) == UNCHANGED bits      \* as if only memory changed
WriteBitmap(i, bitmap) == bits' = (bits \ INodesOf(GroupOf(i))) \cup bitmap

(* The bits that others changed since t read the bitmap it writes back.    *)
Clobber(t, i) ==
  LET now == bits \cap INodesOf(GroupOf(i))
  IN  clobbered' = clobbered \cup (((now \ loc[t].snap) \cup (loc[t].snap \ now))
                                   \ {i})

(* register_inode(overwrite = true) takes alloc_guard and reads the bitmap *)
(* of the group, writes the inode, and writes the whole bitmap back with   *)
(* the bit set, whatever it was.  A deletion, which does not take the      *)
(* guard, can clear another bit in between.                                *)
Registering == {"commit", "commitDest", "bump", "drop"}
Registered(t) == CASE pc[t] = "commit" -> loc[t].put
                   [] pc[t] = "commitDest" -> loc[t].dput
                   [] pc[t] = "bump" -> loc[t].target
                   [] pc[t] = "drop" -> loc[t].child

ReadBitmap(t) ==
  /\ pc[t] \in Registering
  /\ guard = NoTask
  /\ guard' = t
  /\ loc' = [loc EXCEPT
       ![t].snap = bits \cap INodesOf(GroupOf(Registered(t).inumber))]
  /\ UNCHANGED <<device, pc, op, history>>

(* The two writes are one step.  While no bit was cleared the second       *)
(* changes nothing; where one was, what a task could see between the two   *)
(* is what it sees when the bit is cleared before the bitmap is read.      *)
Register(t, inode) ==
  /\ guard = t
  /\ guard' = NoTask
  /\ inodes' = [inodes EXCEPT ![inode.inumber] = inode]
  /\ WriteBitmap(inode.inumber, loc[t].snap \cup {inode.inumber})
  /\ Clobber(t, inode.inumber)

(* As if the chain were forgotten. *)
ReleaseNothing(e) == guard = NoTask /\ UNCHANGED <<used, disk>>

Release(e) ==
  /\ guard = NoTask
  /\ used' = used \ {e}
  /\ disk' = [f \in Extents |-> IF Scrub /\ f = e THEN Blank ELSE disk[f]]

(* As if the old chain were freed as soon as the new one is written. *)
StoreAndFree(t, b, inode, label) ==
  \/ \E e \in {Fresh} :
       /\ guard = NoTask /\ ~Full
       /\ used' = (used \ {inode.ext}) \cup {e}
       /\ disk' = [disk EXCEPT ![e] = b]
       /\ loc' = [loc EXCEPT ![t].put = [inode EXCEPT !.ext = e],
                             ![t].old = None,
                             ![t].held = @ \cup ({e} \ {None})]
       /\ Goto(t, label)
       /\ UNCHANGED <<bits, inodes, guard, op, history>>
  \/ Insufficient(b) /\ Fail(t)
(* Store b as the new content of inode, which is to be registered next.    *)
StoreFor(t, b, inode, label) ==
  \/ \E e \in Extents \cup {None} :
       /\ Allocates(b, e)
       /\ loc' = [loc EXCEPT ![t].put = [inode EXCEPT !.ext = e],
                             ![t].old = inode.ext,
                             ![t].held = @ \cup ({e} \ {None})]
       /\ Goto(t, label)
       /\ UNCHANGED <<bits, inodes, guard, op, history>>
  \/ Insufficient(b) /\ Fail(t)

Commit(t) ==
  /\ pc[t] = "commit"
  /\ Register(t, loc[t].put)
  /\ IF op[t] = "append"
     THEN Return(t)
     ELSE /\ loc' = [loc EXCEPT
               ![t].held = (@ \cup {loc[t].old}) \ {loc[t].put.ext, None},
               ![t].born = {}]
          /\ Goto(t, "release")
          /\ UNCHANGED op
  /\ UNCHANGED <<used, disk, lost, orphans, doomed, crashes>>

(* What an operation goes on with once the chain it replaced is free. *)
ReleaseOld(t) ==
  /\ pc[t] = "release"
  /\ Release(loc[t].old)
  /\ \/ /\ op[t] = "hardlink" /\ Goto(t, "bump")
        /\ loc' = [loc EXCEPT ![t].held = @ \ {loc[t].old}]
        /\ UNCHANGED op
     \/ /\ op[t] = "move" /\ loc[t].dput # NoINode /\ Goto(t, "releaseDest")
        /\ loc' = [loc EXCEPT ![t].held = @ \ {loc[t].old}]
        /\ UNCHANGED op
     \/ /\ op[t] = "mkdir" /\ Goto(t, "mkdir")
        /\ loc' = [loc EXCEPT ![t].held = @ \ {loc[t].old},
                              ![t].node = loc[t].child,
                              ![t].rest = Tail(@)]
        /\ UNCHANGED op
     \/ /\ \/ op[t] \in {"write", "symlink", "unlink"}
           \/ (op[t] = "move" /\ loc[t].dput = NoINode)
        /\ Return(t)
  /\ UNCHANGED <<bits, inodes, guard, history>>

-----------------------------------------------------------------------------
(* blob_write: fwrite, and the payload of a link.                          *)

(* create_hardlink goes on only with a file; both go on only with room.    *)
ContentResolved(t) ==
  /\ At(t, "content")
  /\ IF Full \/ (op[t] = "hardlink" /\ loc[t].node.kind # "File")
     THEN Fail(t)
     ELSE /\ loc' = [loc EXCEPT ![t].target = loc[t].node,
                                ![t].node = inodes[Root],
                                ![t].rest = ParentOf(loc[t].path)]
          /\ Goto(t, "parent")
          /\ Private

KindOf(o) == CASE o = "write" -> "File"
               [] o = "symlink" -> "Symlink"
               [] o = "hardlink" -> "Hardlink"
               [] o = "mkdir" -> "Directory"

Payload(t) == CASE op[t] = "symlink" -> PathBytes(loc[t].dest)
                [] op[t] = "hardlink" -> NumberBytes(loc[t].target.inumber)
                [] OTHER -> DataBytes(loc[t].body)

(* Only a file or a symlink is written over, and it keeps its kind. *)
Writable(t, inode) ==
  op[t] \in Overwrite /\ inode.kind \in {"File", "Symlink"}

LookupWrite(t) ==
  /\ At(t, "parent")
  /\ op[t] \in {"write", "symlink", "hardlink"}
  /\ LET n == NameOf(loc[t].path)
         d == EntriesHere(t)
     IN  IF Unreadable(t) THEN Fail(t)
         ELSE IF ~Binds(d, n)
         THEN /\ loc' = [loc EXCEPT ![t].parent = loc[t].node, ![t].dir = d]
              /\ Goto(t, "data")
              /\ Private
         ELSE IF Resolvable(d, n) /\ Writable(t, inodes[Bound(d, n)])
         THEN /\ loc' = [loc EXCEPT ![t].child = inodes[Bound(d, n)]]
              /\ Goto(t, "replace")
              /\ Private
         ELSE Fail(t)

Replace(t) ==
  /\ pc[t] = "replace"
  /\ StoreFor(t, Payload(t), loc[t].child, "commit")

(* The data of a new file is stored before its inode is allocated. *)
StoreData(t) ==
  /\ pc[t] = "data"
  /\ \/ \E e \in Extents \cup {None} :
          /\ Allocates(Payload(t), e)
          /\ loc' = [loc EXCEPT ![t].child.ext = e,
                                ![t].held = @ \cup ({e} \ {None})]
          /\ Goto(t, "choose")
          /\ UNCHANGED <<bits, inodes, guard, op, history>>
     \/ Insufficient(Payload(t)) /\ Fail(t)

-----------------------------------------------------------------------------
(* allocate_inode_near: under alloc_guard, the first free inode of the     *)
(* first group that has one, round from the group of the parent.           *)

GroupFrom(t, k) == (GroupOf(loc[t].parent.inumber) + k) % GroupCount
FreeIn(g) == INodesOf(g) \ bits
Nearest(t) ==
  CHOOSE g \in Groups : \E k \in Groups :
    /\ g = GroupFrom(t, k) /\ FreeIn(g) # {}
    /\ \A j \in 0 .. (k - 1) : FreeIn(GroupFrom(t, j)) = {}

(* As if alloc_guard were not taken. *)
ChooseUnguarded(t) ==
  /\ pc[t] = "choose"
  /\ IF bits = INumbers THEN Fail(t)
     ELSE LET free == FreeIn(Nearest(t))
          IN  /\ loc' = [loc EXCEPT
                   ![t].inum = CHOOSE i \in free : \A j \in free : i <= j,
                   ![t].snap = bits \cap INodesOf(Nearest(t))]
              /\ Goto(t, "born")
              /\ UNCHANGED <<device, guard, op, history>>

ChooseInode(t) ==
  /\ pc[t] = "choose"
  /\ guard = NoTask
  /\ IF bits = INumbers THEN Fail(t)
     ELSE LET free == FreeIn(Nearest(t))
          IN  /\ guard' = t
              /\ loc' = [loc EXCEPT
                   ![t].inum = CHOOSE i \in free : \A j \in free : i <= j,
                   ![t].snap = bits \cap INodesOf(Nearest(t))]
              /\ Goto(t, "born")
              /\ UNCHANGED <<device, op, history>>

(* The inode is written, then the bitmap that was read: a reader that does *)
(* not see the bit does not see the inode, so the two are one step.        *)
BornInode(t) ==
  /\ pc[t] = "born"
  /\ LET i == loc[t].inum
         inode == [inumber |-> i, kind |-> KindOf(op[t]), nlink |-> 1,
                   ext |-> loc[t].child.ext]
         n == IF op[t] = "mkdir" THEN Head(loc[t].rest)
              ELSE NameOf(loc[t].path)
     IN  /\ inodes' = [inodes EXCEPT ![i] = inode]
         /\ WriteBitmap(i, loc[t].snap \cup {i})
         /\ Clobber(t, i)
         /\ loc' = [loc EXCEPT ![t].child = inode,
                               ![t].dir = With(@, n, i),
                               ![t].held = @ \ {inode.ext},
                               ![t].born = {i}]
  /\ guard' = NoTask
  /\ Goto(t, "rewrite")
  /\ UNCHANGED <<used, disk, op, lost, orphans, doomed, crashes>>

(* The directory is stored anew.  Only unlink leaves an empty one without  *)
(* an extent.                                                              *)
Rewrite(t) ==
  /\ pc[t] = "rewrite"
  /\ \/ /\ Storable(loc[t].dir)
        /\ StoreFor(t,
             IF op[t] = "unlink" /\ loc[t].dir = {} THEN Blank
             ELSE DirBytes(loc[t].dir),
             loc[t].parent,
             IF loc[t].dparent # NoINode THEN "rewriteDest" ELSE "commit")
     \/ ~Storable(loc[t].dir) /\ Fail(t)

-----------------------------------------------------------------------------
(* mkdir: one component per step, created where it is missing.             *)

MkdirComponent(t) ==
  \/ At(t, "mkdir") /\ Return(t) /\ UNCHANGED <<device, guard, history>>
  \/ /\ pc[t] = "mkdir"
     /\ loc[t].rest # <<>>
     /\ LET d == EntriesHere(t)
            n == Head(loc[t].rest)
        IN  IF \/ loc[t].node.kind # "Directory" \/ Unreadable(t)
               \/ Binds(d, n) /\ Bound(d, n) \notin bits
               \/ ~Binds(d, n) /\ ~loc[t].recursive /\ Len(loc[t].path) > 1
            THEN Fail(t)
            ELSE IF Binds(d, n)
            THEN /\ loc' = [loc EXCEPT ![t].node = inodes[Bound(d, n)],
                                       ![t].rest = Tail(@)]
                 /\ UNCHANGED pc /\ Private
            ELSE /\ loc' = [loc EXCEPT ![t].parent = loc[t].node,
                                       ![t].dir = d,
                                       ![t].child = NoINode]
                 /\ Goto(t, "choose")
                 /\ Private

-----------------------------------------------------------------------------
(* create_hardlink: nlink of the file, from the copy read at the start.    *)

(* As if the count were not raised. *)
BumpNothing(t) ==
  /\ pc[t] = "bump"
  /\ guard = t /\ guard' = NoTask
  /\ Return(t)
  /\ UNCHANGED <<device, history>>

BumpLink(t) ==
  /\ pc[t] = "bump"
  /\ Register(t, [loc[t].target EXCEPT !.nlink = @ + 1])
  /\ Return(t)
  /\ UNCHANGED <<used, disk, lost, orphans, doomed, crashes>>

-----------------------------------------------------------------------------
(* unlink: the inode goes first, then the entry.                           *)

AlwaysRemovable(inode) == TRUE           \* as if emptiness were not checked
Removable(inode) ==
  inode.kind = "Directory" =>
    Bytes(inode.ext).form \in {"blank", "dir"} /\ Bytes(inode.ext).entries = {}

LookupUnlink(t) ==
  /\ At(t, "parent")
  /\ op[t] = "unlink"
  /\ LET n == NameOf(loc[t].path)
         d == EntriesHere(t)
     IN  IF \/ Unreadable(t) \/ ~Resolvable(d, n)
            \/ ~Removable(inodes[Bound(d, n)])
         THEN Fail(t)
         ELSE /\ loc' = [loc EXCEPT ![t].parent = loc[t].node,
                                    ![t].dir = Without(d, n),
                                    ![t].stack = <<Bound(d, n)>>]
              /\ Goto(t, "links")
              /\ Private

(* delete_inode_with_extent: a hardlink takes the file it refers to along, *)
(* to be decremented first.                                                *)
Stacked(t) == {loc[t].stack[k] : k \in DOMAIN loc[t].stack}

(* As if a hardlink left the file it refers to alone. *)
FollowNothing(t) ==
  pc[t] = "links" /\ Goto(t, "delete") /\ UNCHANGED loc /\ Private

FollowLink(t) ==
  /\ pc[t] = "links"
  /\ LET i == NameOf(loc[t].stack)
         b == Bytes(inodes[i].ext)
     IN  IF i \notin bits \/ inodes[i].kind # "Hardlink"
         THEN Goto(t, "delete") /\ UNCHANGED loc /\ Private
         ELSE IF b.form = "number" /\ b.target \in bits \ Stacked(t)
         THEN /\ loc' = [loc EXCEPT ![t].stack = Append(@, b.target)]
              /\ UNCHANGED pc /\ Private
         ELSE Fail(t)

(* The bitmap is read here and written, without alloc_guard, in ClearBit.  *)
DeleteNext(t) ==
  /\ pc[t] = "delete"
  /\ LET i == NameOf(loc[t].stack)
         rest == ParentOf(loc[t].stack)
         left == IF inodes[i].nlink = 0 THEN 0 ELSE inodes[i].nlink - 1
     IN  IF loc[t].stack = <<>>
         THEN Goto(t, "rewrite") /\ UNCHANGED loc
         ELSE IF i \notin bits
         THEN loc' = [loc EXCEPT ![t].stack = rest] /\ UNCHANGED pc
         ELSE /\ loc' = [loc EXCEPT
                   ![t].stack = rest,
                   ![t].snap = bits \cap INodesOf(GroupOf(i)),
                   ![t].child = [inodes[i] EXCEPT !.nlink = left]]
              /\ Goto(t, IF left = 0 THEN "free" ELSE "drop")
  /\ Private

DropLink(t) ==
  /\ pc[t] = "drop"
  /\ Register(t, loc[t].child)
  /\ loc' = [loc EXCEPT ![t].doomed = @ \cup {loc[t].child.inumber}]
  /\ Goto(t, "delete")
  /\ UNCHANGED <<used, disk, op, lost, orphans, doomed, crashes>>

FreeINode(t) ==
  /\ pc[t] = "free"
  /\ Release(loc[t].child.ext)
  /\ loc' = [loc EXCEPT ![t].doomed = @ \cup {loc[t].child.inumber}]
  /\ Goto(t, "clear")
  /\ UNCHANGED <<bits, inodes, guard, op, history>>

ClearBit(t) ==
  /\ pc[t] = "clear"
  /\ WriteBitmap(loc[t].child.inumber,
                 loc[t].snap \ {loc[t].child.inumber})
  /\ Clobber(t, loc[t].child.inumber)
  /\ Goto(t, "delete")
  /\ UNCHANGED <<inodes, used, disk, guard, op, loc, lost, orphans, doomed,
                 crashes>>

-----------------------------------------------------------------------------
(* fmove: both parents are resolved, then both directories read.           *)

SourceResolved(t) ==
  /\ At(t, "parent")
  /\ op[t] = "move"
  /\ loc' = [loc EXCEPT ![t].parent = loc[t].node,
                        ![t].node = inodes[Root],
                        ![t].rest = ParentOf(loc[t].dest)]
  /\ Goto(t, "dest")
  /\ Private

LookupMove(t) ==
  /\ At(t, "dest")
  /\ LET from == loc[t].parent
         source == Bytes(from.ext)
         sn == NameOf(loc[t].path)
         dn == NameOf(loc[t].dest)
         i == Bound(source.entries, sn)
         same == from.inumber = loc[t].node.inumber
     IN  IF \/ ~IsDirectory(source) \/ Unreadable(t)
            \/ Binds(IF same THEN source.entries ELSE EntriesHere(t), dn)
            \/ ~Binds(source.entries, sn)
         THEN Fail(t)
         ELSE /\ Goto(t, "rewrite")
              /\ loc' = IF same
                   THEN [loc EXCEPT
                          ![t].dir = With(Without(source.entries, sn), dn, i)]
                   ELSE [loc EXCEPT
                          ![t].dir = Without(source.entries, sn),
                          ![t].dparent = loc[t].node,
                          ![t].ddir = With(EntriesHere(t), dn, i)]
              /\ Private

RewriteDest(t) ==
  /\ pc[t] = "rewriteDest"
  /\ \/ \E e \in Extents :
          /\ Storable(loc[t].ddir)
          /\ Allocates(DirBytes(loc[t].ddir), e)
          /\ loc' = [loc EXCEPT ![t].dput = [loc[t].dparent EXCEPT !.ext = e],
                                ![t].dold = loc[t].dparent.ext,
                                ![t].held = @ \cup {e}]
          /\ Goto(t, "commitDest")
          /\ UNCHANGED <<bits, inodes, guard, op, history>>
     \/ ~Storable(loc[t].ddir) /\ Fail(t)
     \/ Storable(loc[t].ddir) /\ Insufficient(DirBytes(loc[t].ddir)) /\ Fail(t)

(* As if the source were committed first. *)
CommitSourceFirst(t) ==
  /\ pc[t] = "commitDest"
  /\ Register(t, loc[t].put)
  /\ loc' = [loc EXCEPT ![t].put = loc[t].dput, ![t].dput = loc[t].put,
                        ![t].old = loc[t].dold, ![t].dold = loc[t].old,
                        ![t].held = (@ \cup {loc[t].old})
                                      \ {loc[t].put.ext, None}]
  /\ Goto(t, "commit")
  /\ UNCHANGED <<used, disk, op, lost, orphans, doomed, crashes>>

(* The destination is committed before the source. *)
CommitDest(t) ==
  /\ pc[t] = "commitDest"
  /\ Register(t, loc[t].dput)
  /\ loc' = [loc EXCEPT
       ![t].held = (@ \cup {loc[t].dold}) \ {loc[t].dput.ext, None}]
  /\ Goto(t, "commit")
  /\ UNCHANGED <<used, disk, op, lost, orphans, doomed, crashes>>

ReleaseDest(t) ==
  /\ pc[t] = "releaseDest"
  /\ Release(loc[t].dold)
  /\ Return(t)
  /\ UNCHANGED <<bits, inodes, guard, history>>

-----------------------------------------------------------------------------
(* follow_link_or_noop: what a link refers to, which the caller takes from *)
(* there.  fappend and ls follow links until they reach a file, or a       *)
(* directory; a read follows one.                                          *)

FollowTo(t, inode, path, label) ==
  /\ loc' = [loc EXCEPT ![t].node = inode, ![t].rest = path]
  /\ Goto(t, label)
  /\ Private

Follow(t, label) ==
  LET b == Reached(t)
  IN  \/ /\ loc[t].node.kind = "Symlink"
         /\ IF b.form = "path" THEN FollowTo(t, inodes[Root], b.path, label)
            ELSE Fail(t)
      \/ /\ loc[t].node.kind = "Hardlink"
         /\ IF b.form = "number" /\ b.target \in bits \ {loc[t].node.inumber}
            THEN FollowTo(t, inodes[b.target], <<>>, label)
            ELSE Fail(t)

AppendReached(t) ==
  /\ At(t, "append")
  /\ LET node == loc[t].node
         data == DataBytes(loc[t].body)
     IN  \/ /\ node.kind = "File"
            /\ node.ext = None
            /\ StoreFor(t, data, node, "commit")
         \/ /\ node.kind = "File"
            /\ node.ext # None     \* the chain grows at its end
            /\ guard = NoTask
            /\ IF Insufficient(data) THEN Fail(t)
               ELSE /\ loc' = [loc EXCEPT ![t].put = node]
                    /\ Goto(t, "commit")
                    /\ Private
         \/ Follow(t, "append")
         \/ node.kind = "Directory" /\ Fail(t)

(* As if no symlink were refused. *)
ListAnything(t) ==
  /\ At(t, "ls")
  /\ LET b == Reached(t)
     IN  IF loc[t].node.kind = "Symlink" /\ b.form = "path"
         THEN /\ loc' = [loc EXCEPT ![t].path = b.path,
                                    ![t].node = inodes[Root],
                                    ![t].rest = b.path]
              /\ UNCHANGED pc /\ Private
         ELSE Fail(t)

(* ls refuses a symlink to itself.  It changes nothing, so that to return  *)
(* the entries of a directory is no different here from an error.          *)
ListReached(t) ==
  /\ At(t, "ls")
  /\ LET b == Reached(t)
     IN  IF loc[t].node.kind = "Symlink" /\ b.form = "path"
              /\ b.path # loc[t].path
         THEN /\ loc' = [loc EXCEPT ![t].path = b.path,
                                    ![t].node = inodes[Root],
                                    ![t].rest = b.path]
              /\ UNCHANGED pc /\ Private
         ELSE Fail(t)

(* What the first link leads to is read as it is, a link or a directory    *)
(* too.                                                                    *)
ReadReached(t) ==
  \/ /\ At(t, "read")
     /\ \/ loc[t].node.kind \in {"File", "Directory"} /\ Fail(t)
        \/ Follow(t, "readLinked")
  \/ At(t, "readLinked") /\ Fail(t)

-----------------------------------------------------------------------------
(* The tasks in S stop where they are: their futures are dropped, and with *)
(* them the guard.                                                         *)
DropGuard(S) == IF guard \in S THEN NoTask ELSE guard

Stop(S) ==
  /\ crashes < MaxCrashes
  /\ crashes' = crashes + 1
  /\ guard' = DropGuard(S)
  /\ pc' = [t \in Tasks |-> IF t \in S THEN "idle" ELSE pc[t]]
  /\ op' = [t \in Tasks |-> IF t \in S THEN "ls" ELSE op[t]]
  /\ loc' = [t \in Tasks |-> IF t \in S THEN Idle ELSE loc[t]]
  /\ lost' = lost \cup UNION {loc[t].held : t \in S}
  /\ orphans' = orphans \cup UNION {loc[t].born : t \in S}
  /\ doomed' = doomed \cup UNION {loc[t].doomed : t \in S}
  /\ UNCHANGED <<device, clobbered>>

(* The process dies and the volume is opened again. *)
Crash == Stop(Tasks)

(* The connection of one request closes: the server drops its future at    *)
(* the await it is in, and the other requests go on.                       *)
Cancel(t) == pc[t] # "idle" /\ Stop({t})

-----------------------------------------------------------------------------
Begin(t) ==
  \/ StartWrite(t) \/ StartAppend(t) \/ StartSymlink(t) \/ StartHardlink(t)
  \/ StartMkdir(t) \/ StartUnlink(t) \/ StartMove(t) \/ StartLs(t)
  \/ StartRead(t)

Proceed(t) ==
  \/ Walk(t) \/ ContentResolved(t) \/ LookupWrite(t) \/ LookupUnlink(t)
  \/ SourceResolved(t) \/ LookupMove(t) \/ MkdirComponent(t) \/ ListReached(t)
  \/ AppendReached(t) \/ ReadReached(t) \/ Replace(t) \/ StoreData(t)
  \/ ChooseInode(t) \/ BornInode(t) \/ Rewrite(t) \/ RewriteDest(t) \/ CommitDest(t)
  \/ ReadBitmap(t) \/ Commit(t) \/ ReleaseOld(t) \/ ReleaseDest(t) \/ BumpLink(t)
  \/ FollowLink(t) \/ DeleteNext(t) \/ DropLink(t) \/ FreeINode(t)
  \/ ClearBit(t)

Next == Crash \/ \E t \in Tasks : Cancel(t) \/ Begin(t) \/ Proceed(t)

Spec == Init /\ [][Next]_vars

(* Tokio runs on every task that is not waiting. *)
FairSpec == Spec /\ \A t \in Tasks : WF_vars(Proceed(t))
-----------------------------------------------------------------------------
(* Properties. *)

PCs == {"idle", "content", "parent", "dest", "append", "ls", "read",
        "readLinked", "mkdir",
        "replace", "data", "choose", "born", "rewrite", "rewriteDest",
        "commitDest", "commit", "release", "releaseDest", "bump", "links",
        "delete", "drop", "free", "clear"}

(* Every variable stays in its type: in particular every inumber and every *)
(* extent address an operation stores lies on the device.                  *)
TypeOK ==
  /\ bits \subseteq INumbers
  /\ inodes \in [INumbers -> INode]
  /\ used \subseteq Extents
  /\ \A e \in Extents : /\ disk[e].form \in {"blank", "dir", "data", "path",
                                             "number"}
                        /\ disk[e].entries \subseteq Entry
                        /\ disk[e].target \in INumbers \cup {None}
  /\ guard \in Tasks \cup {NoTask}
  /\ pc \in [Tasks -> PCs]
  /\ op \in [Tasks -> AllOps]
  /\ \A t \in Tasks : /\ {loc[t].put, loc[t].dput, loc[t].child} \subseteq INode
                      /\ loc[t].dir \cup loc[t].ddir \subseteq Entry
                      /\ loc[t].held \subseteq Extents
  /\ lost \subseteq Extents
  /\ orphans \cup doomed \cup clobbered \subseteq INumbers

EntriesOf(i) ==
  IF i \in bits /\ inodes[i].kind = "Directory"
  THEN Bytes(inodes[i].ext).entries ELSE {}

(* Inodes that an unlink has freed or counted down without having removed, *)
(* or removed yet, the entry it did so for.                                *)
Doomed == doomed \cup clobbered \cup UNION {loc[t].doomed : t \in Tasks}

(* A directory or a hardlink never names an inode that is not allocated,   *)
(* and a hardlink only a file, at no point of any operation, except one    *)
(* whose own unlink is under way or was cut.                               *)
EntriesResolve ==
  \A i \in bits \ Doomed :
    /\ \A e \in EntriesOf(i) : e.inumber \in bits \cup Doomed
    /\ inodes[i].kind = "Hardlink" =>
         LET j == Bytes(inodes[i].ext).target
         IN  j \in Doomed \/ (j \in bits /\ inodes[j].kind = "File")

FormOf(kind) == CASE kind = "Directory" -> "dir"
                  [] kind = "File" -> "data"
                  [] kind = "Symlink" -> "path"
                  [] kind = "Hardlink" -> "number"

(* The content of every inode is allocated, is that of no other inode, and *)
(* is of the kind the inode says: what a directory points to is never      *)
(* freed, reused, or read as something else.                               *)
ContentIsOwn ==
  \A i \in bits \ Doomed :
    LET e == inodes[i].ext
    IN  e # None =>
          /\ e \in used
          /\ disk[e].form = FormOf(inodes[i].kind)
          /\ \A j \in bits \ (Doomed \cup {i}) : inodes[j].ext # e

Quiet == \A t \in Tasks : pc[t] = "idle"

(* The inodes a walk from the root can meet. *)
Reachable ==
  LET within[n \in 0 .. Cardinality(INumbers)] ==
        IF n = 0 THEN {Root}
        ELSE LET near == within[n - 1]
             IN  near \cup {e.inumber : e \in UNION {EntriesOf(i) : i \in near}}
  IN  within[Cardinality(INumbers)] \cap bits

(* Between operations nothing is allocated that no path leads to, and no   *)
(* content is kept that belongs to no inode, other than what failed or cut *)
(* operations left behind.                                                 *)
NothingForgotten ==
  Quiet /\ doomed \cup clobbered = {} =>
    /\ bits \ orphans \subseteq Reachable
          \cup {Bytes(inodes[i].ext).target : i \in bits}
    /\ used = lost \cup ({inodes[i].ext : i \in bits} \ {None})

Linked == bits \ orphans
EntriesTo(i) ==
  {r \in Linked \X UNION {EntriesOf(k) : k \in Linked} :
     r[2] \in EntriesOf(r[1]) /\ r[2].inumber = i}
HardlinksTo(i) ==
  {j \in Linked : inodes[j].kind = "Hardlink"
                  /\ Bytes(inodes[j].ext).target = i}

(* Between operations nlink counts what keeps an inode alive: its entries, *)
(* and the hardlinks that refer to it.  Directories have one entry.        *)
LinkCounts ==
  Quiet /\ doomed \cup clobbered = {} =>
    \A i \in Linked \ {Root} :
      inodes[i].nlink = Cardinality(EntriesTo(i)) + Cardinality(HardlinksTo(i))

(* What can be reached by a path stays reachable, through every step of    *)
(* every operation and every crash, until an unlink removes it.            *)
StaysReachable ==
  \A i \in Reachable \ Reachable' :
    \E t \in Tasks : op[t] = "unlink" /\ NameOf(loc[t].path) \in
      {e.name : e \in {f \in UNION {EntriesOf(j) : j \in bits} : f.inumber = i}}
NothingVanishes == [][StaysReachable]_vars

(* Where a walk along p from the inode i ends, None if it fails. *)
Reach(i, p) ==
  LET at[k \in 0 .. Len(p)] ==
        IF k = 0 THEN i
        ELSE IF at[k - 1] = None THEN None
        ELSE LET node == inodes[at[k - 1]]
             IN  IF Resolves(node, p[k]) THEN Bound(Bytes(node.ext).entries, p[k])
                 ELSE None
  IN  at[Len(p)]

(* What the symlink i refers to, None if i is no symlink or it leads       *)
(* nowhere; and what is met after following as many as there are inodes.   *)
LinkedFrom(i) ==
  IF i # None /\ inodes[i].kind = "Symlink" /\ Bytes(inodes[i].ext).form = "path"
  THEN Reach(Root, Bytes(inodes[i].ext).path) ELSE None
LinkedAtLast(i) ==
  LET after[k \in 0 .. Cardinality(INumbers)] ==
        IF k = 0 THEN i ELSE LinkedFrom(after[k - 1])
  IN  after[Cardinality(INumbers)]

(* t follows symlinks that lead back to each other.  ls leaves such a      *)
(* circle when it is one symlink that refers to itself.                    *)
Circling(t) ==
  /\ op[t] \in {"append", "ls"}
  /\ At(t, op[t])
  /\ LET i == LinkedAtLast(loc[t].node.inumber)
     IN  LinkedFrom(i) # None /\ (op[t] = "append" \/ LinkedFrom(i) # i)

(* Every operation returns, except an ls or an fappend that meets symlinks *)
(* which lead back to each other: no wait for alloc_guard, no walk and no  *)
(* deletion of links goes on for ever.                                     *)
EveryCallReturns ==
  \A t \in Tasks : pc[t] # "idle" ~> (pc[t] = "idle" \/ Circling(t))

(* The tree as paths from the root show it.  Deletion counts from when the *)
(* content is freed.                                                       *)
PathsShown ==
  LET within[n \in 0 .. Cardinality(INumbers)] ==
        IF n = 0 THEN {<<<<>>, Root>>}
        ELSE LET near == within[n - 1]
             IN  near \cup UNION {{<<Append(x[1], e.name), e.inumber>> :
                                     e \in EntriesOf(x[2])} : x \in near}
  IN  {x \in within[Cardinality(INumbers)] : x[2] \in bits \ Doomed}

Shown(p, inode) == [path |-> p, kind |-> inode.kind,
                    body |-> IF inode.kind = "Directory" THEN "empty"
                             ELSE Bytes(inode.ext).data]

Asked(t) == [op |-> op[t], path |-> loc[t].path, dest |-> loc[t].dest,
             body |-> loc[t].body, recursive |-> loc[t].recursive]

Nothing == [op |-> "none", path |-> <<>>, dest |-> <<>>, body |-> "empty",
            recursive |-> FALSE]

Abstract == INSTANCE FileTree WITH
  tree <- {Shown(x[1], inodes[x[2]]) : x \in PathsShown},
  request <- IF Quiet THEN Nothing
             ELSE Asked(CHOOSE t \in Tasks : pc[t] # "idle")

(* One caller sees what FileTree promises: each call changes the path it   *)
(* names, and nothing else, in one step, or fails and changes nothing.     *)
ImplementsFileTree == Abstract!Spec
=============================================================================
