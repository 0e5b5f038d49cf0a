------------------------- MODULE NamespaceInvariant -------------------------
(***************************************************************************)
(* The inductive invariant of Namespace.                                   *)
(* Typed is its first half: types, and what each step takes for granted of *)
(* the locals it reads. Consistency is the second: there is a function own *)
(* that says to which caller's directory each inode belongs, and with it   *)
(* the volume is as it should be (Shared), and what each operation under   *)
(* way has read, stored and begun is still so (TaskSound). Who owns an     *)
(* inode is not written anywhere on the device; it is what keeps the       *)
(* operations of different callers apart, since none of them holds a lock  *)
(* on a directory.                                                         *)
(* A deletion frees inodes that are still named, so the invariant says of  *)
(* each step of it what is gone and what still stands. It says nothing of  *)
(* a volume on which a deletion was cut, or a bitmap written back that had *)
(* been read before it changed: there, entries may lead anywhere.          *)
(***************************************************************************)
EXTENDS Namespace

-----------------------------------------------------------------------------
(* Types. *)

Content == [form : {"blank", "dir", "data", "path", "number"},
            entries : SUBSET Entry, path : Seq(Names),
            target : INumbers \cup {None}, data : Bodies \cup {"empty"}]

Locals == [path : Seq(Names), dest : Seq(Names), body : Bodies \cup {"empty"},
           recursive : BOOLEAN, rest : Seq(Names), node : INode,
           parent : INode, dir : SUBSET Entry, dparent : INode,
           ddir : SUBSET Entry, child : INode, target : INode,
           stack : Seq(INumbers), inum : INumbers \cup {None},
           snap : SUBSET INumbers, put : INode, old : Extents \cup {None},
           dput : INode, dold : Extents \cup {None}, held : SUBSET Extents,
           born : SUBSET INumbers, doomed : SUBSET INumbers]

(* Every variable has its type.                                            *)
StateTyped ==
  /\ bits \subseteq INumbers
  /\ inodes \in [INumbers -> INode]
  /\ used \subseteq Extents
  /\ disk \in [Extents -> Content]
  /\ guard \in Tasks \cup {NoTask}
  /\ pc \in [Tasks -> PCs]
  /\ op \in [Tasks -> AllOps]
  /\ loc \in [Tasks -> Locals]
  /\ lost \subseteq Extents
  /\ orphans \subseteq INumbers
  /\ doomed \subseteq INumbers
  /\ clobbered \subseteq INumbers
  /\ crashes \in Nat

(* An inode that was ever written carries its number, so that one found    *)
(* through a bitmap, now or in a copy of it, does.                         *)
Numbered ==
  /\ \A i \in INumbers : inodes[i].inumber \in {i, None}
  /\ \A i \in bits \cup {Root} : inodes[i].inumber = i
  /\ \A t \in Tasks : \A i \in loc[t].snap : inodes[i].inumber = i

(* The steps of walks and of deletions, and what makes an inode.           *)
Walks == {"content", "parent", "dest", "append", "ls", "read", "readLinked",
          "mkdir"}
Deleting == {"links", "delete", "drop", "free", "clear"}
Linking == {"write", "symlink", "hardlink"}
Creating == Linking \cup {"mkdir"}

(* Which operation may be at which step.                                   *)
Placed(t) ==
  /\ pc[t] = "idle" => loc[t] = Idle
  /\ pc[t] = "content" => op[t] \in {"symlink", "hardlink"}
  /\ pc[t] = "parent" => op[t] \in Linking \cup {"unlink", "move"}
  /\ pc[t] \in {"dest", "rewriteDest", "commitDest", "releaseDest"} =>
       op[t] = "move"
  /\ pc[t] = "append" => op[t] = "append"
  /\ pc[t] = "ls" => op[t] = "ls"
  /\ pc[t] \in {"read", "readLinked"} => op[t] = "read"
  /\ pc[t] = "mkdir" => op[t] = "mkdir"
  /\ pc[t] \in {"replace", "data"} => op[t] \in Linking
  /\ pc[t] \in {"choose", "born"} => op[t] \in Creating
  /\ pc[t] \in {"rewrite", "release"} =>
       op[t] \in Creating \cup {"unlink", "move"}
  /\ pc[t] = "commit" => op[t] \in Creating \cup {"unlink", "move", "append"}
  /\ pc[t] = "bump" => op[t] = "hardlink"
  /\ pc[t] \in Deleting => op[t] = "unlink"

(* What each step takes from the locals is there.                          *)
Supplied(t) ==
  /\ pc[t] \in Walks => loc[t].node.inumber # None
  /\ pc[t] \in {"dest", "data", "choose", "born", "rewrite"} \cup Deleting =>
       loc[t].parent.inumber # None
  /\ pc[t] \in {"replace", "drop", "free", "clear"} =>
       loc[t].child.inumber # None
  /\ op[t] = "mkdir" /\ pc[t] \in {"rewrite", "commit", "release"} =>
       loc[t].child.inumber # None
  /\ op[t] = "hardlink" /\ pc[t] \notin {"idle", "content"} =>
       loc[t].target.inumber # None
  /\ pc[t] = "born" => loc[t].inum # None
  /\ loc[t].dparent # NoINode => op[t] = "move" /\ loc[t].dparent.inumber # None
  /\ pc[t] = "rewriteDest" => loc[t].dparent # NoINode
  /\ pc[t] = "commitDest" => loc[t].dput.inumber # None
  /\ pc[t] \in {"rewriteDest", "commitDest", "commit"} =>
       loc[t].put.inumber # None
  /\ pc[t] = "links" => loc[t].stack # <<>>
  /\ op[t] = "mkdir" /\ pc[t] \notin {"idle", "mkdir"} => loc[t].rest # <<>>
  /\ op[t] \in Linking \cup {"unlink", "move"} => loc[t].path # <<>>
  /\ op[t] \in {"symlink", "move"} => loc[t].dest # <<>>

Typed == StateTyped /\ Numbered /\ \A t \in Tasks : Placed(t) /\ Supplied(t)

-----------------------------------------------------------------------------
(* Under what conditions. *)

(* Every caller has a directory of its own, unless there is only one.      *)
Separate ==
  \A t, u \in Tasks :
    t # u => \E k, l \in DOMAIN Made :
               k # l /\ Home[t] = <<Made[k]>> /\ Home[u] = <<Made[l]>>

(* What is written has the form that the inode it is written to says.      *)
Proper ==
  /\ "empty" \notin Bodies
  /\ Overwrite \subseteq {"write"}
  /\ "write" \in Overwrite => "symlink" \notin Ops

(* No call is cut between the two changes it makes to a count.             *)
Countable == MaxCrashes = 0 \/ {"move", "hardlink"} \cap Ops = {}

(* A deletion finds counts that are right.                                 *)
Removals ==
  "unlink" \in Ops => Countable /\ ("hardlink" \in Ops => MaxLost = 0)

-----------------------------------------------------------------------------
(* What operations under way have allocated or are to free, and the inodes *)
(* they have made and not entered in a directory.                          *)
Held == UNION {loc[t].held : t \in Tasks}
Born == UNION {loc[t].born : t \in Tasks}

(* Sound are the inodes whose content is there: all but those of which a   *)
(* deletion has freed the content and not yet the bit.  Counted are those  *)
(* of them that a directory names.                                         *)
Emptied == {loc[t].child.inumber : t \in {u \in Tasks : pc[u] = "clear"}}
Sound == bits \ Emptied
Counted == Sound \ (orphans \cup Born)

(* No deletion was cut, no bitmap written back stale.                      *)
Intact == doomed = {} /\ clobbered = {}

(* t is deleting what its path names, which its parent still lists.        *)
Removing(t) ==
  op[t] = "unlink" /\ pc[t] \in Deleting \cup {"rewrite", "commit"}
Source(t) == EntriesOf(loc[t].parent.inumber)
Victim(t) == Bound(Source(t), NameOf(loc[t].path))
TargetOf(i) == Bytes(inodes[i].ext).target
NewName(t) ==
  IF op[t] = "mkdir" THEN Head(loc[t].rest) ELSE NameOf(loc[t].path)
MadeEntries == {[name |-> Made[k], inumber |-> k + 1] : k \in DOMAIN Made}

-----------------------------------------------------------------------------
(* What holds of the volume.  own says whose directory each inode is in.   *)
Owners == [INumbers -> Tasks \cup {NoTask}]

(* The root is there.                                                      *)
RootStands == Root \in Counted /\ inodes[Root].kind = "Directory"

(* Every inode has content of its own, in the form its kind says.          *)
ContentSound ==
  \A i \in Sound :
    /\ inodes[i].ext = None => inodes[i].kind = "Directory"
    /\ inodes[i].ext # None =>
         /\ inodes[i].ext \in used \ (lost \cup Held)
         /\ disk[inodes[i].ext].form = FormOf(inodes[i].kind)
         /\ \A j \in Sound \ {i} : inodes[j].ext # inodes[i].ext
    /\ inodes[i].nlink >= 1
    /\ inodes[i].kind # "File" => inodes[i].nlink = 1
    /\ inodes[i].kind = "Symlink" => "symlink" \in Ops
    /\ inodes[i].kind = "Hardlink" => "hardlink" \in Ops

(* What is used belongs to an inode, an operation, or is lost.             *)
ExtentsAccounted ==
  /\ lost \cup Held \subseteq used
  /\ lost \cap Held = {}
  /\ \A t, u \in Tasks : t # u => loc[t].held \cap loc[u].held = {}
  /\ used \subseteq lost \cup Held \cup {inodes[i].ext : i \in Sound}

(* The guard is held from the choice of an inumber until its bit is set,   *)
(* and otherwise only from where register_inode reads a bitmap.            *)
Guarded ==
  \A t \in Tasks :
    /\ pc[t] = "born" => guard = t
    /\ guard = t => pc[t] \in {"born"} \cup Registering

(* What is in no directory yet is its maker's, and refers to nothing.      *)
BornOwned(own) ==
  /\ \A t \in Tasks : \A i \in loc[t].born : i \in Sound /\ own[i] = t
  /\ orphans \subseteq Sound
  /\ orphans \cap Born = {}
  /\ \A i \in orphans \cup Born : EntriesOf(i) = {}
  /\ {"hardlink", "unlink"} \subseteq Ops =>
       \A i \in orphans : \A t \in Tasks : own[i] = t => pc[t] = "idle"

(* The root is the only caller's, or has the callers' directories and no   *)
(* other entry ever.                                                       *)
RootOwned(own) ==
  \/ \E t \in Tasks : Tasks = {t} /\ own[Root] = t
  \/ /\ own[Root] = NoTask
     /\ EntriesOf(Root) = MadeEntries
     /\ \A t \in Tasks : \E k \in DOMAIN Made :
          Home[t] = <<Made[k]>> /\ own[k + 1] = t

(* Entries lead to sound inodes, but for the one being removed. *)
Leads(own, i, j) == j \in Counted \ {Root} /\ own[i] \in {own[j], NoTask}
Excused(t, i, e) ==
  /\ Removing(t)
  /\ i = loc[t].parent.inumber
  /\ e.name = NameOf(loc[t].path)
  /\ e.inumber \in loc[t].doomed
ExcusedLink(own, t, i) ==
  /\ Removing(t)
  /\ i = Victim(t)
  /\ own[i] = t
  /\ TargetOf(i) \in loc[t].doomed

(* A directory has one entry for a name, which leads to an inode.          *)
DirectorySound(own, i) ==
  /\ IsFiniteSet(EntriesOf(i))
  /\ \A e, f \in EntriesOf(i) : e.name = f.name => e = f
  /\ \A e \in EntriesOf(i) :
       Leads(own, i, e.inumber) \/ \E t \in Tasks : Excused(t, i, e)

(* A hardlink leads to a file in the same caller's directory.              *)
HardlinkSound(own, i) ==
  inodes[i].kind = "Hardlink" =>
    /\ own[i] \in Tasks
    /\ \/ Leads(own, i, TargetOf(i)) /\ inodes[TargetOf(i)].kind = "File"
       \/ \E t \in Tasks : ExcusedLink(own, t, i)

(* Paths of t begin at home. *)
Homely(own, t, p) ==
  \/ own[Root] = t
  \/ p # <<>> /\ \E k \in DOMAIN Made : Head(p) = Made[k] /\ own[k + 1] = t

(* A symlink begins where its caller's paths do.                           *)
SymlinkSound(own, i) ==
  inodes[i].kind = "Symlink" =>
    own[i] \in Tasks /\ Homely(own, own[i], disk[inodes[i].ext].path)

NodeSound(own, i) ==
  DirectorySound(own, i) /\ HardlinkSound(own, i) /\ SymlinkSound(own, i)
NodesSound(own) == \A i \in Sound : NodeSound(own, i)

(* What leads to i: entries, with the directory they are in, and           *)
(* hardlinks.                                                              *)
EntryRefs(own, i) ==
  {r \in Counted \X UNION {EntriesOf(k) : k \in Counted} :
     /\ r[2] \in EntriesOf(r[1])
     /\ r[2].inumber = i
     /\ own[r[1]] \in {own[i], NoTask}}
LinkRefs(own, i) ==
  {j \in Counted : /\ inodes[j].kind = "Hardlink"
                   /\ TargetOf(j) = i
                   /\ own[j] = own[i]}

(* The inode whose entry is to go is still that of the task: it is not     *)
(* free, and perhaps another's by now.                                     *)
Mine(own, t) == Victim(t) \in Sound /\ own[Victim(t)] = t

(* What a task under way has not counted yet, or not counted down yet. *)
Surplus(own, t, i) ==
  \/ /\ op[t] = "hardlink" /\ pc[t] \in {"release", "bump"}
     /\ i = loc[t].target.inumber
  \/ /\ op[t] = "move" /\ pc[t] = "commit" /\ loc[t].dput # NoINode
     /\ i = Victim(t)
  \/ Removing(t) /\ i \in loc[t].doomed /\ Mine(own, t)
Extra(own, i) ==
  IF \E t \in Tasks : own[i] = t /\ Surplus(own, t, i) THEN 1 ELSE 0

(* nlink is how many lead to the inode, but for what is under way.         *)
CountsRight(own) ==
  Countable => \A i \in Counted \ {Root} :
    inodes[i].nlink + Extra(own, i)
      = Cardinality(EntryRefs(own, i)) + Cardinality(LinkRefs(own, i))

Shared(own) ==
  /\ RootStands /\ ContentSound /\ ExtentsAccounted /\ Guarded
  /\ BornOwned(own) /\ RootOwned(own) /\ NodesSound(own) /\ CountsRight(own)

-----------------------------------------------------------------------------
(* What holds of one task, by the step it is at.                           *)

(* x is an inode in the directory of t, as it is on the device.            *)
Copy(own, t, x) ==
  x.inumber \in Counted /\ own[x.inumber] = t /\ x = inodes[x.inumber]
Folder(own, t, x) == Copy(own, t, x) /\ x.kind = "Directory"

(* What a call may be given.                                               *)
Given(t) ==
  /\ pc[t] # "idle" => op[t] \in Ops
  /\ op[t] \in Creating \cup {"unlink", "move"} => loc[t].path \in PathsOf(t)
  /\ op[t] \in {"symlink", "hardlink", "move"} => loc[t].dest \in PathsOf(t)
  /\ op[t] = "write" => loc[t].body \in Bodies

(* Nothing is under way but what the step says.                            *)
Alone(t) == loc[t].dparent = NoINode /\ loc[t].dput = NoINode
Clean(t) ==
  loc[t].held = {} /\ loc[t].born = {} /\ loc[t].doomed = {} /\ Alone(t)

(* The file that a hardlink is to refer to is there, as it was read.       *)
TargetSound(own, t) ==
  op[t] = "hardlink" =>
    Copy(own, t, loc[t].target) /\ loc[t].target.kind = "File"

(* A walk is at an inode of t, or at the root with a path of t.            *)
Walking(own, t) ==
  /\ Clean(t)
  /\ \/ Copy(own, t, loc[t].node)
     \/ loc[t].node = inodes[Root] /\ Homely(own, t, loc[t].rest)
  /\ pc[t] = "dest" => Copy(own, t, loc[t].parent)
  /\ pc[t] # "content" => TargetSound(own, t)

(* Nothing has the new name, from the lookup of the directory until the    *)
(* entry is written.                                                       *)
Making(own, t) ==
  /\ loc[t].born = {} /\ loc[t].doomed = {} /\ Alone(t)
  /\ TargetSound(own, t)
  /\ Folder(own, t, loc[t].parent)
  /\ loc[t].dir = Source(t)
  /\ ~Binds(loc[t].dir, NewName(t))
  /\ pc[t] = "data" => loc[t].held = {}
  /\ pc[t] # "data" =>
       LET e == loc[t].child.ext
       IN  /\ loc[t].held = {e} \ {None}
           /\ op[t] = "mkdir" <=> e = None
           /\ e # None => disk[e].form = FormOf(KindOf(op[t]))
           /\ op[t] = "symlink" => disk[e].path = loc[t].dest
           /\ op[t] = "hardlink" => disk[e].target = loc[t].target.inumber
  /\ pc[t] = "born" => loc[t].inum \in INumbers \ bits

(* The content x of the inode i is to be replaced. *)
Replaces(x, i, old) == i.ext = old /\ x = [i EXCEPT !.ext = x.ext]
(* The content of e is the directory d.                                    *)
Lists(e, d) ==
  IF e = None THEN d = {} ELSE disk[e].form = "dir" /\ disk[e].entries = d

(* The directory is about to be written, or the inode that lists it.       *)
Editing(own, t) ==
  /\ Folder(own, t, loc[t].parent)
  /\ pc[t] \in {"rewriteDest", "commitDest", "commit"} =>
       /\ Replaces(loc[t].put, loc[t].parent, loc[t].old)
       /\ Lists(loc[t].put.ext, loc[t].dir)

(* A new inode is about to be entered in its directory.                    *)
Entering(own, t) ==
  LET c == loc[t].child.inumber
  IN  /\ loc[t].doomed = {} /\ Alone(t)
      /\ TargetSound(own, t)
      /\ Editing(own, t)
      /\ ~Binds(Source(t), NewName(t))
      /\ loc[t].dir = With(Source(t), NewName(t), c)
      /\ loc[t].born = {c}
      /\ loc[t].child = inodes[c]
      /\ inodes[c].kind = KindOf(op[t])
      /\ inodes[c].nlink = 1
      /\ op[t] = "hardlink" => TargetOf(c) = loc[t].target.inumber
      /\ loc[t].held =
           (IF pc[t] = "commit" THEN {loc[t].put.ext} \ {None} ELSE {})

(* A file is about to be given new content.                                *)
Overwriting(own, t) ==
  /\ op[t] = "write" /\ loc[t].born = {} /\ loc[t].doomed = {} /\ Alone(t)
  /\ Copy(own, t, loc[t].child) /\ loc[t].child.kind = "File"
  /\ pc[t] = "replace" => loc[t].held = {}
  /\ pc[t] = "commit" =>
       /\ Replaces(loc[t].put, loc[t].child, loc[t].old)
       /\ loc[t].put.ext # None
       /\ disk[loc[t].put.ext].form = "data"
       /\ loc[t].held = {loc[t].put.ext}

(* A file has grown, and is about to be registered.                        *)
Appending(own, t) ==
  Clean(t) /\ Copy(own, t, loc[t].put) /\ loc[t].put.kind = "File"

(* The operation is committed, and has only its old content to free.       *)
Releasing(own, t) ==
  /\ loc[t].born = {}
  /\ op[t] # "unlink" => loc[t].doomed = {}
  /\ op[t] # "move" => Alone(t)
  /\ TargetSound(own, t)
  /\ op[t] = "mkdir" => Folder(own, t, loc[t].child)
  /\ loc[t].held =
       (CASE pc[t] = "bump" -> {}
          [] pc[t] = "releaseDest" -> {loc[t].dold}
          [] OTHER -> {loc[t].old}
                        \cup (IF Alone(t) THEN {} ELSE {loc[t].dold})) \ {None}
  /\ pc[t] = "release" /\ ~Alone(t) =>
       loc[t].dput # NoINode /\ (loc[t].dold # loc[t].old \/ loc[t].dold = None)

(* An entry is about to be stored in its destination, then to go from its  *)
(* source; in one step if both are in the same directory.                  *)
Moving(own, t) ==
  LET d == Source(t)
      n == NameOf(loc[t].path)
      m == NameOf(loc[t].dest)
      p == loc[t].dparent
      x == Victim(t)
      puts == {loc[t].put.ext} \ {None}
  IN  /\ loc[t].born = {} /\ loc[t].doomed = {}
      /\ Editing(own, t)
      /\ Binds(d, n)
      /\ pc[t] \in {"rewrite", "rewriteDest"} => loc[t].dput = NoINode
      /\ pc[t] = "rewrite" => loc[t].held = {}
      /\ pc[t] = "rewriteDest" => loc[t].held = puts
      /\ p = NoINode =>
           /\ pc[t] \in {"rewrite", "commit"}
           /\ loc[t].dput = NoINode
           /\ ~Binds(d, m)
           /\ loc[t].dir = With(Without(d, n), m, x)
           /\ pc[t] = "commit" => loc[t].held = puts
      /\ p # NoINode =>
           /\ loc[t].dir = Without(d, n)
           /\ p.inumber # loc[t].parent.inumber
           /\ pc[t] # "commit" =>
                /\ Folder(own, t, p)
                /\ ~Binds(EntriesOf(p.inumber), m)
                /\ loc[t].ddir = With(EntriesOf(p.inumber), m, x)
           /\ pc[t] = "commitDest" =>
                /\ Replaces(loc[t].dput, p, loc[t].dold)
                /\ loc[t].dput.ext \notin {None, loc[t].put.ext}
                /\ Lists(loc[t].dput.ext, loc[t].ddir)
                /\ loc[t].held = puts \cup {loc[t].dput.ext}
           /\ pc[t] = "commit" =>
                /\ loc[t].dput # NoINode
                /\ Folder(own, t, loc[t].dput)
                /\ loc[t].dput.inumber # loc[t].parent.inumber
                /\ [name |-> m, inumber |-> x] \in EntriesOf(loc[t].dput.inumber)
                /\ loc[t].held = puts \cup ({loc[t].dold} \ {None})
                /\ loc[t].dold \notin {loc[t].old, loc[t].put.ext} \ {None}

(* How far a removal is.  A hardlink takes the file it refers to along.    *)
Plain(own, t) ==
  /\ Mine(own, t) /\ inodes[Victim(t)].kind # "Hardlink"
  /\ Removable(inodes[Victim(t)])
  /\ loc[t].doomed = {}
Refers(own, t) ==
  /\ Mine(own, t) /\ inodes[Victim(t)].kind = "Hardlink"
  /\ TargetOf(Victim(t)) \in Sound \ {Victim(t)}
  /\ own[TargetOf(Victim(t))] = t
  /\ inodes[TargetOf(Victim(t))].kind = "File"
  /\ loc[t].doomed = {}
Followed(own, t) ==
  /\ Mine(own, t) /\ inodes[Victim(t)].kind = "Hardlink"
  /\ TargetOf(Victim(t)) # Victim(t)
  /\ loc[t].doomed = {TargetOf(Victim(t))}
Spared(own, t) ==
  /\ Victim(t) \in loc[t].doomed
  /\ Mine(own, t) => inodes[Victim(t)].kind = "File" /\ loc[t].doomed = {Victim(t)}

(* The next inode to free or to count down: the victim, or what it refers  *)
(* to.                                                                     *)
Due(own, t, c) ==
  \/ loc[t].stack = <<>> /\ c = Victim(t) /\ (Plain(own, t) \/ Followed(own, t))
  \/ loc[t].stack = <<Victim(t)>> /\ Refers(own, t) /\ c = TargetOf(Victim(t))

(* Where a removal is: at the victim's links, at one of its inodes, or at  *)
(* the entry.                                                              *)
Unlinking(own, t) ==
  LET x == Victim(t)
      c == loc[t].child.inumber
      stack == loc[t].stack
  IN  /\ loc[t].born = {} /\ Alone(t)
      /\ Editing(own, t)
      /\ Binds(Source(t), NameOf(loc[t].path))
      /\ loc[t].dir = Without(Source(t), NameOf(loc[t].path))
      /\ loc[t].held =
           (IF pc[t] = "commit" THEN {loc[t].put.ext} \ {None} ELSE {})
      /\ pc[t] = "links" =>
           \/ /\ stack = <<x>> /\ loc[t].doomed = {} /\ Mine(own, t)
              /\ Removable(inodes[x])
           \/ stack = <<x, TargetOf(x)>> /\ Refers(own, t)
      /\ pc[t] = "delete" =>
           \/ stack = <<x>> /\ (Plain(own, t) \/ Followed(own, t))
           \/ stack = <<x, TargetOf(x)>> /\ Refers(own, t)
           \/ stack = <<>> /\ Spared(own, t)
      /\ pc[t] = "drop" =>
           /\ loc[t].child = [inodes[c] EXCEPT !.nlink = @ - 1]
           /\ inodes[c].nlink > 1
           /\ Due(own, t, c) /\ ~Followed(own, t)
      /\ pc[t] = "free" =>
           /\ loc[t].child = [inodes[c] EXCEPT !.nlink = 0]
           /\ inodes[c].nlink = 1
           /\ Due(own, t, c)
      /\ pc[t] = "clear" =>
           /\ c \in bits /\ own[c] = t /\ c \in loc[t].doomed
           /\ \/ stack = <<>> /\ c = x
              \/ stack = <<x>> /\ Followed(own, t) /\ c = TargetOf(x)
      /\ pc[t] \in {"rewrite", "commit"} =>
           stack = <<>> /\ Spared(own, t)

(* What holds of t at the step it is at.                                   *)
TaskSound(own, t) ==
  /\ Given(t)
  /\ pc[t] \in Walks => Walking(own, t)
  /\ pc[t] \in {"data", "choose", "born"} => Making(own, t)
  /\ pc[t] = "replace" => Overwriting(own, t)
  /\ op[t] \in Creating /\ pc[t] = "rewrite" => Entering(own, t)
  /\ op[t] \in Creating /\ pc[t] = "commit" =>
       Entering(own, t) \/ Overwriting(own, t)
  /\ op[t] = "append" /\ pc[t] = "commit" => Appending(own, t)
  /\ pc[t] \in {"release", "releaseDest", "bump"} => Releasing(own, t)
  /\ op[t] = "move" /\ pc[t] \in {"rewrite", "rewriteDest", "commitDest",
                                  "commit"} => Moving(own, t)
  /\ Removing(t) => Unlinking(own, t)

Consistent(own) == Shared(own) /\ \A t \in Tasks : TaskSound(own, t)

Consistency == Intact => \E own \in Owners : Consistent(own)
=============================================================================
