-------------------------- MODULE NamespaceProofs ---------------------------
(***************************************************************************)
(* A volume stays consistent: entries lead to inodes that are there, every *)
(* inode has its own content, counts agree with the links, and what        *)
(* operations leave behind is only what failed or cut ones are known to    *)
(* leave; for any number of tasks, groups, inodes, names and extents.      *)
(* The invariant, Consistency of NamespaceInvariant, says to which task's  *)
(* directory each inode belongs. The proof has one lemma per action, named *)
(* ...Sound (in NamespaceSteps for those that change nothing on the        *)
(* device): if the volume was consistent, and no deletion was cut and no   *)
(* bitmap written back stale by this step, it is consistent after. The     *)
(* ones that need thought are the commits, which change what a directory   *)
(* lists in one step; the deletion, which frees what entries and links     *)
(* still name, from last to first; and the allocation and registration of  *)
(* inodes, which write a bitmap back under the guard while a deletion      *)
(* clears a bit without it: Guarded says that nobody else is then between  *)
(* the two, and the condition Intact that no bit was lost.                 *)
(***************************************************************************)
EXTENDS NamespaceSteps

-----------------------------------------------------------------------------
(* Data and directories are stored before anything refers to them.         *)

(* The bytes b are stored in e, as the content that x is to have.          *)
Laid(t, b, e) ==
  /\ e \in Extents \cup {None} /\ Stores(b, e)
  /\ Others(t) /\ UNCHANGED <<bits, inodes, lost, orphans, guard>>
  /\ op'[t] = op[t] /\ inodes'[Root] = inodes[Root]
  /\ loc'[t].held = loc[t].held \cup ({e} \ {None})
  /\ loc'[t].born = loc[t].born /\ loc'[t].doomed = loc[t].doomed
  /\ loc'[t].path = loc[t].path /\ loc'[t].dest = loc[t].dest
  /\ loc'[t].body = loc[t].body /\ loc'[t].rest = loc[t].rest
  /\ loc'[t].parent = loc[t].parent /\ loc'[t].dparent = loc[t].dparent
  /\ loc'[t].dir = loc[t].dir /\ loc'[t].ddir = loc[t].ddir
  /\ loc'[t].target = loc[t].target /\ loc'[t].stack = loc[t].stack

LEMMA LaidStays ==
  ASSUME Typed, Typed', NEW own \in Owners, Consistent(own), NEW t \in Tasks,
         NEW b \in Content, NEW e, Laid(t, b, e),
         {pc[t], pc'[t]} \cap {"idle", "born", "clear"} = {}
  PROVE  /\ Stays
         /\ e \in Extents \cup {None} /\ e \notin used
         /\ \A f \in used : disk'[f] = disk[f]
         /\ b.form = "blank" => e = None
         /\ b.form # "blank" => e # None /\ disk'[e] = b /\ e \in Extents
<1>1. /\ used' = used \cup ({e} \ {None}) /\ e \notin used
      /\ \A f \in used : disk'[f] = disk[f]
      /\ b.form = "blank" => e = None
      /\ b.form # "blank" => e # None /\ disk'[e] = b /\ e \in Extents
  BY Inside DEF Laid, Stores, Typed, StateTyped
<1>2. Born' = Born /\ Emptied' = Emptied
  <2>1. Others(t) /\ loc'[t].born = loc[t].born /\ pc[t] # "clear" /\ pc'[t] # "clear"
    BY DEF Laid
  <2> QED BY <2>1, Parts, PartsNext DEF Clears
<1>3. Sound' = Sound /\ Counted' = Counted
  BY <1>2 DEF Sound, Counted, Laid
<1>4. \A i \in Sound : inodes[i].ext # None => disk'[inodes[i].ext] = disk[inodes[i].ext]
  BY <1>1, InUse
<1> QED BY <1>1, <1>3, <1>4 DEF Stays, Laid

(* Content stored keeps the volume consistent.                             *)
LEMMA LaidSound ==
  ASSUME Typed, Typed', NEW own \in Owners, Consistent(own), NEW t \in Tasks,
         NEW b \in Content, NEW e, Laid(t, b, e),
         {pc[t], pc'[t]} \cap {"idle", "born", "clear"} = {},
         Aside(own, t), TaskSound(own, t)'
  PROVE  Consistent(own)'
<1>1. /\ e \in Extents \cup {None} /\ Stores(b, e)
      /\ Others(t) /\ UNCHANGED <<bits, inodes, lost, orphans, guard>>
      /\ loc'[t].held = loc[t].held \cup ({e} \ {None})
      /\ loc'[t].born = loc[t].born
  BY DEF Laid
<1> QED BY <1>1, StoreSound

LEMMA PutsLay ==
  ASSUME Typed, NEW t \in Tasks, NEW b \in Content, NEW x \in INode,
         NEW label \in PCs, Puts(t, b, x, label)
  PROVE  \E e : /\ Laid(t, b, e) /\ pc'[t] = label
                /\ loc'[t].put = [x EXCEPT !.ext = e] /\ loc'[t].old = x.ext
                /\ loc'[t].child = loc[t].child /\ loc'[t].dput = loc[t].dput
<1>1. PICK e \in Extents \cup {None}, r \in Locals :
         /\ Stores(b, e)
         /\ r = [loc[t] EXCEPT !.put = [x EXCEPT !.ext = e], !.old = x.ext,
                               !.held = loc[t].held \cup ({e} \ {None})]
         /\ Moves(t, label, r)
         /\ UNCHANGED <<bits, inodes, guard, op, lost, orphans, doomed, clobbered,
                        crashes>>
  BY DEF Puts
<1>2. /\ pc'[t] = label /\ loc'[t] = r
      /\ \A u \in Tasks \ {t} : pc'[u] = pc[u] /\ loc'[u] = loc[u]
  BY <1>1, MovesFacts DEF Typed
<1>3. /\ r.put = [x EXCEPT !.ext = e] /\ r.old = x.ext
      /\ r.held = loc[t].held \cup ({e} \ {None})
      /\ r.born = loc[t].born /\ r.doomed = loc[t].doomed
      /\ r.path = loc[t].path /\ r.dest = loc[t].dest
      /\ r.body = loc[t].body /\ r.rest = loc[t].rest
      /\ r.parent = loc[t].parent /\ r.dparent = loc[t].dparent
      /\ r.dir = loc[t].dir /\ r.ddir = loc[t].ddir
      /\ r.target = loc[t].target /\ r.stack = loc[t].stack
      /\ r.child = loc[t].child /\ r.dput = loc[t].dput
  BY <1>1, LocalsTyped DEF Locals, Typed
<1>4. Laid(t, b, e)
  BY <1>1, <1>2, <1>3 DEF Laid, Others
<1> QED BY <1>2, <1>3, <1>4

LEMMA ReplaceSound ==
  ASSUME Proper, Typed, Typed', NEW own \in Owners, Consistent(own), NEW t \in Tasks,
         Replace(t), Intact'
  PROVE  Consistent(own)'
<1>1. pc[t] = "replace" /\ op[t] \in Linking
  BY DEF Replace, Typed, Placed
<1>2. Overwriting(own, t) /\ Given(t)
  BY <1>1 DEF Consistent, TaskSound
<1>3. CASE Fail(t)
  BY <1>1, <1>3, FailureSound
<1>4. CASE Puts(t, Payload(t), loc[t].child, "commit")
  <2>1. PICK b : b = Payload(t)
    OBVIOUS
  <2>2. b \in Content /\ loc[t].child \in INode /\ "commit" \in PCs
    BY <1>1, <2>1, PayloadTyped, LocalsTyped DEF Typed, PCs
  <2>3. PICK e : /\ Laid(t, b, e) /\ pc'[t] = "commit"
                 /\ loc'[t].put = [loc[t].child EXCEPT !.ext = e]
                 /\ loc'[t].old = loc[t].child.ext
                 /\ loc'[t].child = loc[t].child /\ loc'[t].dput = loc[t].dput
    BY <1>4, <2>1, <2>2, PutsLay
  <2>4. op[t] = "write" /\ loc[t].body \in Bodies
    BY <1>2 DEF Overwriting, Given
  <2>5. b.form = "data"
    BY <2>1, <2>4 DEF Proper, Payload, DataBytes, Blank
  <2>6. Stays /\ e \in Extents /\ e # None /\ disk'[e] = b
    BY <1>1, <2>2, <2>3, <2>5, LaidStays
  <2>7. op'[t] = "write" /\ loc'[t].held = {e}
    BY <1>1, <1>2, <2>3, <2>4, <2>6 DEF Laid, Overwriting
  <2>8. Copy(own, t, loc[t].child) /\ Copy(own, t, loc[t].child)'
    <3>1. PICK x : x = loc[t].child
      OBVIOUS
    <3>2. Copy(own, t, x)
      BY <1>2, <3>1 DEF Overwriting
    <3>3. Copy(own, t, x)'
      BY <2>6, <3>2, StaysFacts
    <3> QED BY <2>3, <3>1, <3>2, <3>3 DEF Copy
  <2>9. loc'[t].put.ext = e
    BY <2>2, <2>3, <2>6, INodeFields
  <2>10. Replaces(loc'[t].put, loc'[t].child, loc'[t].old)
    BY <2>3, <2>9 DEF Replaces
  <2>11. Overwriting(own, t)'
    <3>1. loc'[t].born = {} /\ loc'[t].doomed = {} /\ Alone(t)'
          /\ loc'[t].child.kind = "File"
      BY <1>2, <2>3 DEF Overwriting, Laid, Alone
    <3> QED BY <2>3, <2>5, <2>6, <2>7, <2>8, <2>9, <2>10, <3>1 DEF Overwriting
  <2>12. Given(t)'
    BY <1>1, <1>2, <2>3, GivenKept DEF Laid
  <2>13. Even(t) /\ Even(t)'
    BY <1>1, <2>3, <2>4, <2>7 DEF Even, Removing
  <2>14. TaskSound(own, t)'
    BY <2>3, <2>7, <2>11, <2>12 DEF TaskSound, Walks, Removing
  <2>15. {pc[t], pc'[t]} \cap {"idle", "born", "clear"} = {}
    BY <1>1, <2>3
  <2> QED BY <2>2, <2>3, <2>13, <2>14, <2>15, EvenAsideNext, LaidSound
<1> QED BY <1>3, <1>4, ReplaceSteps

(* The data of a new inode is stored.                                      *)
LEMMA StoreDataSound ==
  ASSUME Proper, Typed, Typed', NEW own \in Owners, Consistent(own), NEW t \in Tasks,
         StoreData(t), Intact'
  PROVE  Consistent(own)'
<1>1. pc[t] = "data" /\ op[t] \in Linking
  BY DEF StoreData, Typed, Placed
<1>2. Making(own, t) /\ Given(t)
  BY <1>1 DEF Consistent, TaskSound
<1>3. CASE Fail(t)
  BY <1>1, <1>3, FailureSound
<1>4. ASSUME NEW e \in Extents \cup {None}, NEW r \in Locals,
             Stores(Payload(t), e),
             r = [loc[t] EXCEPT !.child = [loc[t].child EXCEPT !.ext = e],
                                !.held = loc[t].held \cup ({e} \ {None})],
             Moves(t, "choose", r),
             UNCHANGED <<bits, inodes, guard, op, lost, orphans, doomed,
                         clobbered, crashes>>
      PROVE  Consistent(own)'
  <2>1. PICK b : b = Payload(t)
    OBVIOUS
  <2>2. b \in Content /\ loc[t].child \in INode /\ "choose" \in PCs
    BY <1>1, <2>1, PayloadTyped, LocalsTyped DEF Typed, PCs
  <2>3. /\ pc'[t] = "choose" /\ loc'[t] = r
        /\ \A u \in Tasks \ {t} : pc'[u] = pc[u] /\ loc'[u] = loc[u]
    BY <1>4, <2>2, MovesFacts DEF Typed
  <2>4. /\ r.child = [loc[t].child EXCEPT !.ext = e]
        /\ r.held = loc[t].held \cup ({e} \ {None})
        /\ r.born = loc[t].born /\ r.doomed = loc[t].doomed
        /\ r.path = loc[t].path /\ r.dest = loc[t].dest
        /\ r.body = loc[t].body /\ r.rest = loc[t].rest
        /\ r.parent = loc[t].parent /\ r.dparent = loc[t].dparent
        /\ r.dir = loc[t].dir /\ r.ddir = loc[t].ddir
        /\ r.target = loc[t].target /\ r.stack = loc[t].stack
        /\ r.dput = loc[t].dput
    BY <1>4, LocalsTyped DEF Locals, Typed
  <2>5. Laid(t, b, e)
    BY <1>4, <2>1, <2>3, <2>4 DEF Laid, Others
  <2>6. {pc[t], pc'[t]} \cap {"idle", "born", "clear"} = {}
    BY <1>1, <2>3
  <2>7. /\ b.form = FormOf(KindOf(op[t])) /\ b.form # "blank"
        /\ op[t] = "symlink" => b.path = loc[t].dest
        /\ op[t] = "hardlink" => b.target = loc[t].target.inumber
    BY <1>1, <1>2, <2>1 DEF Proper, Given, Payload, DataBytes, PathBytes, NumberBytes,
       Blank, Linking, KindOf, FormOf
  <2>8. Stays /\ e \in Extents /\ e # None /\ disk'[e] = b
    BY <2>2, <2>5, <2>6, <2>7, LaidStays
  <2>9. /\ loc[t].born = {} /\ loc[t].doomed = {} /\ Alone(t) /\ TargetSound(own, t)
        /\ Folder(own, t, loc[t].parent) /\ loc[t].dir = Source(t)
        /\ ~Binds(loc[t].dir, NewName(t)) /\ loc[t].held = {}
    BY <1>1, <1>2 DEF Making
  <2>10. op'[t] = op[t]
    BY <2>5 DEF Laid
  <2>11. TargetSound(own, t)' /\ Folder(own, t, loc[t].parent)' /\ Source(t)' = Source(t)
    <3>1. PICK x, p, i : x = loc[t].target /\ p = loc[t].parent /\ i = p.inumber
      OBVIOUS
    <3>2. Folder(own, t, p) /\ i \in Sound
      BY <2>9, <3>1, Inside DEF Folder, Copy
    <3>3. Folder(own, t, p)' /\ EntriesOf(i)' = EntriesOf(i)
      BY <2>8, <3>2, StaysFacts
    <3>4. op[t] = "hardlink" => Copy(own, t, x)' /\ x.kind = "File"
      BY <2>8, <2>9, <3>1, StaysFacts DEF TargetSound
    <3> QED BY <2>3, <2>4, <2>10, <3>1, <3>3, <3>4
            DEF TargetSound, Folder, Copy, Source
  <2>12. r.child.ext = e
    BY <2>2, <2>4, <2>8, INodeFields
  <2>13. Making(own, t)'
    <3>1. NewName(t)' = NewName(t)
      BY <2>3, <2>4, <2>10 DEF NewName
    <3>2. op[t] # "mkdir"
      BY <1>1 DEF Linking
    <3>3. loc'[t].held = {e}
      BY <2>3, <2>4, <2>8, <2>9
    <3> QED BY <2>3, <2>4, <2>7, <2>8, <2>9, <2>10, <2>11, <2>12, <3>1, <3>2, <3>3
            DEF Making, Alone
  <2>14. Given(t)'
    BY <1>1, <1>2, <2>3, <2>4, <2>10, GivenKept
  <2>15. Even(t) /\ Even(t)' /\ ~Removing(t)'
    BY <1>1, <2>3, WalksEven, WalksEvenNext
  <2>16. TaskSound(own, t)'
    BY <2>3, <2>13, <2>14, <2>15 DEF TaskSound, Walks
  <2> QED BY <2>2, <2>5, <2>6, <2>15, <2>16, EvenAsideNext, LaidSound
<1> QED BY <1>3, <1>4, StoreDataSteps

-----------------------------------------------------------------------------
(* A directory is stored with an entry more, less, or renamed.             *)

(* A directory of t has been stored anew, and is to be registered.         *)
Rewritten(own, t, e) ==
  /\ Stays /\ Laid(t, RewriteBytes(t), e) /\ RewriteBytes(t) \in Content
  /\ pc'[t] = RewriteLabel(t) /\ op'[t] = op[t]
  /\ loc'[t].put.ext = e /\ e \in Extents \cup {None}
  /\ e = None => op[t] = "unlink" /\ loc[t].dir = {}
  /\ loc'[t].child = loc[t].child /\ loc'[t].dput = loc[t].dput
  /\ Editing(own, t)' /\ Source(t)' = Source(t)
  /\ {pc[t], pc'[t]} \cap {"idle", "born", "clear"} = {}

LEMMA RewrittenWhen ==
  ASSUME Typed, Typed', NEW own \in Owners, Consistent(own), NEW t \in Tasks,
         pc[t] = "rewrite", Folder(own, t, loc[t].parent),
         Puts(t, RewriteBytes(t), loc[t].parent, RewriteLabel(t))
  PROVE  \E e : Rewritten(own, t, e)
<1>1. PICK b, p, label : b = RewriteBytes(t) /\ p = loc[t].parent /\ label = RewriteLabel(t)
  OBVIOUS
<1>2. p \in INode /\ label \in PCs /\ label \in {"commit", "rewriteDest"}
      /\ loc[t].dir \in SUBSET Entry
  BY <1>1, LocalsTyped DEF Typed, PCs, RewriteLabel
<1>3. b \in Content
  BY <1>1, <1>2, DirBytesTyped, IdleTyped DEF RewriteBytes
<1>4. PICK e : /\ Laid(t, b, e) /\ pc'[t] = label
               /\ loc'[t].put = [p EXCEPT !.ext = e] /\ loc'[t].old = p.ext
               /\ loc'[t].child = loc[t].child /\ loc'[t].dput = loc[t].dput
  <2>1. Puts(t, b, p, label)
    BY <1>1
  <2> QED BY <1>2, <1>3, <2>1, PutsLay
<1>5. {pc[t], pc'[t]} \cap {"idle", "born", "clear"} = {}
  BY <1>2, <1>4
<1>6. /\ Stays /\ e \in Extents \cup {None}
      /\ b.form = "blank" => e = None
      /\ b.form # "blank" => e # None /\ disk'[e] = b
  BY <1>3, <1>4, <1>5, LaidStays
<1>7. /\ e = None => op[t] = "unlink" /\ loc[t].dir = {}
      /\ e # None => b.form = "dir" /\ b.entries = loc[t].dir
  BY <1>1, <1>2, <1>6, DirBytesTyped DEF RewriteBytes, Blank
<1>8. loc'[t].put.ext = e
  BY <1>2, <1>4, <1>6, INodeFields
<1>9. loc'[t].parent = p /\ loc'[t].dir = loc[t].dir /\ op'[t] = op[t]
  BY <1>1, <1>4 DEF Laid
<1>10. Folder(own, t, p)' /\ Source(t)' = Source(t)
  <2>1. PICK i : i = p.inumber
    OBVIOUS
  <2>2. Folder(own, t, p) /\ i \in Sound
    BY <1>1, <2>1, Inside DEF Folder, Copy
  <2>3. Folder(own, t, p)' /\ EntriesOf(i)' = EntriesOf(i)
    BY <1>6, <2>2, StaysFacts
  <2> QED BY <1>1, <1>9, <2>1, <2>3 DEF Source
<1>11. Editing(own, t)'
  <2>1. Folder(own, t, loc[t].parent)'
    BY <1>9, <1>10 DEF Folder, Copy
  <2>2. Replaces(loc[t].put, loc[t].parent, loc[t].old)'
    BY <1>4, <1>8, <1>9 DEF Replaces
  <2>3. Lists(loc[t].put.ext, loc[t].dir)'
    BY <1>6, <1>7, <1>8, <1>9 DEF Lists
  <2> QED BY <2>1, <2>2, <2>3 DEF Editing
<1> QED BY <1>1, <1>3, <1>4, <1>5, <1>6, <1>7, <1>8, <1>9, <1>10, <1>11 DEF Rewritten

(* A directory stored keeps it consistent.                                 *)
LEMMA RewrittenSound ==
  ASSUME Typed, Typed', NEW own \in Owners, Consistent(own), NEW t \in Tasks,
         NEW e, Rewritten(own, t, e), Aside(own, t), TaskSound(own, t)'
  PROVE  Consistent(own)'
  BY LaidSound DEF Rewritten

LEMMA RewriteEntering ==
  ASSUME Typed, Typed', NEW own \in Owners, Consistent(own), NEW t \in Tasks,
         pc[t] = "rewrite", op[t] \in Creating, NEW e, Rewritten(own, t, e)
  PROVE  Consistent(own)'
<1>1. Entering(own, t) /\ Given(t)
  BY DEF Consistent, TaskSound
<1>2. /\ loc[t].doomed = {} /\ Alone(t) /\ TargetSound(own, t)
      /\ ~Binds(Source(t), NewName(t)) /\ loc[t].held = {}
      /\ op[t] # "unlink" /\ op[t] # "move"
  BY <1>1 DEF Entering, Creating, Linking
<1>3. PICK c : c = loc[t].child.inumber
  OBVIOUS
<1>4. /\ loc[t].dir = With(Source(t), NewName(t), c) /\ loc[t].born = {c}
      /\ loc[t].child = inodes[c]
      /\ inodes[c].kind = KindOf(op[t]) /\ inodes[c].nlink = 1
      /\ op[t] = "hardlink" => TargetOf(c) = loc[t].target.inumber
  BY <1>1, <1>3 DEF Entering
<1>5. c \in Sound
  BY <1>4 DEF Consistent, Shared, BornOwned
<1>6. /\ pc'[t] = "commit" /\ op'[t] = op[t] /\ loc'[t].child = loc[t].child
      /\ loc'[t].put.ext = e /\ e # None
      /\ Editing(own, t)' /\ Source(t)' = Source(t) /\ Stays
  BY <1>2 DEF Rewritten, RewriteLabel, Alone
<1>7. /\ loc'[t].held = {e} /\ loc'[t].born = loc[t].born
      /\ loc'[t].doomed = {} /\ loc'[t].path = loc[t].path /\ loc'[t].dest = loc[t].dest
      /\ loc'[t].body = loc[t].body /\ loc'[t].rest = loc[t].rest
      /\ loc'[t].dparent = loc[t].dparent /\ loc'[t].dput = loc[t].dput
      /\ loc'[t].dir = loc[t].dir /\ loc'[t].target = loc[t].target
  BY <1>2, <1>6 DEF Rewritten, Laid
<1>8. TargetSound(own, t)'
  <2>1. PICK x : x = loc[t].target
    OBVIOUS
  <2>2. op[t] = "hardlink" => Copy(own, t, x)' /\ x.kind = "File"
    BY <1>2, <1>6, <2>1, StaysFacts DEF TargetSound
  <2> QED BY <1>6, <1>7, <2>1, <2>2 DEF TargetSound, Copy
<1>9. NewName(t)' = NewName(t)
  BY <1>6, <1>7 DEF NewName
<1>10. inodes'[c] = inodes[c] /\ TargetOf(c)' = TargetOf(c)
  BY <1>5, <1>6, StaysFacts DEF Stays
<1>11. Entering(own, t)'
  <2>1. loc'[t].child.inumber = c
    BY <1>3, <1>6
  <2>2. loc'[t].doomed = {} /\ Alone(t)' /\ loc'[t].held = {e} \ {None}
    BY <1>2, <1>6, <1>7 DEF Alone
  <2>3. /\ (~Binds(Source(t), NewName(t)))'
        /\ loc'[t].dir = With(Source(t)', NewName(t)', c)
    BY <1>2, <1>4, <1>6, <1>7, <1>9
  <2>4. /\ loc'[t].born = {c} /\ loc'[t].child = inodes'[c]
        /\ inodes'[c].kind = KindOf(op'[t]) /\ inodes'[c].nlink = 1
        /\ op'[t] = "hardlink" => TargetOf(c)' = loc'[t].target.inumber
    BY <1>4, <1>6, <1>7, <1>10
  <2> QED BY <1>6, <1>8, <2>1, <2>2, <2>3, <2>4 DEF Entering
<1>12. Given(t)'
  BY <1>1, <1>6, <1>7, GivenKept
<1>13. Even(t) /\ Even(t)' /\ ~Removing(t)'
  BY <1>2, <1>6, <1>7 DEF Even, Removing
<1>14. TaskSound(own, t)'
  BY <1>2, <1>6, <1>11, <1>12, <1>13 DEF TaskSound, Walks, Creating, Linking
<1> QED BY <1>13, <1>14, EvenAsideNext, RewrittenSound

LEMMA RewriteMoving ==
  ASSUME Typed, Typed', NEW own \in Owners, Consistent(own), NEW t \in Tasks,
         pc[t] = "rewrite", op[t] = "move", NEW e, Rewritten(own, t, e)
  PROVE  Consistent(own)'
<1>1. Moving(own, t) /\ Given(t)
  BY DEF Consistent, TaskSound
<1>2. PICK d, n, m, p, x, j :
         /\ d = Source(t) /\ n = NameOf(loc[t].path) /\ m = NameOf(loc[t].dest)
         /\ p = loc[t].dparent /\ x = Victim(t) /\ j = p.inumber
  OBVIOUS
<1>3. /\ loc[t].born = {} /\ loc[t].doomed = {} /\ Binds(d, n)
      /\ loc[t].dput = NoINode /\ loc[t].held = {}
      /\ p = NoINode => ~Binds(d, m) /\ loc[t].dir = With(Without(d, n), m, x)
      /\ p # NoINode =>
           /\ loc[t].dir = Without(d, n)
           /\ j # loc[t].parent.inumber
           /\ Folder(own, t, p)
           /\ ~Binds(EntriesOf(j), m)
           /\ loc[t].ddir = With(EntriesOf(j), m, x)
  BY <1>1, <1>2 DEF Moving
<1>4. /\ pc'[t] = (IF p # NoINode THEN "rewriteDest" ELSE "commit") /\ op'[t] = op[t]
      /\ loc'[t].put.ext = e
      /\ Editing(own, t)' /\ Source(t)' = d /\ Stays /\ loc'[t].dput = NoINode
  BY <1>2, <1>3 DEF Rewritten, RewriteLabel
<1>5. /\ loc'[t].held = {e} \ {None} /\ loc'[t].born = {}
      /\ loc'[t].doomed = {} /\ loc'[t].path = loc[t].path /\ loc'[t].dest = loc[t].dest
      /\ loc'[t].body = loc[t].body /\ loc'[t].rest = loc[t].rest
      /\ loc'[t].dparent = p /\ loc'[t].parent = loc[t].parent
      /\ loc'[t].dir = loc[t].dir /\ loc'[t].ddir = loc[t].ddir
  BY <1>2, <1>3 DEF Rewritten, Laid
<1>6. Victim(t)' = x
  BY <1>2, <1>4, <1>5 DEF Victim
<1>7. p # NoINode => Folder(own, t, p)' /\ EntriesOf(j)' = EntriesOf(j)
  <2>1. p # NoINode => j \in Sound
    BY <1>2, <1>3, Inside DEF Folder, Copy
  <2> QED BY <1>3, <1>4, <2>1, StaysFacts
<1>8. Folder(own, t, p)' => Folder(own, t, loc[t].dparent)'
  BY <1>5 DEF Folder, Copy
<1>9. Moving(own, t)'
  <2>1. CASE p = NoINode
    BY <1>2, <1>3, <1>4, <1>5, <1>6, <2>1 DEF Moving
  <2>2. CASE p # NoINode
    BY <1>2, <1>3, <1>4, <1>5, <1>6, <1>7, <1>8, <2>2 DEF Moving
  <2> QED BY <2>1, <2>2
<1>10. Given(t)'
  BY <1>1, <1>4, <1>5, GivenKept
<1>11. Even(t) /\ Even(t)' /\ ~Removing(t)'
  BY <1>4 DEF Even, Removing
<1>12. TaskSound(own, t)'
  BY <1>4, <1>9, <1>10, <1>11 DEF TaskSound, Walks, Creating, Linking
<1> QED BY <1>11, <1>12, EvenAsideNext, RewrittenSound

LEMMA RewriteUnlinking ==
  ASSUME Typed, Typed', NEW own \in Owners, Consistent(own), NEW t \in Tasks,
         pc[t] = "rewrite", op[t] = "unlink", NEW e, Rewritten(own, t, e)
  PROVE  Consistent(own)'
<1>1. Removing(t)
  BY DEF Removing
<1>2. /\ Unlinking(own, t) /\ Given(t) /\ Folder(own, t, loc[t].parent)
      /\ Binds(Source(t), NameOf(loc[t].path))
  BY <1>1, UnlinkingIs
<1>3. /\ loc[t].born = {} /\ Alone(t) /\ loc[t].held = {}
      /\ loc[t].dir = Without(Source(t), NameOf(loc[t].path))
      /\ loc[t].stack = <<>> /\ Spared(own, t)
  BY <1>2 DEF Unlinking
<1>4. /\ pc'[t] = "commit" /\ op'[t] = op[t]
      /\ loc'[t].put.ext = e
      /\ Editing(own, t)' /\ Source(t)' = Source(t) /\ Stays
  BY <1>3 DEF Rewritten, RewriteLabel, Alone
<1>5. /\ loc'[t].held = {e} \ {None} /\ loc'[t].born = {}
      /\ loc'[t].doomed = loc[t].doomed /\ loc'[t].path = loc[t].path
      /\ loc'[t].dest = loc[t].dest /\ loc'[t].body = loc[t].body
      /\ loc'[t].dparent = loc[t].dparent /\ loc'[t].dput = loc[t].dput
      /\ loc'[t].parent = loc[t].parent /\ loc'[t].dir = loc[t].dir
      /\ loc'[t].stack = <<>>
  BY <1>3 DEF Rewritten, Laid
<1>6. Removing(t)'
  BY <1>4 DEF Removing
<1>7. (Spared(own, t) => Spared(own, t)') /\ Aside(own, t)
  BY <1>1, <1>2, <1>4, <1>5, <1>6, RemovalStays
<1>8. Unlinking(own, t)'
  BY <1>2, <1>3, <1>4, <1>5, <1>7 DEF Unlinking, Alone
<1>9. Given(t)'
  BY <1>2, <1>4, <1>5, GivenKept
<1>10. TaskSound(own, t)'
  BY <1>4, <1>8, <1>9 DEF TaskSound, Walks, Creating, Linking
<1> QED BY <1>7, <1>10, RewrittenSound

LEMMA RewriteSound ==
  ASSUME Typed, Typed', NEW own \in Owners, Consistent(own), NEW t \in Tasks,
         Rewrite(t), Intact'
  PROVE  Consistent(own)'
<1>1. pc[t] = "rewrite" /\ op[t] \in Creating \cup {"unlink", "move"}
  BY DEF Rewrite, Typed, Placed
<1>2. CASE Fail(t)
  BY <1>1, <1>2, FailureSound
<1>3. CASE Puts(t, RewriteBytes(t), loc[t].parent, RewriteLabel(t))
  <2>1. Folder(own, t, loc[t].parent)
    BY <1>1 DEF Consistent, TaskSound, Entering, Moving, Unlinking, Editing, Removing
  <2>2. PICK e : Rewritten(own, t, e)
    BY <1>1, <1>3, <2>1, RewrittenWhen
  <2> QED BY <1>1, <2>2, RewriteEntering, RewriteMoving, RewriteUnlinking
<1> QED BY <1>2, <1>3, RewriteSteps

-----------------------------------------------------------------------------
(* The destination of a move is stored, and an inumber chosen.             *)

LEMMA RewriteDestSound ==
  ASSUME Typed, Typed', NEW own \in Owners, Consistent(own), NEW t \in Tasks,
         RewriteDest(t), Intact'
  PROVE  Consistent(own)'
<1>1. pc[t] = "rewriteDest" /\ op[t] = "move"
  BY DEF RewriteDest, Typed, Placed
<1>2. Moving(own, t) /\ Given(t)
  BY <1>1 DEF Consistent, TaskSound
<1>3. CASE Fail(t)
  BY <1>1, <1>3, FailureSound
<1>4. ASSUME NEW e \in Extents, NEW r \in Locals,
             Stores(DirBytes(loc[t].ddir), e),
             r = [loc[t] EXCEPT !.dput = [loc[t].dparent EXCEPT !.ext = e],
                                !.dold = loc[t].dparent.ext,
                                !.held = loc[t].held \cup {e}],
             Moves(t, "commitDest", r),
             UNCHANGED <<bits, inodes, guard, op, lost, orphans, doomed,
                         clobbered, crashes>>
      PROVE  Consistent(own)'
  <2>1. PICK b : b = DirBytes(loc[t].ddir)
    OBVIOUS
  <2>2. /\ b \in Content /\ b.form = "dir" /\ b.entries = loc[t].ddir
        /\ "commitDest" \in PCs /\ e # None
    BY <2>1, DirBytesTyped, LocalsTyped, Inside DEF Typed, PCs
  <2>3. /\ pc'[t] = "commitDest" /\ loc'[t] = r
        /\ \A u \in Tasks \ {t} : pc'[u] = pc[u] /\ loc'[u] = loc[u]
    BY <1>4, <2>2, MovesFacts DEF Typed
  <2>4. /\ r.dput = [loc[t].dparent EXCEPT !.ext = e] /\ r.dold = loc[t].dparent.ext
        /\ r.held = loc[t].held \cup {e}
        /\ r.born = loc[t].born /\ r.doomed = loc[t].doomed
        /\ r.path = loc[t].path /\ r.dest = loc[t].dest
        /\ r.body = loc[t].body /\ r.rest = loc[t].rest
        /\ r.parent = loc[t].parent /\ r.dparent = loc[t].dparent
        /\ r.dir = loc[t].dir /\ r.ddir = loc[t].ddir
        /\ r.target = loc[t].target /\ r.stack = loc[t].stack
        /\ r.put = loc[t].put /\ r.old = loc[t].old
    BY <1>4, LocalsTyped DEF Locals, Typed
  <2>5. Laid(t, b, e)
    BY <1>4, <2>1, <2>2, <2>3, <2>4 DEF Laid, Others
  <2>6. {pc[t], pc'[t]} \cap {"idle", "born", "clear"} = {}
    BY <1>1, <2>3
  <2>7. /\ Stays /\ e \notin used /\ disk'[e] = b
        /\ \A f \in used : disk'[f] = disk[f]
    BY <2>2, <2>5, <2>6, LaidStays
  <2>8. PICK d, n, m, p, x, j, w :
         /\ d = Source(t) /\ n = NameOf(loc[t].path) /\ m = NameOf(loc[t].dest)
         /\ p = loc[t].dparent /\ x = Victim(t) /\ j = p.inumber /\ w = loc[t].parent
    OBVIOUS
  <2>9. /\ loc[t].born = {} /\ loc[t].doomed = {} /\ Binds(d, n)
        /\ loc[t].held = {loc[t].put.ext} \ {None}
        /\ p # NoINode
        /\ loc[t].dir = Without(d, n)
        /\ j # w.inumber
        /\ Folder(own, t, p)
        /\ ~Binds(EntriesOf(j), m)
        /\ loc[t].ddir = With(EntriesOf(j), m, x)
        /\ Folder(own, t, w) /\ Replaces(loc[t].put, w, loc[t].old)
        /\ Lists(loc[t].put.ext, loc[t].dir)
    BY <1>1, <1>2, <2>8 DEF Moving, Editing
  <2>10. loc[t].put.ext # e /\ Lists(loc[t].put.ext, loc[t].dir)'
    <3>1. loc[t].put.ext \in used \cup {None}
      BY <2>9, InUse
    <3>2. PICK f, D : f = loc[t].put.ext /\ D = loc[t].dir
      OBVIOUS
    <3>3. Lists(f, D)'
      BY <2>7, <2>9, <3>1, <3>2 DEF Lists
    <3>4. f = loc'[t].put.ext /\ D = loc'[t].dir
      BY <2>3, <2>4, <3>2
    <3> QED BY <2>2, <2>7, <3>1, <3>3, <3>4 DEF Lists
  <2>11. /\ Folder(own, t, p)' /\ EntriesOf(j)' = EntriesOf(j)
         /\ Folder(own, t, w)' /\ EntriesOf(w.inumber)' = EntriesOf(w.inumber)
    BY <2>7, <2>8, <2>9, StaysFacts, Inside DEF Folder, Copy
  <2>12. /\ Source(t)' = d /\ Folder(own, t, loc[t].parent)'
         /\ Folder(own, t, loc[t].dparent)'
    BY <2>3, <2>4, <2>8, <2>11 DEF Source, Folder, Copy
  <2>13. Victim(t)' = x /\ op'[t] = "move"
    BY <1>1, <2>3, <2>4, <2>5, <2>8, <2>12 DEF Victim, Laid
  <2>14. p \in INode /\ r.dput.ext = e
    BY <2>4, <2>8, LocalsTyped, INodeFields DEF Typed
  <2>15. Editing(own, t)'
    BY <2>3, <2>4, <2>8, <2>9, <2>10, <2>12 DEF Editing, Replaces
  <2>16. Moving(own, t)'
    <3>1. Replaces(loc[t].dput, loc[t].dparent, loc[t].dold)'
      BY <2>3, <2>4, <2>14 DEF Replaces
    <3>2. Lists(loc[t].dput.ext, loc[t].ddir)'
      BY <2>2, <2>3, <2>4, <2>7, <2>14 DEF Lists
    <3>3. loc'[t].held = ({loc'[t].put.ext} \ {None}) \cup {loc'[t].dput.ext}
      BY <2>3, <2>4, <2>9, <2>14
    <3>4. loc'[t].dput.ext \notin {None, loc'[t].put.ext}
      BY <2>2, <2>3, <2>4, <2>10, <2>14
    <3> QED BY <2>3, <2>4, <2>8, <2>9, <2>11, <2>12, <2>13, <2>15,
               <3>1, <3>2, <3>3, <3>4 DEF Moving
  <2>17. Given(t)'
    BY <1>1, <1>2, <2>3, <2>4, <2>13, GivenKept
  <2>18. Even(t) /\ Even(t)' /\ ~Removing(t)'
    BY <1>1, <2>3, <2>13 DEF Even, Removing
  <2>19. TaskSound(own, t)'
    BY <2>3, <2>13, <2>16, <2>17, <2>18 DEF TaskSound, Walks, Creating, Linking
  <2> QED BY <2>2, <2>5, <2>6, <2>18, <2>19, EvenAsideNext, LaidSound
<1> QED BY <1>3, <1>4, RewriteDestSteps

LEMMA ChooseInodeSound ==
  ASSUME Typed, Typed', NEW own \in Owners, Consistent(own), NEW t \in Tasks,
         ChooseInode(t), Intact'
  PROVE  Consistent(own)'
<1>1. pc[t] = "choose" /\ op[t] \in Creating
  BY DEF ChooseInode, Typed, Placed
<1>2. Making(own, t) /\ Given(t)
  BY <1>1 DEF Consistent, TaskSound
<1>3. CASE Fail(t)
  BY <1>1, <1>3, FailureSound
<1>4. ASSUME NEW i \in INumbers \ bits, NEW s, NEW r \in Locals,
             guard = NoTask, guard' = t,
             r = [loc[t] EXCEPT !.inum = i, !.snap = s],
             Moves(t, "born", r),
             UNCHANGED <<bits, inodes, used, disk, op, lost, orphans,
                         doomed, clobbered, crashes>>
      PROVE  Consistent(own)'
  <2>1. "born" \in PCs
    BY DEF PCs
  <2>2. /\ pc'[t] = "born" /\ loc'[t] = r /\ op'[t] = op[t]
        /\ \A u \in Tasks \ {t} : pc'[u] = pc[u] /\ loc'[u] = loc[u]
    BY <1>4, <2>1, MovesFacts DEF Typed
  <2>3. /\ r.held = loc[t].held /\ r.inum = i
        /\ r.born = loc[t].born /\ r.doomed = loc[t].doomed
        /\ r.path = loc[t].path /\ r.dest = loc[t].dest
        /\ r.body = loc[t].body /\ r.rest = loc[t].rest
        /\ r.parent = loc[t].parent /\ r.dparent = loc[t].dparent
        /\ r.dput = loc[t].dput /\ r.child = loc[t].child
        /\ r.dir = loc[t].dir /\ r.target = loc[t].target
    BY <1>4, LocalsTyped DEF Locals, Typed
  <2>4. Others(t)
    BY <1>4, <2>2 DEF Others
  <2>5. Guarded'
    <3>1. \A u \in Tasks : pc[u] # "born"
      BY <1>4, SharingAssumption DEF Consistent, Shared, Guarded
    <3> QED BY <1>4, <2>2, <3>1 DEF Guarded
  <2>6. Born' = Born /\ Emptied' = Emptied
    BY <1>1, <2>2, <2>3, <2>4, Parts, PartsNext DEF Clears
  <2>7. Stays
    BY <1>4, <2>6 DEF Stays, Sound, Counted
  <2>8. /\ loc[t].born = {} /\ loc[t].doomed = {} /\ Alone(t) /\ TargetSound(own, t)
        /\ Folder(own, t, loc[t].parent) /\ loc[t].dir = Source(t)
        /\ ~Binds(loc[t].dir, NewName(t))
    BY <1>1, <1>2 DEF Making
  <2>9. TargetSound(own, t)' /\ Folder(own, t, loc[t].parent)' /\ Source(t)' = Source(t)
    <3>1. PICK x, p, k : x = loc[t].target /\ p = loc[t].parent /\ k = p.inumber
      OBVIOUS
    <3>2. Folder(own, t, p) /\ k \in Sound
      BY <2>8, <3>1, Inside DEF Folder, Copy
    <3>3. Folder(own, t, p)' /\ EntriesOf(k)' = EntriesOf(k)
      BY <2>7, <3>2, StaysFacts
    <3>4. op[t] = "hardlink" => Copy(own, t, x)' /\ x.kind = "File"
      BY <2>7, <2>8, <3>1, StaysFacts DEF TargetSound
    <3> QED BY <2>2, <2>3, <3>1, <3>3, <3>4 DEF TargetSound, Folder, Copy, Source
  <2>10. Making(own, t)'
    <3>1. NewName(t)' = NewName(t)
      BY <2>2, <2>3 DEF NewName
    <3>2. LET e == loc[t].child.ext
          IN  /\ loc[t].held = {e} \ {None}
              /\ op[t] = "mkdir" <=> e = None
              /\ e # None => disk[e].form = FormOf(KindOf(op[t]))
              /\ op[t] = "symlink" => disk[e].path = loc[t].dest
              /\ op[t] = "hardlink" => disk[e].target = loc[t].target.inumber
      BY <1>1, <1>2 DEF Making
    <3> QED BY <1>4, <2>2, <2>3, <2>8, <2>9, <3>1, <3>2 DEF Making, Alone
  <2>11. Given(t)'
    BY <1>1, <1>2, <2>2, <2>3, GivenKept
  <2>12. Even(t) /\ Even(t)' /\ ~Removing(t)'
    BY <1>1, <2>2 DEF Even, Removing, Deleting
  <2>13. TaskSound(own, t)'
    BY <2>2, <2>10, <2>11, <2>12 DEF TaskSound, Walks
  <2>14. pc[t] # "clear" /\ pc'[t] # "clear" /\ pc[t] # "idle"
    BY <1>1, <2>2
  <2>15. loc'[t].held = loc[t].held /\ loc'[t].born = loc[t].born
    BY <2>2, <2>3
  <2>16. UNCHANGED <<bits, inodes, used, disk, lost, orphans>>
    BY <1>4
  <2> QED BY <2>4, <2>5, <2>12, <2>13, <2>14, <2>15, <2>16, EvenAsideNext, LocalSound
<1> QED BY <1>3, <1>4, ChooseInodeSteps

-----------------------------------------------------------------------------
(* What a commit has replaced is freed.                                    *)

(* What t no longer needs is freed.                                        *)
Frees(t, e) ==
  /\ e \in loc[t].held \cup {None} /\ Release(e)
  /\ Others(t) /\ UNCHANGED <<bits, inodes, lost, orphans, guard>>
  /\ loc'[t].held = loc[t].held \ {e} /\ loc'[t].born = loc[t].born
  /\ {pc[t], pc'[t]} \cap {"born", "clear"} = {} /\ pc[t] # "idle"

LEMMA FreesStay ==
  ASSUME Typed, Typed', NEW own \in Owners, Consistent(own), NEW t \in Tasks,
         NEW e, Frees(t, e)
  PROVE  Stays
<1>1. /\ e \in loc[t].held \cup {None} /\ Release(e) /\ Others(t)
      /\ UNCHANGED <<bits, inodes, lost, orphans, guard>>
      /\ loc'[t].born = loc[t].born /\ pc[t] # "clear" /\ pc'[t] # "clear"
  BY DEF Frees
<1>2. /\ used \subseteq Extents
      /\ \A f \in used \ {e} : disk'[f] = disk[f]
  BY <1>1 DEF Release, Typed, StateTyped
<1>3. Born' = Born /\ Emptied' = Emptied
  BY <1>1, Parts, PartsNext DEF Clears
<1>4. Sound' = Sound /\ Counted' = Counted
  BY <1>1, <1>3 DEF Sound, Counted
<1>5. \A i \in Sound : inodes[i].ext # None => disk'[inodes[i].ext] = disk[inodes[i].ext]
  <2>1. loc[t].held \subseteq Held
    BY DEF Held
  <2> QED BY <1>1, <1>2, <2>1 DEF Consistent, Shared, ContentSound
<1> QED BY <1>1, <1>4, <1>5 DEF Stays

(* What is freed is nobody's: the volume stays consistent.                 *)
LEMMA FreesSound ==
  ASSUME Typed, Typed', NEW own \in Owners, Consistent(own), NEW t \in Tasks,
         NEW e, Frees(t, e), Aside(own, t), TaskSound(own, t)'
  PROVE  Consistent(own)'
<1>1. /\ e \in loc[t].held \cup {None} /\ Release(e) /\ Others(t)
      /\ UNCHANGED <<bits, inodes, lost, orphans, guard>>
      /\ loc'[t].held = loc[t].held \ {e} /\ loc'[t].born = loc[t].born
      /\ {pc[t], pc'[t]} \cap {"born", "clear"} = {} /\ pc[t] # "idle"
  BY DEF Frees
<1> QED BY <1>1, ReleaseSound

(* What t goes on with is as it was.                                       *)
LEMMA ReleasingOn ==
  ASSUME Typed, Typed', NEW own \in Owners, Consistent(own), NEW t \in Tasks,
         Stays, TargetSound(own, t), op[t] = "mkdir" => Folder(own, t, loc[t].child),
         op'[t] = op[t], loc'[t].target = loc[t].target, loc'[t].child = loc[t].child
  PROVE  TargetSound(own, t)' /\ (op[t] = "mkdir" => Folder(own, t, loc[t].child)')
<1>1. PICK x, c : x = loc[t].target /\ c = loc[t].child
  OBVIOUS
<1>2. op[t] = "hardlink" => Copy(own, t, x)' /\ x.kind = "File"
  BY <1>1, StaysFacts DEF TargetSound
<1>3. op[t] = "mkdir" => Folder(own, t, c)'
  BY <1>1, StaysFacts
<1> QED BY <1>1, <1>2, <1>3 DEF TargetSound, Folder, Copy

LEMMA ReleaseOldSound ==
  ASSUME Typed, Typed', NEW own \in Owners, Consistent(own), NEW t \in Tasks,
         ReleaseOld(t), Intact'
  PROVE  Consistent(own)'
<1>1. pc[t] = "release" /\ op[t] \in Creating \cup {"unlink", "move"}
  BY DEF ReleaseOld, Typed, Placed
<1>2. Releasing(own, t) /\ Given(t)
  BY <1>1 DEF Consistent, TaskSound
<1>3. PICK e, h : e = loc[t].old /\ h = loc[t].held \ {e}
  OBVIOUS
<1>4. /\ loc[t].born = {} /\ TargetSound(own, t)
      /\ op[t] # "unlink" => loc[t].doomed = {}
      /\ op[t] # "move" => Alone(t)
      /\ op[t] = "mkdir" => Folder(own, t, loc[t].child)
      /\ loc[t].held = ({e} \cup (IF Alone(t) THEN {} ELSE {loc[t].dold})) \ {None}
      /\ ~Alone(t) => loc[t].dput # NoINode /\ (loc[t].dold # e \/ loc[t].dold = None)
  BY <1>1, <1>2, <1>3 DEF Releasing
<1>5. /\ e \in loc[t].held \cup {None}
      /\ Alone(t) => h = {}
      /\ ~Alone(t) => h = {loc[t].dold} \ {None}
  BY <1>3, <1>4
<1>6. /\ Release(e) /\ UNCHANGED <<bits, inodes, guard, lost, orphans>>
  BY <1>3, ReleaseOldSteps
<1>7. ASSUME NEW r \in Locals, NEW label \in {"bump", "releaseDest", "mkdir"},
             op' = op, Moves(t, label, r), r.held = h, r.born = loc[t].born
      PROVE  /\ Stays /\ Others(t) /\ pc'[t] = label /\ loc'[t] = r /\ op'[t] = op[t]
             /\ Frees(t, e) /\ inodes'[Root] = inodes[Root]
  <2>1. label \in PCs
    BY DEF PCs
  <2>2. /\ pc'[t] = label /\ loc'[t] = r /\ op'[t] = op[t]
        /\ \A u \in Tasks \ {t} : pc'[u] = pc[u] /\ loc'[u] = loc[u]
    BY <1>7, <2>1, MovesFacts DEF Typed
  <2>3. Frees(t, e)
    BY <1>1, <1>3, <1>5, <1>6, <1>7, <2>2 DEF Frees, Others
  <2> QED BY <1>6, <2>2, <2>3, FreesStay DEF Frees
<1>8. ASSUME NEW r \in Locals, op[t] = "hardlink", op' = op,
             r = [loc[t] EXCEPT !.held = h], Moves(t, "bump", r)
      PROVE  Consistent(own)'
  <2>1. /\ r.held = h /\ r.born = loc[t].born /\ r.doomed = loc[t].doomed
        /\ r.path = loc[t].path /\ r.dest = loc[t].dest /\ r.body = loc[t].body
        /\ r.dparent = loc[t].dparent /\ r.dput = loc[t].dput
        /\ r.target = loc[t].target /\ r.child = loc[t].child
    BY <1>8, LocalsTyped DEF Locals, Typed
  <2>2. /\ Stays /\ Others(t) /\ pc'[t] = "bump" /\ loc'[t] = r /\ op'[t] = op[t]
        /\ Frees(t, e)
    <3>1. op' = op /\ Moves(t, "bump", r) /\ r.held = h /\ r.born = loc[t].born
      BY <1>8, <2>1
    <3> QED BY <1>7, <3>1
  <2>3. TargetSound(own, t)'
    BY <1>4, <2>1, <2>2, ReleasingOn
  <2>4. Alone(t) /\ h = {}
    BY <1>4, <1>5, <1>8
  <2>5. Releasing(own, t)'
    BY <1>4, <1>8, <2>1, <2>2, <2>3, <2>4 DEF Releasing, Alone
  <2>6. Given(t)'
    BY <1>1, <1>2, <2>1, <2>2, GivenKept
  <2>7. TaskSound(own, t)'
    BY <1>8, <2>2, <2>5, <2>6 DEF TaskSound, Walks, Removing, Deleting
  <2>8. Aside(own, t)
    BY <1>1, <1>8, <2>1, <2>2 DEF Aside, Excused, ExcusedLink, Surplus, Removing
  <2> QED BY <2>2, <2>7, <2>8, FreesSound
<1>9. ASSUME NEW r \in Locals, op[t] = "move", loc[t].dput # NoINode, op' = op,
             r = [loc[t] EXCEPT !.held = h], Moves(t, "releaseDest", r)
      PROVE  Consistent(own)'
  <2>1. /\ r.held = h /\ r.born = loc[t].born /\ r.doomed = loc[t].doomed
        /\ r.path = loc[t].path /\ r.dest = loc[t].dest /\ r.body = loc[t].body
        /\ r.dold = loc[t].dold
    BY <1>9, LocalsTyped DEF Locals, Typed
  <2>2. /\ Stays /\ Others(t) /\ pc'[t] = "releaseDest" /\ loc'[t] = r /\ op'[t] = op[t]
        /\ Frees(t, e)
    <3>1. op' = op /\ Moves(t, "releaseDest", r) /\ r.held = h /\ r.born = loc[t].born
      BY <1>9, <2>1
    <3> QED BY <1>7, <3>1
  <2>3. h = {loc[t].dold} \ {None}
    BY <1>5, <1>9 DEF Alone
  <2>4. Releasing(own, t)'
    BY <1>4, <1>9, <2>1, <2>2, <2>3 DEF Releasing, TargetSound
  <2>5. Given(t)'
    BY <1>1, <1>2, <2>1, <2>2, GivenKept
  <2>6. TaskSound(own, t)'
    BY <1>9, <2>2, <2>4, <2>5 DEF TaskSound, Walks, Removing, Deleting
  <2>7. Even(t) /\ Even(t)'
    BY <1>1, <1>9, <2>2 DEF Even, Removing, Deleting
  <2> QED BY <2>2, <2>6, <2>7, EvenAsideNext, FreesSound
<1>10. ASSUME NEW r \in Locals, op[t] = "mkdir", op' = op,
              r = [loc[t] EXCEPT !.held = h, !.node = loc[t].child,
                                 !.rest = Tail(loc[t].rest)],
              Moves(t, "mkdir", r)
       PROVE  Consistent(own)'
  <2>1. /\ r.held = h /\ r.born = loc[t].born /\ r.doomed = loc[t].doomed
        /\ r.path = loc[t].path /\ r.dest = loc[t].dest /\ r.body = loc[t].body
        /\ r.dparent = loc[t].dparent /\ r.dput = loc[t].dput
        /\ r.target = loc[t].target /\ r.child = loc[t].child
        /\ r.node = loc[t].child /\ r.stack = loc[t].stack
    BY <1>10, LocalsTyped DEF Locals, Typed
  <2>2. /\ Stays /\ Others(t) /\ pc'[t] = "mkdir" /\ loc'[t] = r /\ op'[t] = op[t]
        /\ Frees(t, e)
    <3>1. op' = op /\ Moves(t, "mkdir", r) /\ r.held = h /\ r.born = loc[t].born
      BY <1>10, <2>1
    <3> QED BY <1>7, <3>1
  <2>3. TargetSound(own, t)' /\ Folder(own, t, loc[t].child)'
    BY <1>4, <1>10, <2>1, <2>2, ReleasingOn
  <2>4. Alone(t) /\ h = {}
    BY <1>4, <1>5, <1>10
  <2>5. Copy(own, t, loc[t].node)'
    BY <2>1, <2>2, <2>3 DEF Folder, Copy
  <2>6. Walking(own, t)'
    BY <1>4, <1>10, <2>1, <2>2, <2>3, <2>4, <2>5 DEF Walking, Clean, Alone
  <2>7. Given(t)'
    BY <1>1, <1>2, <2>1, <2>2, GivenKept
  <2>8. TaskSound(own, t)'
    BY <1>10, <2>2, <2>6, <2>7 DEF TaskSound, Walks, Removing, Deleting
  <2>9. Even(t) /\ Even(t)'
    BY <1>1, <1>10, <2>2 DEF Even, Removing, Deleting
  <2> QED BY <2>2, <2>8, <2>9, EvenAsideNext, FreesSound
<1>11. ASSUME \/ op[t] \in {"write", "symlink", "unlink"}
              \/ op[t] = "move" /\ loc[t].dput = NoINode,
              Return(t)
       PROVE  Consistent(own)'
  <2>1. Others(t) /\ pc'[t] = "idle" /\ op'[t] = "ls" /\ loc'[t] = Idle
    BY <1>11, ReturnFacts DEF Typed
  <2>2. loc'[t].held = {} /\ loc'[t].born = {}
    BY <2>1 DEF Idle
  <2>3. h = {}
    BY <1>4, <1>5, <1>11
  <2>4. Frees(t, e)
    BY <1>1, <1>3, <1>4, <1>5, <1>6, <2>1, <2>2, <2>3 DEF Frees
  <2>5. Even(t) /\ Even(t)'
    BY <1>1, <1>11, <2>1 DEF Even, Removing, Deleting
  <2> QED BY <2>1, <2>4, <2>5, EvenAsideNext, IdleSound, FreesSound
<1> QED BY <1>3, <1>8, <1>9, <1>10, <1>11, ReleaseOldSteps

LEMMA ReleaseDestSound ==
  ASSUME Typed, Typed', NEW own \in Owners, Consistent(own), NEW t \in Tasks,
         ReleaseDest(t), Intact'
  PROVE  Consistent(own)'
<1>1. pc[t] = "releaseDest" /\ op[t] = "move"
  BY DEF ReleaseDest, Typed, Placed
<1>2. Releasing(own, t)
  BY <1>1 DEF Consistent, TaskSound
<1>3. loc[t].born = {} /\ loc[t].held = {loc[t].dold} \ {None}
  BY <1>1, <1>2 DEF Releasing
<1>4. Release(loc[t].dold) /\ Return(t) /\ UNCHANGED <<bits, inodes, guard, lost, orphans>>
  BY ReleaseDestSteps
<1>5. Others(t) /\ pc'[t] = "idle" /\ op'[t] = "ls" /\ loc'[t] = Idle
  BY <1>4, ReturnFacts DEF Typed
<1>6. loc'[t].held = {} /\ loc'[t].born = {}
  BY <1>5 DEF Idle
<1>7. Frees(t, loc[t].dold)
  BY <1>1, <1>3, <1>4, <1>5, <1>6 DEF Frees
<1>8. Even(t) /\ Even(t)'
  BY <1>1, <1>5 DEF Even, Removing, Deleting
<1> QED BY <1>5, <1>7, <1>8, EvenAsideNext, IdleSound, FreesSound

-----------------------------------------------------------------------------
(* Counts when the entries of one directory change: one more, one less, or *)
(* one renamed.                                                            *)

(* No directory but p has other entries than before.                       *)
Edits(own, t, p) ==
  /\ p \in Counted /\ own[p] = t
  /\ Counted \subseteq Counted'
  /\ \A j \in Counted : j # p => EntriesOf(j)' = EntriesOf(j)
  /\ \A j \in Counted' \ Counted : EntriesOf(j)' = {}

LEMMA RefsEdit ==
  ASSUME NEW own \in Owners, NEW t \in Tasks, NEW p, Edits(own, t, p), NEW i, own[i] = t
  PROVE  \A r : r \in EntryRefs(own, i)' <=>
           \/ \E j \in Counted \ {p} : \E e \in EntriesOf(j) :
                r = <<j, e>> /\ e.inumber = i /\ own[j] \in {t, NoTask}
           \/ \E e \in EntriesOf(p)' : r = <<p, e>> /\ e.inumber = i
<1>1. \A r : r \in EntryRefs(own, i)' <=>
              \E j \in Counted' : \E e \in EntriesOf(j)' :
                /\ r = <<j, e>> /\ e.inumber = i /\ own[j] \in {own[i], NoTask}
  BY RefsAreNext
<1> QED BY <1>1 DEF Edits

LEMMA RefsBefore ==
  ASSUME NEW own \in Owners, NEW t \in Tasks, NEW p, p \in Counted, own[p] = t,
         NEW i, own[i] = t
  PROVE  \A r : r \in EntryRefs(own, i) <=>
           \/ \E j \in Counted \ {p} : \E e \in EntriesOf(j) :
                r = <<j, e>> /\ e.inumber = i /\ own[j] \in {t, NoTask}
           \/ \E e \in EntriesOf(p) : r = <<p, e>> /\ e.inumber = i
<1>1. \A r : r \in EntryRefs(own, i) <=>
              \E j \in Counted : \E e \in EntriesOf(j) :
                /\ r = <<j, e>> /\ e.inumber = i /\ own[j] \in {own[i], NoTask}
  BY RefsAre
<1> QED BY <1>1

(* An entry is added.                                                      *)
LEMMA RefsGrow ==
  ASSUME Typed, NEW own \in Owners, Consistent(own), NEW t \in Tasks,
         NEW p, Edits(own, t, p), NEW i, own[i] = t, NEW n, NEW x,
         ~Binds(EntriesOf(p), n), EntriesOf(p)' = With(EntriesOf(p), n, x)
  PROVE  /\ Cardinality(EntryRefs(own, i)) \in Nat
         /\ Cardinality(EntryRefs(own, i)')
              = Cardinality(EntryRefs(own, i)) + (IF i = x THEN 1 ELSE 0)
<1>1. PICK f : f = [name |-> n, inumber |-> x]
  OBVIOUS
<1>2. EntriesOf(p)' = EntriesOf(p) \cup {f} /\ f \notin EntriesOf(p) /\ f.inumber = x
  BY <1>1 DEF With, Binds
<1>3. p \in Counted /\ own[p] = t
  BY DEF Edits
<1>4. IsFiniteSet(EntryRefs(own, i)) /\ Cardinality(EntryRefs(own, i)) \in Nat
  BY RefsFinite, FS_CardinalityType
<1>5. CASE i = x
  <2>1. EntryRefs(own, i)' = EntryRefs(own, i) \cup {<<p, f>>}
    <3>1. \A r : r \in EntryRefs(own, i)' <=> r \in EntryRefs(own, i) \cup {<<p, f>>}
      BY <1>2, <1>3, <1>5, RefsEdit, RefsBefore
    <3> QED BY <3>1
  <2>2. <<p, f>> \notin EntryRefs(own, i)
    BY <1>2, <1>3, RefsBefore
  <2> QED BY <1>4, <1>5, <2>1, <2>2, FS_AddElement
<1>6. CASE i # x
  <2>1. EntryRefs(own, i)' = EntryRefs(own, i)
    <3>1. \A r : r \in EntryRefs(own, i)' <=> r \in EntryRefs(own, i)
      BY <1>2, <1>3, <1>6, RefsEdit, RefsBefore
    <3> QED BY <3>1
  <2> QED BY <1>4, <1>6, <2>1
<1> QED BY <1>4, <1>5, <1>6

(* An entry is removed.                                                    *)
LEMMA RefsShrink ==
  ASSUME Typed, NEW own \in Owners, Consistent(own), NEW t \in Tasks,
         NEW p, Edits(own, t, p), NEW i, own[i] = t, NEW n, NEW f \in EntriesOf(p),
         f.name = n, \A e \in EntriesOf(p) : e.name = n => e = f,
         EntriesOf(p)' = Without(EntriesOf(p), n)
  PROVE  /\ Cardinality(EntryRefs(own, i)') \in Nat
         /\ Cardinality(EntryRefs(own, i)) \in Nat
         /\ Cardinality(EntryRefs(own, i)') + (IF i = f.inumber THEN 1 ELSE 0)
              = Cardinality(EntryRefs(own, i))
<1>2. EntriesOf(p)' = EntriesOf(p) \ {f}
  BY DEF Without
<1>3. p \in Counted /\ own[p] = t
  BY DEF Edits
<1>4. IsFiniteSet(EntryRefs(own, i)) /\ Cardinality(EntryRefs(own, i)) \in Nat
  BY RefsFinite, FS_CardinalityType
<1>5. CASE i = f.inumber
  <2>1. EntryRefs(own, i)' = EntryRefs(own, i) \ {<<p, f>>}
    <3>1. \A r : r \in EntryRefs(own, i)' <=> r \in EntryRefs(own, i) \ {<<p, f>>}
      BY <1>2, <1>3, <1>5, RefsEdit, RefsBefore
    <3> QED BY <3>1
  <2>2. <<p, f>> \in EntryRefs(own, i)
    BY <1>2, <1>3, <1>5, RefsBefore
  <2>3. /\ IsFiniteSet(EntryRefs(own, i)')
        /\ Cardinality(EntryRefs(own, i)') = Cardinality(EntryRefs(own, i)) - 1
    <3>1. PICK S, r : S = EntryRefs(own, i) /\ r = <<p, f>>
      OBVIOUS
    <3>2. IsFiniteSet(S) /\ r \in S
      BY <1>4, <2>2, <3>1
    <3>3. IsFiniteSet(S \ {r}) /\ Cardinality(S \ {r}) = Cardinality(S) - 1
      BY <3>2, FS_RemoveElement
    <3> QED BY <2>1, <3>1, <3>3
  <2>4. Cardinality(EntryRefs(own, i)') \in Nat
    BY <2>3, FS_CardinalityType
  <2> QED BY <1>4, <1>5, <2>3, <2>4
<1>6. CASE i # f.inumber
  <2>1. EntryRefs(own, i)' = EntryRefs(own, i)
    <3>1. \A r : r \in EntryRefs(own, i)' <=> r \in EntryRefs(own, i)
      BY <1>2, <1>3, <1>6, RefsEdit, RefsBefore
    <3> QED BY <3>1
  <2> QED BY <1>4, <1>6, <2>1
<1> QED BY <1>4, <1>5, <1>6

(* An entry is replaced by another that names the same inode.              *)
LEMMA RefsSwap ==
  ASSUME Typed, NEW own \in Owners, Consistent(own), NEW t \in Tasks,
         NEW p, Edits(own, t, p), NEW i, own[i] = t, NEW n, NEW f \in EntriesOf(p),
         f.name = n, \A e \in EntriesOf(p) : e.name = n => e = f,
         NEW m, ~Binds(EntriesOf(p), m),
         EntriesOf(p)' = With(Without(EntriesOf(p), n), m, f.inumber)
  PROVE  /\ Cardinality(EntryRefs(own, i)) \in Nat
         /\ Cardinality(EntryRefs(own, i)') = Cardinality(EntryRefs(own, i))
<1>1. PICK g : g = [name |-> m, inumber |-> f.inumber]
  OBVIOUS
<1>2. EntriesOf(p)' = (EntriesOf(p) \ {f}) \cup {g} /\ g \notin EntriesOf(p)
      /\ g.inumber = f.inumber /\ g # f
  BY <1>1 DEF With, Without, Binds
<1>3. p \in Counted /\ own[p] = t
  BY DEF Edits
<1>4. IsFiniteSet(EntryRefs(own, i)) /\ Cardinality(EntryRefs(own, i)) \in Nat
  BY RefsFinite, FS_CardinalityType
<1>5. CASE i = f.inumber
  <2>1. PICK S : S = EntryRefs(own, i) \ {<<p, f>>}
    OBVIOUS
  <2>2. EntryRefs(own, i)' = S \cup {<<p, g>>}
    <3>1. \A r : r \in EntryRefs(own, i)' <=> r \in S \cup {<<p, g>>}
      BY <1>2, <1>3, <1>5, <2>1, RefsEdit, RefsBefore
    <3> QED BY <3>1
  <2>3. <<p, f>> \in EntryRefs(own, i)
    BY <1>2, <1>3, <1>5, RefsBefore
  <2>4. <<p, g>> \notin S
    BY <1>2, <1>3, <1>5, <2>1, RefsBefore
  <2>5. IsFiniteSet(S) /\ Cardinality(S) = Cardinality(EntryRefs(own, i)) - 1
    BY <1>4, <2>1, <2>3, FS_RemoveElement
  <2>6. Cardinality(EntryRefs(own, i)') = Cardinality(S) + 1
    BY <2>2, <2>4, <2>5, FS_AddElement
  <2> QED BY <1>4, <2>5, <2>6
<1>6. CASE i # f.inumber
  <2>1. EntryRefs(own, i)' = EntryRefs(own, i)
    <3>1. \A r : r \in EntryRefs(own, i)' <=> r \in EntryRefs(own, i)
      BY <1>2, <1>3, <1>6, RefsEdit, RefsBefore
    <3> QED BY <3>1
  <2> QED BY <1>4, <2>1
<1> QED BY <1>5, <1>6

(* The hardlinks of t refer to what they referred to, but for new ones.    *)
LEMMA LinksKept ==
  ASSUME NEW own \in Owners, NEW t \in Tasks, NEW i, own[i] = t,
         Counted \subseteq Counted',
         \A j \in Counted : own[j] = t =>
           /\ inodes'[j].kind = inodes[j].kind
           /\ inodes[j].kind = "Hardlink" => TargetOf(j)' = TargetOf(j),
         \A j \in Counted' \ Counted :
           ~(own[j] = t /\ inodes'[j].kind = "Hardlink" /\ TargetOf(j)' = i)
  PROVE  LinkRefs(own, i)' = LinkRefs(own, i)
<1>1. \A j : j \in LinkRefs(own, i)' <=> j \in LinkRefs(own, i)
  BY RefsAre, RefsAreNext
<1> QED BY <1>1

-----------------------------------------------------------------------------
(* A directory is registered with what was stored for it. This is the      *)
(* commit of every operation on a directory; what it lists changes in one  *)
(* step.                                                                   *)

(* The inode x of t takes the place of i, as register_inode stores it.     *)
LEMMA RegistersWhen ==
  ASSUME Typed, NEW own \in Owners, Consistent(own), NEW t \in Tasks,
         NEW x \in INode, Enters(t, x), NEW i, i = x.inumber, i \in Counted,
         own[i] = t, x.kind = inodes[i].kind,
         UNCHANGED <<used, disk, lost, orphans>>, Others(t),
         loc'[t].born \in {loc[t].born, {}},
         pc[t] \notin {"idle", "born", "clear"}, pc'[t] \notin {"born", "clear"}
  PROVE  Registers(own, t, i, x)
<1>1. i \in bits /\ i # None
  BY Inside
<1>2. bits' = bits \cup {i} /\ inodes' = [inodes EXCEPT ![i] = x]
  BY <1>1, EntersFacts
<1>3. bits' = bits
  BY <1>1, <1>2
<1> QED BY <1>2, <1>3 DEF Registers, Enters

(* The directory i of t is registered with the content it has been stored  *)
(* with: the entries d.                                                    *)
Relists(own, t, i, x, d) ==
  /\ Registers(own, t, i, x) /\ x.kind = "Directory" /\ x.nlink = 1
  /\ i \in INumbers /\ i \in Counted /\ own[i] = t
  /\ inodes[i].kind = "Directory" /\ inodes[i].nlink = 1
  /\ Edits(own, t, i) /\ EntriesOf(i)' = d
  /\ x.ext \in loc[t].held \cup {None}
  /\ x.ext # None => disk[x.ext].form = "dir"
  /\ loc'[t].held = (loc[t].held \cup {inodes[i].ext}) \ {x.ext, None}

LEMMA RelistsWhen ==
  ASSUME Typed, Typed', NEW own \in Owners, Consistent(own), NEW t \in Tasks,
         NEW x \in INode, Enters(t, x), NEW p, Folder(own, t, p), NEW o,
         Replaces(x, p, o), NEW d, Lists(x.ext, d),
         x.ext \in loc[t].held \cup {None},
         UNCHANGED <<used, disk, lost, orphans>>, Others(t),
         loc'[t].born \in {loc[t].born, {}},
         loc'[t].held = (loc[t].held \cup {o}) \ {x.ext, None},
         pc[t] \notin {"idle", "born", "clear"}, pc'[t] \notin {"born", "clear"}
  PROVE  Relists(own, t, p.inumber, x, d)
<1>1. PICK i : i = p.inumber
  OBVIOUS
<1>2. /\ i \in Counted /\ own[i] = t /\ p = inodes[i] /\ p.kind = "Directory"
      /\ i \in INumbers /\ i \in Sound
  BY <1>1, Inside DEF Folder, Copy
<1>3. p.nlink = 1 /\ p \in INode
  BY <1>2, Inside DEF Consistent, Shared, ContentSound
<1>4. x.inumber = i /\ x.kind = "Directory" /\ x.nlink = 1 /\ o = p.ext
  <2>1. PICK f : f = x.ext
    OBVIOUS
  <2>2. f \in Extents \cup {None} /\ x = [p EXCEPT !.ext = f] /\ p.ext = o
    BY <2>1, INodeFields DEF Replaces
  <2>3. x.inumber = p.inumber /\ x.kind = p.kind /\ x.nlink = p.nlink
    BY <1>3, <2>2, INodeFields
  <2> QED BY <1>1, <1>2, <1>3, <2>2, <2>3
<1>5. Registers(own, t, i, x)
  BY <1>2, <1>4, RegistersWhen
<1>6. /\ Counted' = Counted \cup (loc[t].born \ loc'[t].born)
      /\ \A e : Bytes(e)' = Bytes(e)
      /\ \A j \in INumbers \ {i} : EntriesOf(j)' = EntriesOf(j)
      /\ EntriesOf(i)' = Bytes(x.ext).entries
  BY <1>4, <1>5, RegisterFrame
<1>7. EntriesOf(i)' = d
  BY <1>6 DEF Lists, Bytes, Blank
<1>8. Edits(own, t, i)
  <2>1. \A j \in Counted : j \in INumbers
    BY Inside
  <2>2. ASSUME NEW j \in loc[t].born
        PROVE  j \in INumbers \ {i} /\ EntriesOf(j) = {}
    <3>1. j \in Born
      BY <2>2 DEF Born
    <3>2. EntriesOf(j) = {} /\ j \in Sound /\ i # j
      BY <1>2, <2>2, <3>1 DEF Consistent, Shared, BornOwned, Counted
    <3> QED BY <3>2, Inside
  <2> QED BY <1>2, <1>6, <2>1, <2>2 DEF Edits
<1>9. x.ext # None => disk[x.ext].form = "dir"
  BY DEF Lists
<1> QED BY <1>1, <1>2, <1>3, <1>4, <1>5, <1>7, <1>8, <1>9 DEF Relists

LEMMA RelistsFrame ==
  ASSUME Typed, Typed', NEW own \in Owners, Consistent(own), NEW t \in Tasks,
         NEW i, NEW x, NEW d, Relists(own, t, i, x, d)
  PROVE  /\ Sound' = Sound /\ Counted' = Counted \cup (loc[t].born \ loc'[t].born)
         /\ Counted \subseteq Counted'
         /\ inodes'[i] = x /\ \A j \in INumbers \ {i} : inodes'[j] = inodes[j]
         /\ \A j \in INumbers : inodes'[j].kind = inodes[j].kind
                                /\ inodes'[j].nlink = inodes[j].nlink
         /\ \A e : Bytes(e)' = Bytes(e)
         /\ \A j \in INumbers \ {i} : EntriesOf(j)' = EntriesOf(j) /\ TargetOf(j)' = TargetOf(j)
<1>1. /\ Registers(own, t, i, x) /\ x.kind = "Directory" /\ x.nlink = 1
      /\ inodes[i].kind = "Directory" /\ inodes[i].nlink = 1
  BY DEF Relists
<1> QED BY <1>1, RegisterFrame

(* A directory registered keeps the volume consistent.                     *)
LEMMA RelistSound ==
  ASSUME Typed, Typed', NEW own \in Owners, Consistent(own), NEW t \in Tasks,
         NEW i, NEW x, NEW d, Relists(own, t, i, x, d), DirectorySound(own, i)',
         \A j \in Sound \ {i} :
           /\ \A e \in EntriesOf(j) : Excused(t, j, e) => Excused(t, j, e)'
           /\ inodes[j].kind = "Hardlink" /\ ExcusedLink(own, t, j) =>
                ExcusedLink(own, t, j)',
         Countable => \A k \in Counted' \ {Root} : own[k] = t => CountRight(own, k)',
         TaskSound(own, t)'
  PROVE  Consistent(own)'
<1>1. /\ Registers(own, t, i, x) /\ x.kind = "Directory" /\ x.nlink = 1
      /\ x.ext \in loc[t].held \cup {None}
      /\ x.ext # None => disk[x.ext].form = FormOf(x.kind)
      /\ loc'[t].held = (loc[t].held \cup {inodes[i].ext}) \ {x.ext, None}
  BY DEF Relists, FormOf
<1>2. inodes'[i].kind = "Directory"
  BY <1>1, RelistsFrame
<1>3. NodeSound(own, i)'
  BY <1>2 DEF NodeSound, HardlinkSound, SymlinkSound
<1> QED BY <1>1, <1>3, RegisterSound

(* What t has copies of, other than the directory itself.                  *)
LEMMA RelistsCopies ==
  ASSUME Typed, Typed', NEW own \in Owners, Consistent(own), NEW t \in Tasks,
         NEW i, NEW x, NEW d, Relists(own, t, i, x, d), NEW y, Copy(own, t, y),
         y.inumber # i
  PROVE  Copy(own, t, y)' /\ (Folder(own, t, y) => Folder(own, t, y)')
<1>1. PICK j : j = y.inumber
  OBVIOUS
<1>2. j \in Counted /\ own[j] = t /\ y = inodes[j] /\ j \in INumbers
  BY <1>1, Inside DEF Copy
<1>3. j \in Counted' /\ inodes'[j] = y
  BY <1>1, <1>2, RelistsFrame
<1>4. Copy(own, t, y)'
  BY <1>1, <1>2, <1>3 DEF Copy
<1> QED BY <1>4 DEF Folder

(* Of a directory that t is not removing anything from.                    *)
LEMMA DirectoryIs ==
  ASSUME Typed, NEW own \in Owners, Consistent(own), NEW t \in Tasks,
         NEW i, i \in Sound, own[i] = t
  PROVE  /\ IsFiniteSet(EntriesOf(i)) /\ EntriesOf(i) \in SUBSET Entry
         /\ \A e, f \in EntriesOf(i) : e.name = f.name => e = f
         /\ \A e \in EntriesOf(i) : Leads(own, i, e.inumber) \/ Excused(t, i, e)
<1>1. ASSUME NEW u \in Tasks, NEW e, Excused(u, i, e) PROVE u = t
  <2>1. Removing(u) /\ i = loc[u].parent.inumber
    BY <1>1 DEF Excused
  <2>2. own[i] = u
    BY <2>1 DEF Consistent, TaskSound, Unlinking, Editing, Folder, Copy
  <2> QED BY <2>2
<1>2. EntriesOf(i) \in SUBSET Entry
  BY EntriesOfTyped, Inside
<1> QED BY <1>1, <1>2 DEF Consistent, Shared, NodesSound, NodeSound, DirectorySound

-----------------------------------------------------------------------------
(* The commit that enters a new inode.                                     *)

(* Where t is at the step that registers what it has stored.               *)
Commits(own, t, r) ==
  /\ r \in Locals /\ Enters(t, loc[t].put) /\ loc[t].put \in INode
  /\ UNCHANGED <<used, disk, lost, orphans>> /\ Others(t)
  /\ pc[t] = "commit" /\ pc'[t] = "release" /\ op'[t] = op[t] /\ loc'[t] = r
  /\ r.held = (loc[t].held \cup {loc[t].old}) \ {loc[t].put.ext, None}
  /\ r.born = {} /\ r.doomed = loc[t].doomed
  /\ r.path = loc[t].path /\ r.dest = loc[t].dest /\ r.body = loc[t].body
  /\ r.rest = loc[t].rest /\ r.parent = loc[t].parent /\ r.child = loc[t].child
  /\ r.target = loc[t].target /\ r.dparent = loc[t].dparent
  /\ r.dput = loc[t].dput /\ r.old = loc[t].old /\ r.dold = loc[t].dold

LEMMA CommitsWhen ==
  ASSUME Typed, NEW own \in Owners, Consistent(own), NEW t \in Tasks, Commit(t),
         op[t] # "append", Intact'
  PROVE  \E r : Commits(own, t, r)
<1>1. pc[t] = "commit" /\ Enters(t, loc[t].put)
      /\ UNCHANGED <<used, disk, lost, orphans>> /\ op' = op
  BY CommitSteps DEF Commit, Intact
<1>2. PICK r \in Locals :
        /\ r = [loc[t] EXCEPT
                  !.held = (loc[t].held \cup {loc[t].old}) \ {loc[t].put.ext, None},
                  !.born = {}]
        /\ Moves(t, "release", r)
  BY CommitSteps
<1>3. "release" \in PCs
  BY DEF PCs
<1>4. /\ pc'[t] = "release" /\ loc'[t] = r
      /\ \A u \in Tasks \ {t} : pc'[u] = pc[u] /\ loc'[u] = loc[u]
  BY <1>2, <1>3, MovesFacts DEF Typed
<1>5. /\ r.held = (loc[t].held \cup {loc[t].old}) \ {loc[t].put.ext, None}
      /\ r.born = {} /\ r.doomed = loc[t].doomed
      /\ r.path = loc[t].path /\ r.dest = loc[t].dest /\ r.body = loc[t].body
      /\ r.rest = loc[t].rest /\ r.parent = loc[t].parent /\ r.child = loc[t].child
      /\ r.target = loc[t].target /\ r.dparent = loc[t].dparent
      /\ r.dput = loc[t].dput /\ r.old = loc[t].old /\ r.dold = loc[t].dold
  BY <1>2, LocalsTyped DEF Locals, Typed
<1>6. Others(t) /\ loc[t].put \in INode
  BY <1>1, <1>4, LocalsTyped DEF Others, Typed
<1> QED BY <1>1, <1>4, <1>5, <1>6 DEF Commits

(* Nothing names an inode that no directory has been given.                *)
LEMMA BornUnnamed ==
  ASSUME Typed, NEW own \in Owners, Consistent(own), NEW t \in Tasks, ~Removing(t),
         NEW c, c \in loc[t].born
  PROVE  /\ c \in Sound /\ c \notin Counted /\ own[c] = t
         /\ EntryRefs(own, c) = {} /\ LinkRefs(own, c) = {}
         /\ EntriesOf(c) = {}
<1>1. c \in Born /\ c \in Sound /\ own[c] = t /\ c \notin Counted /\ EntriesOf(c) = {}
  BY DEF Born, Counted, Consistent, Shared, BornOwned
<1>2. EntryRefs(own, c) = {}
  <2>1. ASSUME NEW j \in Counted, NEW e \in EntriesOf(j), e.inumber = c,
               own[j] \in {t, NoTask}
        PROVE  FALSE
    <3>1. j \in Sound
      BY Inside
    <3>2. ASSUME NEW u \in Tasks, Excused(u, j, e) PROVE FALSE
      <4>1. Removing(u) /\ j = loc[u].parent.inumber
        BY <3>2 DEF Excused
      <4>2. own[j] = u
        BY <4>1 DEF Consistent, TaskSound, Unlinking, Editing, Folder, Copy
      <4> QED BY <2>1, <4>1, <4>2, SharingAssumption
    <3> QED BY <1>1, <2>1, <3>1, <3>2
            DEF Consistent, Shared, NodesSound, NodeSound, DirectorySound, Leads
  <2> QED BY <1>1, <2>1, RefsAre
<1>3. LinkRefs(own, c) = {}
  <2>1. ASSUME NEW j \in Counted, inodes[j].kind = "Hardlink", TargetOf(j) = c, own[j] = t
        PROVE  FALSE
    <3>1. j \in Sound
      BY Inside
    <3>2. \A u \in Tasks : ~ExcusedLink(own, u, j)
      BY <2>1 DEF ExcusedLink
    <3> QED BY <1>1, <2>1, <3>1, <3>2
            DEF Consistent, Shared, NodesSound, NodeSound, HardlinkSound, Leads
  <2> QED BY <1>1, <2>1, RefsAre
<1> QED BY <1>1, <1>2, <1>3

(* Then the inode is in the directory, and counted once.                   *)
LEMMA CommitEntering ==
  ASSUME Typed, Typed', NEW own \in Owners, Consistent(own), NEW t \in Tasks,
         NEW r, Commits(own, t, r), op[t] \in Creating, Entering(own, t), Given(t)
  PROVE  Consistent(own)'
<1>1. PICK c, p, i, n, d, w, o :
        /\ c = loc[t].child.inumber /\ p = loc[t].parent /\ i = p.inumber
        /\ n = NewName(t) /\ d = loc[t].dir /\ w = loc[t].put /\ o = loc[t].old
  OBVIOUS
<1>2. /\ pc[t] = "commit" /\ pc'[t] = "release" /\ op'[t] = op[t] /\ loc'[t] = r
      /\ Enters(t, w) /\ w \in INode /\ Others(t)
      /\ UNCHANGED <<used, disk, lost, orphans>>
      /\ r.held = (loc[t].held \cup {o}) \ {w.ext, None}
      /\ r.born = {} /\ r.doomed = loc[t].doomed
  BY <1>1 DEF Commits
<1>3. /\ loc[t].doomed = {} /\ Alone(t) /\ TargetSound(own, t)
      /\ Folder(own, t, p) /\ Replaces(w, p, o) /\ Lists(w.ext, d)
      /\ ~Binds(EntriesOf(i), n) /\ d = With(EntriesOf(i), n, c)
      /\ loc[t].born = {c} /\ loc[t].child = inodes[c]
      /\ inodes[c].kind = KindOf(op[t]) /\ inodes[c].nlink = 1
      /\ op[t] = "hardlink" => TargetOf(c) = loc[t].target.inumber
      /\ loc[t].held = {w.ext} \ {None}
      /\ op[t] # "unlink" /\ op[t] # "move"
  BY <1>1, <1>2 DEF Entering, Editing, Source, Creating, Linking
<1>4. ~Removing(t) /\ ~Removing(t)'
  BY <1>2, <1>3 DEF Removing
<1>5. /\ c \in Sound /\ c \notin Counted /\ own[c] = t /\ c \in INumbers
      /\ EntryRefs(own, c) = {} /\ LinkRefs(own, c) = {} /\ EntriesOf(c) = {}
  BY <1>3, <1>4, BornUnnamed, Inside
<1>6. Relists(own, t, i, w, d)
  <2>1. w.ext \in loc[t].held \cup {None}
    BY <1>3
  <2>2. loc'[t].born \in {loc[t].born, {}}
        /\ loc'[t].held = (loc[t].held \cup {o}) \ {w.ext, None}
        /\ pc[t] \notin {"idle", "born", "clear"} /\ pc'[t] \notin {"born", "clear"}
    BY <1>2
  <2> QED BY <1>1, <1>2, <1>3, <2>1, <2>2, RelistsWhen
<1>7. /\ Sound' = Sound /\ Counted' = Counted \cup {c}
      /\ inodes'[i] = w /\ \A j \in INumbers \ {i} : inodes'[j] = inodes[j]
      /\ \A j \in INumbers : inodes'[j].kind = inodes[j].kind
                             /\ inodes'[j].nlink = inodes[j].nlink
      /\ \A j \in INumbers \ {i} : EntriesOf(j)' = EntriesOf(j) /\ TargetOf(j)' = TargetOf(j)
  BY <1>2, <1>3, <1>6, RelistsFrame
<1>8. /\ Edits(own, t, i) /\ EntriesOf(i)' = d /\ i \in INumbers /\ i \in Counted
      /\ own[i] = t /\ inodes[i].kind = "Directory" /\ i \in Sound
  BY <1>6, Inside DEF Relists
<1>9. DirectorySound(own, i)'
  <2>1. /\ IsFiniteSet(EntriesOf(i)) /\ EntriesOf(i) \in SUBSET Entry
        /\ \A e, f \in EntriesOf(i) : e.name = f.name => e = f
        /\ \A e \in EntriesOf(i) : Leads(own, i, e.inumber)
    BY <1>4, <1>8, DirectoryIs DEF Excused
  <2>2. PICK f : f = [name |-> n, inumber |-> c]
    OBVIOUS
  <2>3. EntriesOf(i)' = EntriesOf(i) \cup {f} /\ f.name = n /\ f.inumber = c
    BY <1>3, <1>8, <2>2 DEF With
  <2>4. IsFiniteSet(EntriesOf(i)')
    <3>1. IsFiniteSet(EntriesOf(i) \cup {f})
      BY <2>1, FS_AddElement
    <3> QED BY <2>3, <3>1
  <2>5. \A e, g \in EntriesOf(i)' : e.name = g.name => e = g
    BY <1>3, <2>1, <2>3 DEF Binds
  <2>6. \A e \in EntriesOf(i)' : Leads(own, i, e.inumber)'
    <3>1. c # Root
      BY <1>5 DEF Consistent, Shared, RootStands
    <3> QED BY <1>5, <1>7, <1>8, <2>1, <2>3, <3>1 DEF Leads
  <2> QED BY <2>4, <2>5, <2>6 DEF DirectorySound
<1>10. PICK x : x = loc[t].target
  OBVIOUS
<1>11. op[t] = "hardlink" => /\ Copy(own, t, x) /\ Copy(own, t, x)' /\ x.kind = "File"
                             /\ x.inumber # i /\ x.inumber # c
  <2>1. op[t] = "hardlink" => Copy(own, t, x) /\ x.kind = "File"
    BY <1>3, <1>10 DEF TargetSound
  <2>2. op[t] = "hardlink" => x.inumber # i /\ x.inumber # c
    BY <1>5, <1>8, <2>1 DEF Copy
  <2> QED BY <1>6, <2>1, <2>2, RelistsCopies
<1>12. ASSUME NEW k \in Counted' \ {Root}, own[k] = t, Countable
       PROVE  CountRight(own, k)'
  <2>1. k \in INumbers /\ inodes'[k].nlink = inodes[k].nlink /\ inodes[k].nlink \in Nat
    BY <1>5, <1>7, <1>12, Inside
  <2>2. /\ Cardinality(EntryRefs(own, k)) \in Nat
        /\ Cardinality(EntryRefs(own, k)')
             = Cardinality(EntryRefs(own, k)) + (IF k = c THEN 1 ELSE 0)
    BY <1>3, <1>8, <1>12, RefsGrow
  <2>3. Extra(own, k) = 0
    <3>1. ~Surplus(own, t, k)
      BY <1>2, <1>3, <1>4 DEF Surplus
    <3> QED BY <1>12, <3>1, ExtraIs
  <2>4. Extra(own, k)' = (IF op[t] = "hardlink" /\ k = x.inumber THEN 1 ELSE 0)
    <3>1. Surplus(own, t, k)' <=> (op[t] = "hardlink" /\ k = x.inumber)
      <4>1. loc'[t].target = x
        BY <1>2, <1>10 DEF Commits
      <4> QED BY <1>2, <1>3, <1>4, <4>1 DEF Surplus
    <3> QED BY <1>12, <3>1, ExtraIsNext
  <2>5. \A j \in Counted : j \in INumbers /\ inodes'[j].kind = inodes[j].kind
                           /\ (inodes[j].kind = "Hardlink" => TargetOf(j)' = TargetOf(j))
    BY <1>7, <1>8, Inside
  <2>6. inodes'[c].kind = KindOf(op[t]) /\ TargetOf(c)' = TargetOf(c) /\ Counted \subseteq Counted'
    BY <1>3, <1>5, <1>7, <1>8
  <2>7. op[t] # "hardlink" => KindOf(op[t]) # "Hardlink"
    BY <1>2 DEF KindOf, Creating, Linking
  <2>8. KindOf("hardlink") = "Hardlink"
    BY DEF KindOf
  <2>9. CASE op[t] = "hardlink" /\ k = x.inumber
    <3>1. k \in Counted /\ k # c
      BY <1>11, <2>9 DEF Copy
    <3>2. CountRight(own, k)
      BY <1>12, <3>1 DEF Consistent, Shared, CountsRight, CountRight
    <3>3. LinkRefs(own, k)' = LinkRefs(own, k) \cup {c}
      <4>1. \A j : j \in LinkRefs(own, k)' <=> j \in LinkRefs(own, k) \cup {c}
        BY <1>3, <1>5, <1>7, <1>10, <1>12, <2>5, <2>6, <2>8, <2>9, RefsAre, RefsAreNext
      <4> QED BY <4>1
    <3>4. c \notin LinkRefs(own, k)
      BY <1>5, RefsAre
    <3>5. /\ IsFiniteSet(LinkRefs(own, k)) /\ Cardinality(LinkRefs(own, k)) \in Nat
          /\ Cardinality(LinkRefs(own, k)') = Cardinality(LinkRefs(own, k)) + 1
      BY <3>3, <3>4, RefsFinite, FS_AddElement, FS_CardinalityType
    <3> QED BY <2>1, <2>2, <2>3, <2>4, <2>9, <3>1, <3>2, <3>5 DEF CountRight
  <2>10. CASE ~(op[t] = "hardlink" /\ k = x.inumber)
    <3>1. LinkRefs(own, k)' = LinkRefs(own, k)
      <4>1. ~(inodes'[c].kind = "Hardlink" /\ TargetOf(c)' = k)
        BY <1>3, <1>10, <2>6, <2>7, <2>10
      <4>2. \A j \in Counted' \ Counted :
              ~(own[j] = t /\ inodes'[j].kind = "Hardlink" /\ TargetOf(j)' = k)
        BY <1>7, <4>1
      <4> QED BY <1>12, <2>5, <2>6, <4>2, LinksKept
    <3>2. CASE k = c
      <4>1. Cardinality(EntryRefs(own, k)) = 0 /\ Cardinality(LinkRefs(own, k)) = 0
        BY <1>5, <3>2, FS_EmptySet
      <4> QED BY <1>3, <2>1, <2>2, <2>4, <2>10, <3>1, <3>2, <4>1 DEF CountRight
    <3>3. CASE k # c
      <4>1. CountRight(own, k)
        BY <1>7, <1>12, <3>3 DEF Consistent, Shared, CountsRight, CountRight
      <4>2. Cardinality(LinkRefs(own, k)) \in Nat
        BY RefsFinite, FS_CardinalityType
      <4> QED BY <2>1, <2>2, <2>3, <2>4, <2>10, <3>1, <3>3, <4>1, <4>2 DEF CountRight
    <3> QED BY <3>2, <3>3
  <2> QED BY <2>9, <2>10
<1>13. Given(t)'
  <2>1. loc'[t].path = loc[t].path /\ loc'[t].dest = loc[t].dest /\ loc'[t].body = loc[t].body
    BY DEF Commits
  <2> QED BY <1>2, <2>1, GivenKept
<1>14. Releasing(own, t)'
  <2>1. /\ loc'[t].target = x /\ loc'[t].child = loc[t].child /\ Alone(t)'
        /\ loc'[t].old = o
    BY <1>1, <1>2, <1>3, <1>10 DEF Commits, Alone
  <2>2. TargetSound(own, t)'
    BY <1>2, <1>11, <2>1 DEF TargetSound, Copy
  <2>3. op[t] = "mkdir" => Folder(own, t, loc[t].child)'
    <3>1. inodes'[c] = inodes[c] /\ c \in Counted'
      BY <1>5, <1>7, <1>8
    <3>2. loc'[t].child = inodes'[c] /\ loc'[t].child.inumber = c
      BY <1>1, <1>3, <2>1, <3>1
    <3> QED BY <1>3, <1>5, <3>1, <3>2 DEF Folder, Copy, KindOf
  <2>4. loc'[t].held = {o} \ {None}
    <3>1. o # w.ext \/ o = None
      <4>1. o # None => o \notin loc[t].held
        <5>1. o = inodes[i].ext
          BY <1>1, <1>3, <1>8 DEF Replaces, Folder, Copy
        <5> QED BY <1>8, <5>1 DEF Held, Consistent, Shared, ContentSound
      <4> QED BY <1>3, <4>1
    <3> QED BY <1>2, <1>3, <3>1
  <2> QED BY <1>2, <1>3, <2>1, <2>2, <2>3, <2>4 DEF Releasing
<1>15. TaskSound(own, t)'
  BY <1>2, <1>4, <1>13, <1>14 DEF TaskSound, Walks
<1>16. \A j \in Sound \ {i} :
           /\ \A e \in EntriesOf(j) : Excused(t, j, e) => Excused(t, j, e)'
           /\ inodes[j].kind = "Hardlink" /\ ExcusedLink(own, t, j) =>
                ExcusedLink(own, t, j)'
  BY <1>4 DEF Excused, ExcusedLink
<1> QED BY <1>6, <1>9, <1>12, <1>15, <1>16, RelistSound

-----------------------------------------------------------------------------
(* The commit that replaces the content of a file.                         *)

(* A file has no entries and refers to nothing, whatever its content.      *)
LEMMA FileSound ==
  ASSUME NEW own \in Owners, NEW i, inodes'[i].kind = "File"
  PROVE  NodeSound(own, i)' /\ EntriesOf(i)' = {}
<1>1. EntriesOf(i)' = {}
  BY DEF EntriesOf
<1>2. IsFiniteSet(EntriesOf(i)')
  BY <1>1, FS_EmptySet
<1>3. DirectorySound(own, i)'
  BY <1>1, <1>2 DEF DirectorySound
<1> QED BY <1>1, <1>3 DEF NodeSound, HardlinkSound, SymlinkSound

(* Where only a file's inode changes, what is counted does not.            *)
LEMMA FileCounts ==
  ASSUME Typed, Typed', NEW own \in Owners, Consistent(own), NEW t \in Tasks,
         NEW i, NEW x, Registers(own, t, i, x), x.kind = "File",
         loc'[t].born = loc[t].born,
         NEW k \in Counted, own[k] = t
  PROVE  EntryRefs(own, k)' = EntryRefs(own, k) /\ LinkRefs(own, k)' = LinkRefs(own, k)
<1>1. /\ i \in INumbers /\ Counted' = Counted \cup (loc[t].born \ loc'[t].born)
      /\ inodes'[i] = x /\ \A j \in INumbers \ {i} : inodes'[j] = inodes[j]
      /\ \A j \in INumbers \ {i} : EntriesOf(j)' = EntriesOf(j) /\ TargetOf(j)' = TargetOf(j)
  BY RegisterFrame
<1>2. Counted' = Counted
  BY <1>1
<1>3. x.kind = inodes[i].kind
  BY DEF Registers
<1>4. EntriesOf(i)' = {} /\ EntriesOf(i) = {}
  BY <1>1, <1>3 DEF EntriesOf
<1>5. \A j \in Counted : /\ EntriesOf(j)' = EntriesOf(j)
                         /\ inodes'[j].kind = inodes[j].kind
                         /\ inodes[j].kind = "Hardlink" => TargetOf(j)' = TargetOf(j)
  BY <1>1, <1>3, <1>4, Inside
<1> QED BY <1>2, <1>5, RefsSame

LEMMA CommitOverwriting ==
  ASSUME Typed, Typed', NEW own \in Owners, Consistent(own), NEW t \in Tasks,
         NEW r, Commits(own, t, r), Overwriting(own, t), Given(t)
  PROVE  Consistent(own)'
<1>1. PICK i, x, w, o : /\ x = loc[t].child /\ i = x.inumber /\ w = loc[t].put
                        /\ o = loc[t].old
  OBVIOUS
<1>2. /\ pc[t] = "commit" /\ pc'[t] = "release" /\ op'[t] = op[t] /\ loc'[t] = r
      /\ Enters(t, w) /\ w \in INode /\ Others(t)
      /\ UNCHANGED <<used, disk, lost, orphans>>
      /\ r.held = (loc[t].held \cup {o}) \ {w.ext, None}
      /\ r.born = {} /\ r.doomed = loc[t].doomed /\ r.old = o
      /\ r.dput = loc[t].dput /\ r.dparent = loc[t].dparent
      /\ r.path = loc[t].path /\ r.dest = loc[t].dest /\ r.body = loc[t].body
  BY <1>1 DEF Commits
<1>3. /\ op[t] = "write" /\ loc[t].born = {} /\ loc[t].doomed = {} /\ Alone(t)
      /\ x.inumber \in Counted /\ own[i] = t /\ x = inodes[i]
      /\ x.kind = "File" /\ o = x.ext /\ w = [x EXCEPT !.ext = w.ext]
      /\ w.ext # None /\ disk[w.ext].form = "data" /\ loc[t].held = {w.ext}
  BY <1>1, <1>2 DEF Overwriting, Copy, Replaces
<1>4. x \in INode /\ i \in Sound
  BY <1>1, <1>3, Inside, LocalsTyped DEF Typed
<1>5. w.inumber = i /\ w.kind = "File" /\ w.nlink = x.nlink /\ w.ext = w.ext
  <2>1. PICK f : f = w.ext
    OBVIOUS
  <2>2. w = [x EXCEPT !.ext = f]
    BY <1>3, <2>1
  <2> QED BY <1>1, <1>3, <1>4, <2>2 DEF INode
<1>6. Registers(own, t, i, w)
  <2>1. loc'[t].born \in {loc[t].born, {}}
        /\ pc[t] \notin {"idle", "born", "clear"} /\ pc'[t] \notin {"born", "clear"}
    BY <1>2
  <2>2. w \in INode /\ Enters(t, w) /\ Others(t)
        /\ UNCHANGED <<used, disk, lost, orphans>>
    BY <1>2
  <2>3. /\ i = w.inumber /\ i \in Counted /\ own[i] = t
        /\ w.kind = inodes[i].kind
    BY <1>1, <1>3, <1>5
  <2> QED BY <2>1, <2>2, <2>3, RegistersWhen
<1>7. /\ Sound' = Sound /\ Counted' = Counted \cup (loc[t].born \ loc'[t].born)
      /\ inodes'[i] = w /\ \A j \in INumbers \ {i} : inodes'[j] = inodes[j]
  BY <1>6, RegisterFrame
<1>8. ~Removing(t) /\ ~Removing(t)'
  BY <1>2, <1>3 DEF Removing
<1>9. NodeSound(own, i)'
  BY <1>5, <1>7, FileSound
<1>10. Counted' = Counted /\ loc'[t].born = loc[t].born
  BY <1>2, <1>3, <1>7
<1>11. ASSUME NEW k \in Counted' \ {Root}, own[k] = t, Countable
       PROVE  CountRight(own, k)'
  <2>1. EntryRefs(own, k)' = EntryRefs(own, k) /\ LinkRefs(own, k)' = LinkRefs(own, k)
    BY <1>5, <1>6, <1>10, <1>11, FileCounts
  <2>2. inodes'[k].nlink = inodes[k].nlink
    BY <1>3, <1>5, <1>7, <1>10, Inside
  <2>3. Extra(own, k) = 0
    <3>1. ~Surplus(own, t, k)
      BY <1>3, <1>8 DEF Surplus
    <3> QED BY <1>11, <3>1, ExtraIs
  <2>4. Extra(own, k)' = 0
    <3>1. ~Surplus(own, t, k)'
      BY <1>2, <1>3, <1>8 DEF Surplus
    <3> QED BY <1>11, <3>1, ExtraIsNext
  <2>5. CountRight(own, k)
    BY <1>10, <1>11 DEF Consistent, Shared, CountsRight, CountRight
  <2> QED BY <2>1, <2>2, <2>3, <2>4, <2>5 DEF CountRight
<1>12. Given(t)'
  BY <1>2, GivenKept
<1>13. Releasing(own, t)'
  <2>1. loc'[t].held = {o} \ {None}
    <3>1. o # w.ext \/ o = None
      <4>1. o # None => o \notin loc[t].held
        BY <1>3, <1>4 DEF Held, Consistent, Shared, ContentSound
      <4> QED BY <1>3, <4>1
    <3> QED BY <1>2, <1>3, <3>1
  <2>2. Alone(t)'
    BY <1>2, <1>3 DEF Alone
  <2>3. TargetSound(own, t)'
    BY <1>2, <1>3 DEF TargetSound
  <2> QED BY <1>2, <1>3, <2>1, <2>2, <2>3 DEF Releasing
<1>14. TaskSound(own, t)'
  BY <1>2, <1>3, <1>8, <1>12, <1>13 DEF TaskSound, Walks
<1>15. \A j \in Sound \ {i} :
           /\ \A e \in EntriesOf(j) : Excused(t, j, e) => Excused(t, j, e)'
           /\ inodes[j].kind = "Hardlink" /\ ExcusedLink(own, t, j) =>
                ExcusedLink(own, t, j)'
  BY <1>8 DEF Excused, ExcusedLink
<1>16. w.nlink >= 1 /\ (w.kind # "File" => w.nlink = 1)
  BY <1>3, <1>4, <1>5 DEF Consistent, Shared, ContentSound
<1>17. /\ w.kind \in {"Directory", "File"}
       /\ w.ext \in loc[t].held \cup {None}
       /\ w.ext = None => w.kind = "Directory"
       /\ w.ext # None => disk[w.ext].form = FormOf(w.kind)
       /\ loc'[t].held = (loc[t].held \cup {inodes[i].ext}) \ {w.ext, None}
  BY <1>2, <1>3, <1>5 DEF FormOf
<1> QED BY <1>6, <1>9, <1>11, <1>14, <1>15, <1>16, <1>17, RegisterSound

-----------------------------------------------------------------------------
(* The commit of an append.                                                *)

(* What append registers is the inode as it is: its chain grew in place.   *)
LEMMA CommitAppend ==
  ASSUME Typed, Typed', NEW own \in Owners, Consistent(own), NEW t \in Tasks,
         Commit(t), op[t] = "append", Intact'
  PROVE  Consistent(own)'
<1>1. /\ pc[t] = "commit" /\ Enters(t, loc[t].put) /\ Return(t)
      /\ UNCHANGED <<used, disk, lost, orphans>>
  BY CommitSteps DEF Commit, Intact
<1>2. Appending(own, t)
  BY <1>1 DEF Consistent, TaskSound
<1>3. PICK x, i : x = loc[t].put /\ i = x.inumber
  OBVIOUS
<1>4. /\ Clean(t) /\ x.inumber \in Counted /\ own[i] = t /\ x = inodes[i]
      /\ x.kind = "File" /\ Enters(t, x)
  BY <1>1, <1>2, <1>3 DEF Appending, Copy
<1>5. x \in INode /\ i \in Sound
  BY <1>3, <1>4, Inside, LocalsTyped DEF Typed
<1>6. /\ pc'[t] = "idle" /\ op'[t] = "ls" /\ loc'[t] = Idle /\ Others(t)
  BY <1>1, ReturnFacts DEF Typed
<1>7. loc'[t].born = {} /\ loc'[t].held = {} /\ loc[t].born = {} /\ loc[t].held = {}
  BY <1>4, <1>6 DEF Idle, Clean
<1>8. Registers(own, t, i, x)
  <2>1. loc'[t].born \in {loc[t].born, {}}
        /\ pc[t] \notin {"idle", "born", "clear"} /\ pc'[t] \notin {"born", "clear"}
    BY <1>1, <1>6, <1>7
  <2> QED BY <1>1, <1>3, <1>4, <1>5, <1>6, <2>1, RegistersWhen
<1>9. /\ Sound' = Sound /\ Counted' = Counted \cup (loc[t].born \ loc'[t].born)
      /\ inodes'[i] = x /\ \A j \in INumbers \ {i} : inodes'[j] = inodes[j]
  BY <1>8, RegisterFrame
<1>10. Counted' = Counted /\ loc'[t].born = loc[t].born
  BY <1>7, <1>9
<1>11. ~Removing(t) /\ ~Removing(t)'
  BY <1>6 DEF Removing
<1>12. NodeSound(own, i)'
  BY <1>4, <1>9, FileSound
<1>13. ASSUME NEW k \in Counted' \ {Root}, own[k] = t, Countable
       PROVE  CountRight(own, k)'
  <2>1. EntryRefs(own, k)' = EntryRefs(own, k) /\ LinkRefs(own, k)' = LinkRefs(own, k)
    BY <1>4, <1>8, <1>10, <1>13, FileCounts
  <2>2. inodes'[k].nlink = inodes[k].nlink
    BY <1>4, <1>9, <1>10, Inside
  <2>3. Extra(own, k) = 0
    <3>1. ~Surplus(own, t, k)
      BY <1>11 DEF Surplus
    <3> QED BY <1>13, <3>1, ExtraIs
  <2>4. Extra(own, k)' = 0
    <3>1. ~Surplus(own, t, k)'
      BY <1>6, <1>11 DEF Surplus
    <3> QED BY <1>13, <3>1, ExtraIsNext
  <2>5. CountRight(own, k)
    BY <1>10, <1>13 DEF Consistent, Shared, CountsRight, CountRight
  <2> QED BY <2>1, <2>2, <2>3, <2>4, <2>5 DEF CountRight
<1>14. TaskSound(own, t)'
  BY <1>6, IdleSound
<1>15. \A j \in Sound \ {i} :
           /\ \A e \in EntriesOf(j) : Excused(t, j, e) => Excused(t, j, e)'
           /\ inodes[j].kind = "Hardlink" /\ ExcusedLink(own, t, j) =>
                ExcusedLink(own, t, j)'
  BY <1>11 DEF Excused, ExcusedLink
<1>16. x.nlink >= 1 /\ (x.kind # "File" => x.nlink = 1)
  BY <1>4, <1>5 DEF Consistent, Shared, ContentSound
<1>17. x.ext = inodes[i].ext /\ loc'[t].held = loc[t].held
  BY <1>4, <1>7
<1> QED BY <1>8, <1>12, <1>13, <1>14, <1>15, <1>16, <1>17, RegisterSound

-----------------------------------------------------------------------------
(* The commit that removes an entry, after what it named is gone.          *)

(* The entry goes that names what was freed or counted down.               *)
LEMMA CommitUnlink ==
  ASSUME Typed, Typed', NEW own \in Owners, Consistent(own), NEW t \in Tasks,
         NEW r, Commits(own, t, r), op[t] = "unlink"
  PROVE  Consistent(own)'
<1>1. PICK p, i, n, d, w, o, x :
        /\ p = loc[t].parent /\ i = p.inumber /\ n = NameOf(loc[t].path)
        /\ d = loc[t].dir /\ w = loc[t].put /\ o = loc[t].old /\ x = Victim(t)
  OBVIOUS
<1>2. /\ pc[t] = "commit" /\ pc'[t] = "release" /\ op'[t] = op[t] /\ loc'[t] = r
      /\ Enters(t, w) /\ w \in INode /\ Others(t)
      /\ UNCHANGED <<used, disk, lost, orphans>>
      /\ r.held = (loc[t].held \cup {o}) \ {w.ext, None}
      /\ r.born = {} /\ r.old = o /\ r.dput = loc[t].dput /\ r.dparent = loc[t].dparent
      /\ r.path = loc[t].path /\ r.dest = loc[t].dest /\ r.body = loc[t].body
  BY <1>1 DEF Commits
<1>3. Removing(t) /\ ~Removing(t)'
  BY <1>2 DEF Removing, Deleting
<1>4. /\ Unlinking(own, t) /\ Given(t) /\ Binds(EntriesOf(i), n)
  BY <1>1, <1>3, UnlinkingIs DEF Source
<1>5. /\ loc[t].born = {} /\ Alone(t) /\ Folder(own, t, p) /\ Replaces(w, p, o)
      /\ Lists(w.ext, d) /\ d = Without(EntriesOf(i), n)
      /\ loc[t].held = {w.ext} \ {None} /\ Spared(own, t)
  BY <1>1, <1>2, <1>4 DEF Unlinking, Editing, Source
<1>6. Relists(own, t, i, w, d)
  <2>1. w.ext \in loc[t].held \cup {None}
    BY <1>5
  <2>2. loc'[t].born \in {loc[t].born, {}}
        /\ loc'[t].held = (loc[t].held \cup {o}) \ {w.ext, None}
        /\ pc[t] \notin {"idle", "born", "clear"} /\ pc'[t] \notin {"born", "clear"}
    BY <1>2
  <2> QED BY <1>1, <1>2, <1>5, <2>1, <2>2, RelistsWhen
<1>7. /\ Sound' = Sound /\ Counted' = Counted \cup (loc[t].born \ loc'[t].born)
      /\ inodes'[i] = w /\ \A j \in INumbers \ {i} : inodes'[j] = inodes[j]
      /\ \A j \in INumbers : inodes'[j].kind = inodes[j].kind
                             /\ inodes'[j].nlink = inodes[j].nlink
      /\ \A j \in INumbers \ {i} : EntriesOf(j)' = EntriesOf(j) /\ TargetOf(j)' = TargetOf(j)
  BY <1>6, RelistsFrame
<1>77. Counted' = Counted
  BY <1>2, <1>5, <1>7
<1>8. /\ Edits(own, t, i) /\ EntriesOf(i)' = d /\ i \in INumbers /\ i \in Counted
      /\ own[i] = t /\ inodes[i].kind = "Directory" /\ i \in Sound
  BY <1>6, Inside DEF Relists
<1>9. /\ IsFiniteSet(EntriesOf(i)) /\ EntriesOf(i) \in SUBSET Entry
      /\ \A e, f \in EntriesOf(i) : e.name = f.name => e = f
      /\ \A e \in EntriesOf(i) : Leads(own, i, e.inumber) \/ Excused(t, i, e)
  BY <1>8, DirectoryIs
<1>10. DirectorySound(own, i)'
  <2>1. EntriesOf(i)' \subseteq EntriesOf(i)
    BY <1>5, <1>8 DEF Without
  <2>2. IsFiniteSet(EntriesOf(i)')
    BY <1>9, <2>1, FS_Subset
  <2>3. \A e \in EntriesOf(i)' : Leads(own, i, e.inumber)'
    BY <1>1, <1>5, <1>77, <1>8, <1>9, <2>1 DEF Leads, Excused, Without
  <2> QED BY <1>9, <2>1, <2>2, <2>3 DEF DirectorySound
<1>11. PICK f \in EntriesOf(i) : f.name = n /\ f.inumber = x
  BY <1>1, <1>4, VictimTyped DEF Source
<1>12. ASSUME NEW k \in Counted' \ {Root}, own[k] = t, Countable
       PROVE  CountRight(own, k)'
  <2>1. k \in INumbers /\ k \in Sound /\ k \in Counted
        /\ inodes'[k].nlink = inodes[k].nlink /\ inodes[k].nlink \in Nat
    BY <1>7, <1>77, <1>12, Inside
  <2>2. /\ Cardinality(EntryRefs(own, k)') \in Nat
        /\ Cardinality(EntryRefs(own, k)) \in Nat
        /\ Cardinality(EntryRefs(own, k)') + (IF k = x THEN 1 ELSE 0)
             = Cardinality(EntryRefs(own, k))
    <3>1. EntriesOf(i)' = Without(EntriesOf(i), n)
      BY <1>5, <1>8
    <3>2. \A e \in EntriesOf(i) : e.name = n => e = f
      BY <1>9, <1>11
    <3> QED BY <1>8, <1>11, <1>12, <3>1, <3>2, RefsShrink
  <2>3. LinkRefs(own, k)' = LinkRefs(own, k)
    <3>1. \A j \in Counted : inodes'[j].kind = inodes[j].kind
                             /\ (inodes[j].kind = "Hardlink" => TargetOf(j)' = TargetOf(j))
      BY <1>7, <1>77, <1>8, Inside
    <3> QED BY <1>77, <1>12, <3>1, LinksKept
  <2>4. Extra(own, k) = (IF k = x THEN 1 ELSE 0)
    <3>1. Surplus(own, t, k) <=> k = x
      <4>1. k = x => Mine(own, t)
        BY <1>1, <1>12, <2>1 DEF Mine
      <4>2. x \in loc[t].doomed /\ (Mine(own, t) => loc[t].doomed = {x})
        BY <1>1, <1>5 DEF Spared
      <4> QED BY <1>3, <4>1, <4>2 DEF Surplus
    <3> QED BY <1>12, <3>1, ExtraIs
  <2>5. Extra(own, k)' = 0
    <3>1. ~Surplus(own, t, k)'
      BY <1>2, <1>3 DEF Surplus
    <3> QED BY <1>12, <3>1, ExtraIsNext
  <2>6. CountRight(own, k)
    BY <1>12, <2>1 DEF Consistent, Shared, CountsRight, CountRight
  <2>7. Cardinality(LinkRefs(own, k)) \in Nat
    BY RefsFinite, FS_CardinalityType
  <2>8. inodes[k].nlink + (IF k = x THEN 1 ELSE 0)
          = Cardinality(EntryRefs(own, k)) + Cardinality(LinkRefs(own, k))
    BY <2>4, <2>6 DEF CountRight
  <2>9. inodes'[k].nlink + 0
          = Cardinality(EntryRefs(own, k)') + Cardinality(LinkRefs(own, k)')
    <3>1. PICK a, b, l, g : /\ a = Cardinality(EntryRefs(own, k))
                            /\ b = Cardinality(EntryRefs(own, k)')
                            /\ l = Cardinality(LinkRefs(own, k)) /\ g = inodes[k].nlink
      OBVIOUS
    <3>2. /\ a \in Nat /\ b \in Nat /\ l \in Nat /\ g \in Nat
          /\ k = x => b + 1 = a /\ g + 1 = a + l
          /\ k # x => b + 0 = a /\ g + 0 = a + l
      BY <2>1, <2>2, <2>7, <2>8, <3>1
    <3>3. g + 0 = b + l
      BY <3>2
    <3> QED BY <2>1, <2>3, <3>1, <3>3
  <2> QED BY <2>5, <2>9 DEF CountRight
<1>13. Given(t)'
  BY <1>2, <1>4, GivenKept
<1>14. Releasing(own, t)'
  <2>1. loc'[t].held = {o} \ {None}
    <3>1. o # w.ext \/ o = None
      <4>1. o # None => o \notin loc[t].held
        <5>1. o = inodes[i].ext
          BY <1>1, <1>5, <1>8 DEF Replaces, Folder, Copy
        <5> QED BY <1>8, <5>1 DEF Held, Consistent, Shared, ContentSound
      <4> QED BY <1>5, <4>1
    <3> QED BY <1>2, <1>5, <3>1
  <2>2. Alone(t)'
    BY <1>2, <1>5 DEF Alone
  <2>3. TargetSound(own, t)'
    BY <1>2 DEF TargetSound
  <2> QED BY <1>2, <2>1, <2>2, <2>3 DEF Releasing
<1>15. TaskSound(own, t)'
  BY <1>2, <1>3, <1>13, <1>14 DEF TaskSound, Walks, Creating, Linking
<1>16. \A j \in Sound \ {i} :
           /\ \A e \in EntriesOf(j) : Excused(t, j, e) => Excused(t, j, e)'
           /\ inodes[j].kind = "Hardlink" /\ ExcusedLink(own, t, j) =>
                ExcusedLink(own, t, j)'
  <2>1. \A j, e : Excused(t, j, e) => j = i
    BY <1>1 DEF Excused
  <2>2. \A j \in Sound : ExcusedLink(own, t, j) => inodes[j].kind = "File"
    BY <1>5 DEF ExcusedLink, Spared, Mine
  <2> QED BY <2>1, <2>2
<1> QED BY <1>6, <1>10, <1>12, <1>15, <1>16, RelistSound

-----------------------------------------------------------------------------
(* A name more or less of an inode that is being moved.                    *)

(* A name of x more or less, and the one not counted yet gone or come.     *)
LEMMA CountShrinks ==
  ASSUME Typed, NEW own \in Owners, Consistent(own), NEW t \in Tasks,
         NEW k \in Counted \ {Root}, own[k] = t, Countable, NEW x,
         inodes'[k].nlink = inodes[k].nlink,
         LinkRefs(own, k)' = LinkRefs(own, k),
         Cardinality(EntryRefs(own, k)') \in Nat,
         Cardinality(EntryRefs(own, k)') + (IF k = x THEN 1 ELSE 0)
           = Cardinality(EntryRefs(own, k)),
         Surplus(own, t, k) <=> k = x, ~Surplus(own, t, k)'
  PROVE  CountRight(own, k)'
<1>1. Extra(own, k) = (IF k = x THEN 1 ELSE 0) /\ Extra(own, k)' = 0
  BY ExtraIs, ExtraIsNext
<1>2. CountRight(own, k)
  BY DEF Consistent, Shared, CountsRight, CountRight
<1>3. PICK a, b, l, g : /\ a = Cardinality(EntryRefs(own, k))
                        /\ b = Cardinality(EntryRefs(own, k)')
                        /\ l = Cardinality(LinkRefs(own, k)) /\ g = inodes[k].nlink
  OBVIOUS
<1>4. a \in Nat /\ b \in Nat /\ l \in Nat /\ g \in Nat
  BY <1>3, RefsFinite, FS_CardinalityType, Inside
<1>5. k = x => b + 1 = a /\ g + 1 = a + l
  BY <1>1, <1>2, <1>3 DEF CountRight
<1>6. k # x => b + 0 = a /\ g + 0 = a + l
  BY <1>1, <1>2, <1>3 DEF CountRight
<1>7. g + 0 = b + l
  BY <1>4, <1>5, <1>6
<1> QED BY <1>1, <1>3, <1>7 DEF CountRight

LEMMA CountGrows ==
  ASSUME Typed, NEW own \in Owners, Consistent(own), NEW t \in Tasks,
         NEW k \in Counted \ {Root}, own[k] = t, Countable, NEW x,
         inodes'[k].nlink = inodes[k].nlink,
         LinkRefs(own, k)' = LinkRefs(own, k),
         Cardinality(EntryRefs(own, k)')
           = Cardinality(EntryRefs(own, k)) + (IF k = x THEN 1 ELSE 0),
         ~Surplus(own, t, k), Surplus(own, t, k)' <=> k = x
  PROVE  CountRight(own, k)'
<1>1. Extra(own, k) = 0 /\ Extra(own, k)' = (IF k = x THEN 1 ELSE 0)
  BY ExtraIs, ExtraIsNext
<1>2. CountRight(own, k)
  BY DEF Consistent, Shared, CountsRight, CountRight
<1>3. PICK a, b, l, g : /\ a = Cardinality(EntryRefs(own, k))
                        /\ b = Cardinality(EntryRefs(own, k)')
                        /\ l = Cardinality(LinkRefs(own, k)) /\ g = inodes[k].nlink
  OBVIOUS
<1>4. a \in Nat /\ l \in Nat /\ g \in Nat
  BY <1>3, RefsFinite, FS_CardinalityType, Inside
<1>5. g + 0 = a + l
  BY <1>1, <1>2, <1>3 DEF CountRight
<1>6. CASE k = x
  <2>1. b = a + 1 /\ Extra(own, k)' = 1
    BY <1>1, <1>3, <1>6
  <2>2. g + 1 = b + l
    BY <1>4, <1>5, <2>1
  <2> QED BY <1>3, <2>1, <2>2 DEF CountRight
<1>7. CASE k # x
  <2>1. b = a + 0 /\ Extra(own, k)' = 0
    BY <1>1, <1>3, <1>7
  <2>2. g + 0 = b + l
    BY <1>4, <1>5, <2>1
  <2> QED BY <1>3, <2>1, <2>2 DEF CountRight
<1> QED BY <1>6, <1>7

-----------------------------------------------------------------------------
(* The commits of a move: within a directory, and out of its source.       *)

(* The directory from which an entry moves is stored.                      *)
MovesOut(own, t, i, n, x, d, w, o) ==
  /\ pc'[t] = "release" /\ op[t] = "move" /\ op'[t] = "move"
  /\ loc'[t].held = (loc[t].held \cup {o}) \ {w.ext, None}
  /\ loc'[t].born = {} /\ loc'[t].doomed = {} /\ loc'[t].old = o
  /\ loc'[t].dput = loc[t].dput /\ loc'[t].dparent = loc[t].dparent
  /\ loc'[t].dold = loc[t].dold
  /\ pc[t] = "commit" /\ Given(t)'
  /\ Relists(own, t, i, w, d) /\ EntriesOf(i)' = d /\ Edits(own, t, i)
  /\ i \in INumbers /\ i \in Counted /\ i \in Sound /\ own[i] = t
  /\ Counted' = Counted /\ ~Removing(t) /\ ~Removing(t)'
  /\ IsFiniteSet(EntriesOf(i))
  /\ \A e, f \in EntriesOf(i) : e.name = f.name => e = f
  /\ \A e \in EntriesOf(i) : Leads(own, i, e.inumber)
  /\ \E f \in EntriesOf(i) : f.name = n /\ f.inumber = x
  /\ w.ext \in loc[t].held \cup {None}
  /\ o # None => o \notin loc[t].held
  /\ o = inodes[i].ext
  /\ \A k \in Counted : own[k] = t => /\ inodes'[k].nlink = inodes[k].nlink
                                      /\ LinkRefs(own, k)' = LinkRefs(own, k)

LEMMA MovesOutWhen ==
  ASSUME Typed, Typed', NEW own \in Owners, Consistent(own), NEW t \in Tasks,
         NEW r, Commits(own, t, r), op[t] = "move",
         NEW p, NEW i, NEW n, NEW d, NEW w, NEW o, NEW x,
         p = loc[t].parent, i = p.inumber, n = NameOf(loc[t].path),
         d = loc[t].dir, w = loc[t].put, o = loc[t].old, x = Victim(t)
  PROVE  MovesOut(own, t, i, n, x, d, w, o)
<1>2. /\ pc[t] = "commit" /\ pc'[t] = "release" /\ op'[t] = op[t] /\ loc'[t] = r
      /\ Enters(t, w) /\ w \in INode /\ Others(t)
      /\ UNCHANGED <<used, disk, lost, orphans>>
      /\ r.held = (loc[t].held \cup {o}) \ {w.ext, None}
      /\ r.born = {} /\ r.doomed = loc[t].doomed /\ r.old = o
      /\ r.dput = loc[t].dput /\ r.dparent = loc[t].dparent /\ r.dold = loc[t].dold
      /\ r.path = loc[t].path /\ r.dest = loc[t].dest /\ r.body = loc[t].body
  BY DEF Commits
<1>3. ~Removing(t) /\ ~Removing(t)'
  BY <1>2 DEF Removing
<1>4. Moving(own, t) /\ Given(t)
  BY <1>2 DEF Consistent, TaskSound
<1>5. /\ loc[t].born = {} /\ loc[t].doomed = {} /\ Folder(own, t, p)
      /\ Replaces(w, p, o) /\ Lists(w.ext, d) /\ Binds(EntriesOf(i), n)
  BY <1>2, <1>4 DEF Moving, Editing, Source
<1>6. w.ext \in loc[t].held \cup {None}
  BY <1>2, <1>4 DEF Moving
<1>7. Relists(own, t, i, w, d)
  <2>2. loc'[t].born \in {loc[t].born, {}}
        /\ loc'[t].held = (loc[t].held \cup {o}) \ {w.ext, None}
        /\ pc[t] \notin {"idle", "born", "clear"} /\ pc'[t] \notin {"born", "clear"}
    BY <1>2
  <2> QED BY <1>2, <1>5, <1>6, <2>2, RelistsWhen
<1>8. /\ Sound' = Sound /\ Counted' = Counted \cup (loc[t].born \ loc'[t].born)
      /\ \A j \in INumbers : inodes'[j].kind = inodes[j].kind
                             /\ inodes'[j].nlink = inodes[j].nlink
      /\ \A j \in INumbers \ {i} : EntriesOf(j)' = EntriesOf(j) /\ TargetOf(j)' = TargetOf(j)
  BY <1>7, RelistsFrame
<1>9. Counted' = Counted
  BY <1>2, <1>5, <1>8
<1>10. /\ Edits(own, t, i) /\ EntriesOf(i)' = d /\ i \in INumbers /\ i \in Counted
       /\ own[i] = t /\ inodes[i].kind = "Directory" /\ i \in Sound
  BY <1>7, Inside DEF Relists
<1>11. /\ IsFiniteSet(EntriesOf(i))
       /\ \A e, f \in EntriesOf(i) : e.name = f.name => e = f
       /\ \A e \in EntriesOf(i) : Leads(own, i, e.inumber)
  BY <1>3, <1>10, DirectoryIs DEF Excused
<1>12. \E f \in EntriesOf(i) : f.name = n /\ f.inumber = x
  BY <1>5, VictimTyped DEF Source
<1>13. o = inodes[i].ext /\ (o # None => o \notin loc[t].held)
  <2>1. o = inodes[i].ext
    BY <1>5, <1>10 DEF Replaces, Folder, Copy
  <2> QED BY <1>10, <2>1 DEF Held, Consistent, Shared, ContentSound
<1>14. ASSUME NEW k \in Counted, own[k] = t
       PROVE  inodes'[k].nlink = inodes[k].nlink /\ LinkRefs(own, k)' = LinkRefs(own, k)
  <2>1. k \in INumbers /\ inodes'[k].nlink = inodes[k].nlink
    BY <1>8, Inside
  <2>2. \A j \in Counted : inodes'[j].kind = inodes[j].kind
                           /\ (inodes[j].kind = "Hardlink" => TargetOf(j)' = TargetOf(j))
    BY <1>8, <1>10, Inside
  <2> QED BY <1>9, <1>14, <2>1, <2>2, LinksKept
<1>15. Given(t)'
  BY <1>2, <1>4, GivenKept
<1> QED BY <1>2, <1>3, <1>5, <1>6, <1>7, <1>9, <1>10, <1>11, <1>12, <1>13, <1>14, <1>15
        DEF MovesOut

(* With that, a move within one directory is done.                         *)
LEMMA CommitRename ==
  ASSUME Typed, Typed', NEW own \in Owners, Consistent(own), NEW t \in Tasks,
         NEW r, Commits(own, t, r), op[t] = "move", loc[t].dparent = NoINode
  PROVE  Consistent(own)'
<1>1. PICK p, i, n, d, w, o, x, m :
        /\ p = loc[t].parent /\ i = p.inumber /\ n = NameOf(loc[t].path)
        /\ d = loc[t].dir /\ w = loc[t].put /\ o = loc[t].old /\ x = Victim(t)
        /\ m = NameOf(loc[t].dest)
  OBVIOUS
<1>2. MovesOut(own, t, i, n, x, d, w, o)
  BY <1>1, MovesOutWhen
<1>3. /\ loc[t].dput = NoINode /\ ~Binds(EntriesOf(i), m)
      /\ d = With(Without(EntriesOf(i), n), m, x)
      /\ loc[t].held = {w.ext} \ {None}
  BY <1>1, <1>2 DEF MovesOut, Moving, Source, Consistent, TaskSound
<1>4. /\ i \in Counted /\ i \in Sound /\ own[i] = t /\ Counted' = Counted
      /\ ~Removing(t) /\ ~Removing(t)' /\ EntriesOf(i)' = d
      /\ pc[t] = "commit" /\ pc'[t] = "release" /\ op[t] = "move" /\ op'[t] = "move"
      /\ loc'[t].dput = loc[t].dput /\ Edits(own, t, i) /\ Relists(own, t, i, w, d)
      /\ IsFiniteSet(EntriesOf(i))
      /\ \A e, f \in EntriesOf(i) : e.name = f.name => e = f
      /\ \A e \in EntriesOf(i) : Leads(own, i, e.inumber)
      /\ Given(t)'
  BY <1>2 DEF MovesOut
<1>5. PICK f \in EntriesOf(i) : f.name = n /\ f.inumber = x
  BY <1>2 DEF MovesOut
<1>6. DirectorySound(own, i)'
  <2>1. PICK g : g = [name |-> m, inumber |-> x]
    OBVIOUS
  <2>2. EntriesOf(i)' = {e \in EntriesOf(i) : e.name # n} \cup {g}
        /\ g.name = m /\ g.inumber = x
    BY <1>3, <1>4, <2>1 DEF With, Without
  <2>3. IsFiniteSet({e \in EntriesOf(i) : e.name # n})
    BY <1>4, FS_Subset
  <2>4. IsFiniteSet({e \in EntriesOf(i) : e.name # n} \cup {g})
    BY <2>3, FS_AddElement
  <2>5. IsFiniteSet(EntriesOf(i)')
    BY <2>2, <2>4
  <2>6. \A e, h \in EntriesOf(i)' : e.name = h.name => e = h
    BY <1>3, <1>4, <2>2 DEF Binds
  <2>7. \A e \in EntriesOf(i)' : Leads(own, i, e.inumber)'
    BY <1>4, <1>5, <2>2 DEF Leads
  <2> QED BY <2>5, <2>6, <2>7 DEF DirectorySound
<1>7. ASSUME NEW k \in Counted' \ {Root}, own[k] = t, Countable
      PROVE  CountRight(own, k)'
  <2>1. k \in Counted
    BY <1>4
  <2>2. inodes'[k].nlink = inodes[k].nlink /\ LinkRefs(own, k)' = LinkRefs(own, k)
    BY <1>2, <1>7, <2>1 DEF MovesOut
  <2>3. Cardinality(EntryRefs(own, k)) \in Nat
        /\ Cardinality(EntryRefs(own, k)') = Cardinality(EntryRefs(own, k))
    <3>1. EntriesOf(i)' = With(Without(EntriesOf(i), n), m, f.inumber)
      BY <1>3, <1>4, <1>5
    <3>2. \A e \in EntriesOf(i) : e.name = n => e = f
      BY <1>4, <1>5
    <3> QED BY <1>3, <1>4, <1>5, <1>7, <3>1, <3>2, RefsSwap
  <2>4. Extra(own, k) = 0
    <3>1. ~Surplus(own, t, k)
      BY <1>3, <1>4 DEF Surplus
    <3> QED BY <1>7, <3>1, ExtraIs
  <2>5. Extra(own, k)' = 0
    <3>1. ~Surplus(own, t, k)'
      BY <1>3, <1>4 DEF Surplus
    <3> QED BY <1>7, <3>1, ExtraIsNext
  <2>6. CountRight(own, k)
    BY <1>7, <2>1 DEF Consistent, Shared, CountsRight, CountRight
  <2> QED BY <2>2, <2>3, <2>4, <2>5, <2>6 DEF CountRight
<1>8. Releasing(own, t)'
  <2>1. loc'[t].held = {o} \ {None}
    BY <1>2, <1>3 DEF MovesOut
  <2>2. Alone(t)'
    BY <1>2, <1>3 DEF Alone, MovesOut
  <2>3. TargetSound(own, t)'
    BY <1>4 DEF TargetSound
  <2>4. loc'[t].born = {} /\ loc'[t].doomed = {} /\ loc'[t].old = o
    BY <1>2 DEF MovesOut
  <2> QED BY <1>4, <2>1, <2>2, <2>3, <2>4 DEF Releasing
<1>9. TaskSound(own, t)'
  BY <1>4, <1>8 DEF TaskSound, Walks, Creating, Linking
<1>10. \A j \in Sound \ {i} :
           /\ \A e \in EntriesOf(j) : Excused(t, j, e) => Excused(t, j, e)'
           /\ inodes[j].kind = "Hardlink" /\ ExcusedLink(own, t, j) =>
                ExcusedLink(own, t, j)'
  BY <1>4 DEF Excused, ExcusedLink
<1> QED BY <1>4, <1>6, <1>7, <1>9, <1>10, RelistSound

(* With that, a move into another directory is done: its entry there was   *)
(* counted before this one is not.                                         *)
LEMMA CommitSource ==
  ASSUME Typed, Typed', NEW own \in Owners, Consistent(own), NEW t \in Tasks,
         NEW r, Commits(own, t, r), op[t] = "move", loc[t].dparent # NoINode
  PROVE  Consistent(own)'
<1>1. PICK p, i, n, d, w, o, x, c :
        /\ p = loc[t].parent /\ i = p.inumber /\ n = NameOf(loc[t].path)
        /\ d = loc[t].dir /\ w = loc[t].put /\ o = loc[t].old /\ x = Victim(t)
        /\ c = loc[t].dold
  OBVIOUS
<1>2. MovesOut(own, t, i, n, x, d, w, o)
  BY <1>1, MovesOutWhen
<1>3. /\ loc[t].dput # NoINode /\ d = Without(EntriesOf(i), n)
      /\ loc[t].held = ({w.ext} \ {None}) \cup ({c} \ {None})
      /\ c \notin {o, w.ext} \ {None}
  BY <1>1, <1>2 DEF MovesOut, Moving, Source, Consistent, TaskSound
<1>4. /\ i \in Counted /\ i \in Sound /\ own[i] = t /\ Counted' = Counted
      /\ ~Removing(t) /\ ~Removing(t)' /\ EntriesOf(i)' = d
      /\ pc[t] = "commit" /\ pc'[t] = "release" /\ op[t] = "move" /\ op'[t] = "move"
      /\ loc'[t].dput = loc[t].dput /\ Edits(own, t, i) /\ Relists(own, t, i, w, d)
      /\ IsFiniteSet(EntriesOf(i))
      /\ \A e, f \in EntriesOf(i) : e.name = f.name => e = f
      /\ \A e \in EntriesOf(i) : Leads(own, i, e.inumber)
      /\ Given(t)'
  BY <1>2 DEF MovesOut
<1>5. PICK f \in EntriesOf(i) : f.name = n /\ f.inumber = x
  BY <1>2 DEF MovesOut
<1>6. DirectorySound(own, i)'
  <2>1. EntriesOf(i)' \subseteq EntriesOf(i)
    BY <1>3, <1>4 DEF Without
  <2>2. IsFiniteSet(EntriesOf(i)')
    BY <1>4, <2>1, FS_Subset
  <2>3. \A e \in EntriesOf(i)' : Leads(own, i, e.inumber)'
    BY <1>4, <2>1 DEF Leads
  <2> QED BY <1>4, <2>1, <2>2, <2>3 DEF DirectorySound
<1>7. ASSUME NEW k \in Counted' \ {Root}, own[k] = t, Countable
      PROVE  CountRight(own, k)'
  <2>1. k \in Counted
    BY <1>4
  <2>2. inodes'[k].nlink = inodes[k].nlink /\ LinkRefs(own, k)' = LinkRefs(own, k)
    BY <1>2, <1>7, <2>1 DEF MovesOut
  <2>3. /\ Cardinality(EntryRefs(own, k)') \in Nat
        /\ Cardinality(EntryRefs(own, k)') + (IF k = x THEN 1 ELSE 0)
             = Cardinality(EntryRefs(own, k))
    <3>1. EntriesOf(i)' = Without(EntriesOf(i), n)
      BY <1>3, <1>4
    <3>2. \A e \in EntriesOf(i) : e.name = n => e = f
      BY <1>4, <1>5
    <3> QED BY <1>4, <1>5, <1>7, <3>1, <3>2, RefsShrink
  <2>4. Surplus(own, t, k) <=> k = x
    BY <1>1, <1>3, <1>4 DEF Surplus
  <2>5. ~Surplus(own, t, k)'
    BY <1>4 DEF Surplus
  <2> QED BY <1>7, <2>1, <2>2, <2>3, <2>4, <2>5, CountShrinks
<1>8. Releasing(own, t)'
  <2>1. loc'[t].held = (loc[t].held \cup {o}) \ {w.ext, None}
        /\ w.ext \in loc[t].held \cup {None} /\ (o # None => o \notin loc[t].held)
    BY <1>2 DEF MovesOut
  <2>2. loc'[t].held = ({o} \cup {c}) \ {None}
    BY <1>3, <2>1
  <2>3. TargetSound(own, t)'
    BY <1>4 DEF TargetSound
  <2>4. loc'[t].born = {} /\ loc'[t].doomed = {} /\ loc'[t].old = o /\ loc'[t].dold = c
        /\ loc'[t].dparent # NoINode
    BY <1>1, <1>2 DEF MovesOut
  <2>5. ~Alone(t)'
    BY <2>4 DEF Alone
  <2> QED BY <1>3, <1>4, <2>2, <2>3, <2>4, <2>5 DEF Releasing
<1>9. TaskSound(own, t)'
  BY <1>4, <1>8 DEF TaskSound, Walks, Creating, Linking
<1>10. \A j \in Sound \ {i} :
           /\ \A e \in EntriesOf(j) : Excused(t, j, e) => Excused(t, j, e)'
           /\ inodes[j].kind = "Hardlink" /\ ExcusedLink(own, t, j) =>
                ExcusedLink(own, t, j)'
  BY <1>4 DEF Excused, ExcusedLink
<1> QED BY <1>4, <1>6, <1>7, <1>9, <1>10, RelistSound

-----------------------------------------------------------------------------
(* Every commit; and the one that enters a move in its destination.        *)

LEMMA CommitSound ==
  ASSUME Typed, Typed', NEW own \in Owners, Consistent(own), NEW t \in Tasks,
         Commit(t), Intact'
  PROVE  Consistent(own)'
<1>1. CASE op[t] = "append"
  BY <1>1, CommitAppend
<1>2. CASE op[t] # "append"
  <2>1. PICK r : Commits(own, t, r)
    BY <1>2, CommitsWhen
  <2>2. pc[t] = "commit" /\ TaskSound(own, t)
    BY DEF Commit, Consistent
  <2>3. Given(t)
    BY <2>2 DEF TaskSound
  <2>4. op[t] \in Creating \cup {"unlink", "move"}
    BY <1>2, <2>2 DEF Typed, Placed
  <2>5. CASE op[t] = "unlink"
    BY <2>1, <2>5, CommitUnlink
  <2>6. CASE op[t] = "move"
    <3>1. CASE loc[t].dparent = NoINode
      BY <2>1, <2>6, <3>1, CommitRename
    <3>2. CASE loc[t].dparent # NoINode
      BY <2>1, <2>6, <3>2, CommitSource
    <3> QED BY <3>1, <3>2
  <2>7. CASE op[t] \in Creating
    <3>1. CASE Entering(own, t)
      BY <2>1, <2>3, <2>7, <3>1, CommitEntering
    <3>2. CASE Overwriting(own, t)
      BY <2>1, <2>3, <3>2, CommitOverwriting
    <3> QED BY <2>2, <2>7, <3>1, <3>2 DEF TaskSound
  <2> QED BY <2>4, <2>5, <2>6, <2>7
<1> QED BY <1>1, <1>2

(* The entry stands in the other directory before it goes from this one.   *)
LEMMA CommitDestSound ==
  ASSUME Typed, Typed', NEW own \in Owners, Consistent(own), NEW t \in Tasks,
         CommitDest(t), Intact'
  PROVE  Consistent(own)'
<1>1. PICK p, q, i, n, m, d, w, o, x, c :
        /\ p = loc[t].dparent /\ i = p.inumber /\ n = NameOf(loc[t].path)
        /\ m = NameOf(loc[t].dest) /\ d = loc[t].ddir /\ w = loc[t].dput
        /\ o = loc[t].dold /\ x = Victim(t) /\ c = loc[t].old /\ q = loc[t].parent
  OBVIOUS
<1>2. /\ pc[t] = "commitDest" /\ Enters(t, w)
      /\ UNCHANGED <<used, disk, lost, orphans>> /\ op' = op
  BY <1>1, CommitDestSteps DEF CommitDest, Intact
<1>3. PICK r \in Locals :
        /\ r = [loc[t] EXCEPT !.held = (loc[t].held \cup {o}) \ {w.ext, None}]
        /\ Moves(t, "commit", r)
  BY <1>1, CommitDestSteps
<1>4. "commit" \in PCs
  BY DEF PCs
<1>5. /\ pc'[t] = "commit" /\ loc'[t] = r
      /\ \A u \in Tasks \ {t} : pc'[u] = pc[u] /\ loc'[u] = loc[u]
  BY <1>3, <1>4, MovesFacts DEF Typed
<1>6. /\ r.held = (loc[t].held \cup {o}) \ {w.ext, None}
      /\ r.born = loc[t].born /\ r.doomed = loc[t].doomed /\ r.old = c /\ r.dold = o
      /\ r.path = loc[t].path /\ r.dest = loc[t].dest /\ r.body = loc[t].body
      /\ r.dput = w /\ r.dparent = p /\ r.parent = q /\ r.dir = loc[t].dir
      /\ r.put = loc[t].put /\ r.ddir = d
  BY <1>1, <1>3, LocalsTyped DEF Locals, Typed
<1>7. Others(t) /\ w \in INode /\ op[t] = "move" /\ op'[t] = "move"
  BY <1>1, <1>2, <1>5, LocalsTyped DEF Others, Typed, Placed
<1>8. ~Removing(t) /\ ~Removing(t)'
  BY <1>7 DEF Removing
<1>9. Moving(own, t) /\ Given(t)
  BY <1>2, <1>7 DEF Consistent, TaskSound
<1>10. p # NoINode
  <2>1. loc[t].dparent = NoINode => pc[t] \in {"rewrite", "commit"}
    BY <1>9 DEF Moving
  <2> QED BY <1>1, <1>2, <2>1
<1>11. /\ loc[t].born = {} /\ loc[t].doomed = {} /\ Binds(Source(t), n)
       /\ Folder(own, t, q) /\ Replaces(loc[t].put, q, c)
       /\ Lists(loc[t].put.ext, loc[t].dir)
       /\ loc[t].dir = Without(Source(t), n) /\ i # q.inumber
       /\ Folder(own, t, p) /\ ~Binds(EntriesOf(i), m)
       /\ d = With(EntriesOf(i), m, x)
       /\ Replaces(w, p, o) /\ w.ext \notin {None, loc[t].put.ext}
       /\ Lists(w.ext, d)
       /\ loc[t].held = ({loc[t].put.ext} \ {None}) \cup {w.ext}
  BY <1>1, <1>2, <1>9, <1>10 DEF Moving, Editing
<1>12. Relists(own, t, i, w, d)
  <2>1. w.ext \in loc[t].held \cup {None}
    BY <1>11
  <2>2. loc'[t].born \in {loc[t].born, {}}
        /\ loc'[t].held = (loc[t].held \cup {o}) \ {w.ext, None}
        /\ pc[t] \notin {"idle", "born", "clear"} /\ pc'[t] \notin {"born", "clear"}
    BY <1>2, <1>5, <1>6
  <2> QED BY <1>1, <1>2, <1>7, <1>11, <2>1, <2>2, RelistsWhen
<1>13. /\ Sound' = Sound /\ Counted' = Counted \cup (loc[t].born \ loc'[t].born)
       /\ inodes'[i] = w
       /\ \A j \in INumbers : inodes'[j].kind = inodes[j].kind
                              /\ inodes'[j].nlink = inodes[j].nlink
       /\ \A j \in INumbers \ {i} : EntriesOf(j)' = EntriesOf(j) /\ TargetOf(j)' = TargetOf(j)
  BY <1>12, RelistsFrame
<1>14. Counted' = Counted
  BY <1>5, <1>6, <1>11, <1>13
<1>15. /\ Edits(own, t, i) /\ EntriesOf(i)' = d /\ i \in INumbers /\ i \in Counted
       /\ own[i] = t /\ inodes[i].kind = "Directory" /\ i \in Sound
  BY <1>12, Inside DEF Relists
<1>16. /\ IsFiniteSet(EntriesOf(i))
       /\ \A e, f \in EntriesOf(i) : e.name = f.name => e = f
       /\ \A e \in EntriesOf(i) : Leads(own, i, e.inumber)
  BY <1>8, <1>15, DirectoryIs DEF Excused
<1>17. q.inumber \in Sound /\ q.inumber \in INumbers /\ own[q.inumber] = t
       /\ q = inodes[q.inumber] /\ p = inodes[i]
  BY <1>1, <1>11, Inside DEF Folder, Copy
<1>18. Leads(own, i, x) /\ own[x] = t
  <2>1. \A e \in Source(t) : Leads(own, q.inumber, e.inumber)
    BY <1>1, <1>8, <1>17, DirectoryIs DEF Excused, Source
  <2>2. \E e \in Source(t) : e.inumber = x
    BY <1>1, <1>11, VictimTyped
  <2>3. Leads(own, q.inumber, x)
    BY <2>1, <2>2
  <2> QED BY <1>15, <1>17, <2>3, SharingAssumption DEF Leads
<1>19. DirectorySound(own, i)'
  <2>1. PICK g : g = [name |-> m, inumber |-> x]
    OBVIOUS
  <2>2. EntriesOf(i)' = EntriesOf(i) \cup {g} /\ g.name = m /\ g.inumber = x
    BY <1>11, <1>15, <2>1 DEF With
  <2>3. IsFiniteSet(EntriesOf(i) \cup {g})
    BY <1>16, FS_AddElement
  <2>4. IsFiniteSet(EntriesOf(i)')
    BY <2>2, <2>3
  <2>5. \A e, h \in EntriesOf(i)' : e.name = h.name => e = h
    BY <1>11, <1>16, <2>2 DEF Binds
  <2>6. \A e \in EntriesOf(i)' : Leads(own, i, e.inumber)'
    BY <1>14, <1>16, <1>18, <2>2 DEF Leads
  <2> QED BY <2>4, <2>5, <2>6 DEF DirectorySound
<1>20. Source(t)' = Source(t) /\ Victim(t)' = x
  <2>1. loc'[t].parent = q /\ EntriesOf(q.inumber)' = EntriesOf(q.inumber)
    BY <1>5, <1>6, <1>11, <1>13, <1>17
  <2>2. Source(t)' = Source(t)
    BY <1>1, <2>1 DEF Source
  <2> QED BY <1>1, <1>5, <1>6, <2>2 DEF Victim
<1>21. w.inumber = i /\ w # NoINode
  <2>1. p \in INode
    BY <1>1, LocalsTyped DEF Typed
  <2>2. PICK f : f = w.ext
    OBVIOUS
  <2>3. w = [p EXCEPT !.ext = f]
    BY <1>11, <2>2 DEF Replaces
  <2>4. w.inumber = i
    BY <1>1, <2>1, <2>3 DEF INode
  <2> QED BY <1>15, <2>4, Inside DEF NoINode
<1>22. ASSUME NEW k \in Counted' \ {Root}, own[k] = t, Countable
       PROVE  CountRight(own, k)'
  <2>1. k \in Counted /\ k \in INumbers /\ inodes'[k].nlink = inodes[k].nlink
    BY <1>13, <1>14, Inside
  <2>2. LinkRefs(own, k)' = LinkRefs(own, k)
    <3>1. \A j \in Counted : inodes'[j].kind = inodes[j].kind
                             /\ (inodes[j].kind = "Hardlink" => TargetOf(j)' = TargetOf(j))
      BY <1>13, <1>15, Inside
    <3> QED BY <1>14, <1>22, <3>1, LinksKept
  <2>3. Cardinality(EntryRefs(own, k)')
          = Cardinality(EntryRefs(own, k)) + (IF k = x THEN 1 ELSE 0)
    BY <1>11, <1>15, <1>22, RefsGrow
  <2>4. ~Surplus(own, t, k)
    BY <1>2, <1>7, <1>8 DEF Surplus
  <2>5. Surplus(own, t, k)' <=> k = x
    <3>1. loc'[t].dput = w
      BY <1>5, <1>6
    <3> QED BY <1>5, <1>7, <1>8, <1>20, <1>21, <3>1 DEF Surplus
  <2> QED BY <1>22, <2>1, <2>2, <2>3, <2>4, <2>5, CountGrows
<1>23. Given(t)'
  BY <1>2, <1>5, <1>6, <1>7, <1>9, GivenKept
<1>24. Moving(own, t)'
  <2>1. Folder(own, t, q)'
    BY <1>11, <1>12, RelistsCopies DEF Folder
  <2>2. Lists(loc[t].put.ext, loc[t].dir)'
    <3>1. PICK a, b : a = loc[t].put.ext /\ b = loc[t].dir
      OBVIOUS
    <3>2. Lists(a, b)'
      BY <1>2, <1>11, <3>1 DEF Lists
    <3> QED BY <1>5, <1>6, <3>1, <3>2 DEF Lists
  <2>3. /\ pc'[t] = "commit" /\ loc'[t].put = loc[t].put /\ loc'[t].parent = q
        /\ loc'[t].old = c /\ loc'[t].dir = loc[t].dir /\ loc'[t].dold = o
        /\ loc'[t].dparent = p /\ loc'[t].dput = w
        /\ loc'[t].path = loc[t].path /\ loc'[t].dest = loc[t].dest
        /\ loc'[t].born = {} /\ loc'[t].doomed = {}
        /\ loc'[t].held = (loc[t].held \cup {o}) \ {w.ext, None}
    BY <1>5, <1>6, <1>11
  <2>4. Editing(own, t)'
    <3>1. Replaces(loc[t].put, q, c)
      BY <1>11
    <3>2. PICK a, b : a = loc[t].put.ext /\ b = loc[t].dir
      OBVIOUS
    <3>3. Lists(a, b)'
      BY <1>2, <1>11, <3>2 DEF Lists
    <3> QED BY <2>1, <2>3, <3>1, <3>2, <3>3 DEF Editing, Replaces
  <2>5. Folder(own, t, w)'
    <3>1. w = inodes'[i] /\ i \in Counted' /\ own[i] = t /\ w.inumber = i
      BY <1>13, <1>14, <1>15, <1>21
    <3>2. w.kind = "Directory"
      BY <1>12 DEF Relists
    <3> QED BY <3>1, <3>2 DEF Folder, Copy
  <2>6. [name |-> m, inumber |-> x] \in EntriesOf(i)'
    BY <1>11, <1>15 DEF With
  <2>7. o = inodes[i].ext /\ c = inodes[q.inumber].ext
    BY <1>11, <1>17 DEF Replaces
  <2>8. o # None => o \notin loc[t].held /\ o # c
    BY <1>11, <1>15, <1>17, <2>7 DEF Held, Consistent, Shared, ContentSound
  <2>9. loc'[t].held = ({loc[t].put.ext} \ {None}) \cup ({o} \ {None})
    BY <1>11, <2>3, <2>8
  <2>10. o \notin {c, loc[t].put.ext} \ {None}
    BY <1>11, <2>8
  <2> QED BY <1>1, <1>10, <1>11, <1>20, <1>21, <2>3, <2>4, <2>5, <2>6, <2>9, <2>10 DEF Moving
<1>25. TaskSound(own, t)'
  BY <1>5, <1>7, <1>8, <1>23, <1>24 DEF TaskSound, Walks, Creating, Linking
<1>26. \A j \in Sound \ {i} :
           /\ \A e \in EntriesOf(j) : Excused(t, j, e) => Excused(t, j, e)'
           /\ inodes[j].kind = "Hardlink" /\ ExcusedLink(own, t, j) =>
                ExcusedLink(own, t, j)'
  BY <1>8 DEF Excused, ExcusedLink
<1> QED BY <1>12, <1>19, <1>22, <1>25, <1>26, RelistSound

-----------------------------------------------------------------------------
(* A hardlink was entered, and is counted in the file it refers to.        *)

(* The new hardlink is counted.                                            *)
LEMMA BumpLinkSound ==
  ASSUME Typed, Typed', NEW own \in Owners, Consistent(own), NEW t \in Tasks,
         BumpLink(t), Intact'
  PROVE  Consistent(own)'
<1>1. PICK y, i, x : y = loc[t].target /\ i = y.inumber /\ x = Raised(t)
  OBVIOUS
<1>2. /\ pc[t] = "bump" /\ Enters(t, x) /\ Return(t) /\ x \in INode /\ x.inumber = i
      /\ UNCHANGED <<used, disk, lost, orphans>>
  BY <1>1, BumpLinkSteps DEF BumpLink, Intact
<1>3. op[t] = "hardlink"
  BY <1>2 DEF Typed, Placed
<1>4. /\ pc'[t] = "idle" /\ op'[t] = "ls" /\ loc'[t] = Idle /\ Others(t)
  BY <1>2, ReturnFacts DEF Typed
<1>5. Releasing(own, t)
  BY <1>2 DEF Consistent, TaskSound
<1>6. /\ loc[t].born = {} /\ loc[t].held = {}
      /\ i \in Counted /\ own[i] = t /\ y = inodes[i] /\ y.kind = "File"
  <2>1. loc[t].held = {} \ {None}
    BY <1>2, <1>5 DEF Releasing
  <2> QED BY <1>1, <1>3, <1>5, <2>1 DEF Releasing, TargetSound, Copy
<1>7. loc'[t].born = {} /\ loc'[t].held = {}
  BY <1>4 DEF Idle
<1>8. y \in INode /\ y.nlink \in Nat /\ i \in Sound
  BY <1>1, <1>6, LocalsTyped, INodeFields, Inside DEF Typed
<1>9. x.kind = "File" /\ x.ext = y.ext /\ x.nlink = y.nlink + 1
  BY <1>1, <1>6, <1>8 DEF Raised, INode
<1>10. Registers(own, t, i, x)
  <2>1. loc'[t].born \in {loc[t].born, {}}
        /\ pc[t] \notin {"idle", "born", "clear"} /\ pc'[t] \notin {"born", "clear"}
    BY <1>2, <1>4, <1>7
  <2>2. x.kind = inodes[i].kind
    BY <1>6, <1>9
  <2> QED BY <1>2, <1>4, <1>6, <2>1, <2>2, RegistersWhen
<1>11. /\ Sound' = Sound /\ Counted' = Counted \cup (loc[t].born \ loc'[t].born)
       /\ inodes'[i] = x /\ \A j \in INumbers \ {i} : inodes'[j] = inodes[j]
  BY <1>10, RegisterFrame
<1>12. Counted' = Counted /\ loc'[t].born = loc[t].born
  BY <1>6, <1>7, <1>11
<1>13. ~Removing(t) /\ ~Removing(t)'
  BY <1>3, <1>4 DEF Removing
<1>14. NodeSound(own, i)'
  BY <1>9, <1>11, FileSound
<1>15. ASSUME NEW k \in Counted' \ {Root}, own[k] = t, Countable
       PROVE  CountRight(own, k)'
  <2>1. EntryRefs(own, k)' = EntryRefs(own, k) /\ LinkRefs(own, k)' = LinkRefs(own, k)
    BY <1>9, <1>10, <1>12, <1>15, FileCounts
  <2>2. k \in Counted /\ k \in INumbers /\ inodes[k].nlink \in Nat
    BY <1>12, <1>15, Inside
  <2>3. Extra(own, k) = IF k = i THEN 1 ELSE 0
    <3>1. Surplus(own, t, k) <=> k = i
      BY <1>1, <1>2, <1>3, <1>13 DEF Surplus
    <3> QED BY <1>15, <3>1, ExtraIs
  <2>4. Extra(own, k)' = 0
    <3>1. ~Surplus(own, t, k)'
      BY <1>4, <1>13 DEF Surplus
    <3> QED BY <1>15, <3>1, ExtraIsNext
  <2>5. CountRight(own, k)
    BY <1>15, <2>2 DEF Consistent, Shared, CountsRight, CountRight
  <2>6. CASE k = i
    <3>1. inodes'[k].nlink = inodes[k].nlink + 1
      BY <1>6, <1>9, <1>11, <2>6
    <3>2. inodes[k].nlink + 1 = Cardinality(EntryRefs(own, k)) + Cardinality(LinkRefs(own, k))
      BY <2>3, <2>5, <2>6 DEF CountRight
    <3>3. inodes'[k].nlink + 0
            = Cardinality(EntryRefs(own, k)') + Cardinality(LinkRefs(own, k)')
      BY <2>1, <2>2, <3>1, <3>2
    <3> QED BY <2>4, <3>3 DEF CountRight
  <2>7. CASE k # i
    <3>1. inodes'[k].nlink = inodes[k].nlink /\ Extra(own, k) = 0
      BY <1>11, <2>2, <2>3, <2>7
    <3> QED BY <2>1, <2>4, <2>5, <3>1 DEF CountRight
  <2> QED BY <2>6, <2>7
<1>16. TaskSound(own, t)'
  BY <1>4, IdleSound
<1>17. \A j \in Sound \ {i} :
           /\ \A e \in EntriesOf(j) : Excused(t, j, e) => Excused(t, j, e)'
           /\ inodes[j].kind = "Hardlink" /\ ExcusedLink(own, t, j) =>
                ExcusedLink(own, t, j)'
  BY <1>13 DEF Excused, ExcusedLink
<1>18. x.nlink >= 1 /\ (x.kind # "File" => x.nlink = 1)
  BY <1>8, <1>9
<1>19. x.ext = inodes[i].ext /\ loc'[t].held = loc[t].held
  BY <1>6, <1>7, <1>9
<1> QED BY <1>10, <1>14, <1>15, <1>16, <1>17, <1>18, <1>19, RegisterSound

-----------------------------------------------------------------------------
(* An inode is counted down, or freed, by the deletion of t.               *)

(* What is due to be freed or counted down still has its entry, or the     *)
(* hardlink that refers to it.                                             *)
LEMMA DueCounted ==
  ASSUME Typed, NEW own \in Owners, Consistent(own), NEW t \in Tasks,
         Removing(t), NEW c, Due(own, t, c)
  PROVE  c \in Counted \ {Root} /\ c \in INumbers /\ c \in Sound /\ own[c] = t
<1>1. /\ Folder(own, t, loc[t].parent) /\ Binds(Source(t), NameOf(loc[t].path))
      /\ Victim(t) \in INumbers
  BY UnlinkingIs
<1>2. c \in INumbers /\ c \in Sound /\ own[c] = t
  BY <1>1, DueTyped
<1>3. PICK x, i : x = Victim(t) /\ i = loc[t].parent.inumber
  OBVIOUS
<1>4. i \in Sound /\ own[i] = t /\ i \in INumbers
  BY <1>1, <1>3, Inside DEF Folder, Copy
<1>5. PICK f \in EntriesOf(i) : f.inumber = x
  BY <1>1, <1>3, VictimTyped DEF Source
<1>6. Leads(own, i, x) \/ Excused(t, i, f)
  BY <1>4, <1>5, DirectoryIs
<1>7. CASE c = x /\ Plain(own, t)
  BY <1>2, <1>5, <1>6, <1>7 DEF Excused, Plain, Leads
<1>8. CASE c = x /\ Followed(own, t)
  <2>1. x \notin loc[t].doomed
    BY <1>3, <1>8 DEF Followed
  <2> QED BY <1>2, <1>5, <1>6, <1>8, <2>1 DEF Excused, Leads
<1>9. CASE c = TargetOf(x) /\ Refers(own, t)
  <2>1. x \in Sound /\ own[x] = t /\ inodes[x].kind = "Hardlink" /\ loc[t].doomed = {}
    BY <1>3, <1>9 DEF Refers, Mine
  <2>2. ASSUME NEW u \in Tasks, ExcusedLink(own, u, x) PROVE FALSE
    BY <2>1, <2>2 DEF ExcusedLink
  <2>3. Leads(own, x, c)
    BY <1>9, <2>1, <2>2 DEF Consistent, Shared, NodesSound, NodeSound, HardlinkSound
  <2> QED BY <1>2, <2>3 DEF Leads
<1> QED BY <1>3, <1>7, <1>8, <1>9 DEF Due

(* t freed or counted down c.                                              *)
Dooms(own, t, c, label) ==
  /\ Others(t) /\ pc'[t] = label /\ op'[t] = op[t] /\ op[t] = "unlink"
  /\ loc'[t].doomed = loc[t].doomed \cup {c}
  /\ loc'[t].path = loc[t].path /\ loc'[t].dest = loc[t].dest
  /\ loc'[t].body = loc[t].body
  /\ loc'[t].parent = loc[t].parent /\ loc'[t].dir = loc[t].dir
  /\ loc'[t].dparent = loc[t].dparent /\ loc'[t].dput = loc[t].dput
  /\ loc'[t].stack = loc[t].stack /\ loc'[t].child = loc[t].child
  /\ loc'[t].held = {} /\ loc'[t].born = {} /\ loc[t].held = {} /\ loc[t].born = {}
  /\ Removing(t) /\ Removing(t)'

LEMMA DoomsWhen ==
  ASSUME Typed, NEW own \in Owners, Consistent(own), NEW t \in Tasks,
         pc[t] \in {"drop", "free"}, NEW label \in {"delete", "clear"},
         Moves(t, label, DoomChild(t)), op' = op
  PROVE  Dooms(own, t, loc[t].child.inumber, label)
<1>1. PICK c, r : c = loc[t].child.inumber /\ r = DoomChild(t)
  OBVIOUS
<1>2. r \in Locals /\ label \in PCs /\ Moves(t, label, r)
  BY <1>1, DoomedTyped DEF PCs
<1>3. /\ pc'[t] = label /\ loc'[t] = r
      /\ \A u \in Tasks \ {t} : pc'[u] = pc[u] /\ loc'[u] = loc[u]
  BY <1>2, MovesFacts DEF Typed
<1>4. r = [loc[t] EXCEPT !.doomed = loc[t].doomed \cup {c}]
  BY <1>1 DEF DoomChild
<1>5. /\ r.doomed = loc[t].doomed \cup {c}
      /\ r.path = loc[t].path /\ r.dest = loc[t].dest /\ r.body = loc[t].body
      /\ r.parent = loc[t].parent /\ r.dir = loc[t].dir
      /\ r.dparent = loc[t].dparent /\ r.dput = loc[t].dput
      /\ r.stack = loc[t].stack /\ r.child = loc[t].child
      /\ r.held = loc[t].held /\ r.born = loc[t].born
  BY <1>4, LocalsTyped DEF Locals, Typed
<1>6. op[t] = "unlink" /\ Removing(t) /\ Unlinking(own, t)
  BY UnlinkingIs DEF Deleting
<1>7. loc[t].born = {} /\ loc[t].held = {}
  BY <1>6 DEF Unlinking
<1>8. Others(t) /\ op'[t] = op[t]
  BY <1>3 DEF Others
<1>9. Removing(t)'
  BY <1>3, <1>6, <1>8 DEF Removing, Deleting
<1> QED BY <1>1, <1>3, <1>5, <1>6, <1>7, <1>8, <1>9 DEF Dooms

(* More is excused then.                                                   *)
LEMMA DoomsExcuse ==
  ASSUME NEW own \in Owners, NEW t \in Tasks, NEW c, NEW label, Dooms(own, t, c, label)
  PROVE  \A j, e : Excused(t, j, e) => Excused(t, j, e)'
  BY DEF Dooms, Excused

-----------------------------------------------------------------------------
(* An inode that has more names than the deletion removes is counted down. *)

(* What is left of a removal once c is counted down or freed.              *)
LEMMA DoomedStage ==
  ASSUME NEW own \in Owners, NEW t \in Tasks, NEW c, NEW label,
         Dooms(own, t, c, label), label \in {"delete", "clear"},
         Unlinking(own, t), Folder(own, t, loc[t].parent)',
         Source(t)' = Source(t), Victim(t)' = Victim(t),
         label = "delete" =>
           \/ loc[t].stack = <<Victim(t)>> /\ (Plain(own, t) \/ Followed(own, t))'
           \/ loc[t].stack = <<>> /\ Spared(own, t)',
         label = "clear" =>
           /\ loc[t].child.inumber = c /\ c \in bits' /\ own[c] = t
           /\ \/ loc[t].stack = <<>> /\ c = Victim(t)
              \/ /\ loc[t].stack = <<Victim(t)>> /\ Followed(own, t)'
                 /\ c = TargetOf(Victim(t))'
  PROVE  Unlinking(own, t)'
<1>1. /\ pc'[t] = label /\ loc'[t].path = loc[t].path /\ loc'[t].stack = loc[t].stack
      /\ loc'[t].dir = loc[t].dir /\ loc'[t].held = {} /\ loc'[t].born = {}
      /\ loc'[t].child = loc[t].child /\ loc'[t].doomed = loc[t].doomed \cup {c}
  BY DEF Dooms
<1>2. Alone(t)'
  BY DEF Dooms, Alone, Unlinking
<1>3. Editing(own, t)'
  BY <1>1 DEF Editing
<1>4. /\ Binds(Source(t), NameOf(loc[t].path))'
      /\ loc'[t].dir = Without(Source(t), NameOf(loc[t].path))'
  BY <1>1 DEF Unlinking, Binds, Without
<1>5. CASE label = "delete"
  BY <1>1, <1>2, <1>3, <1>4, <1>5 DEF Unlinking
<1>6. CASE label = "clear"
  BY <1>1, <1>2, <1>3, <1>4, <1>6 DEF Unlinking
<1> QED BY <1>5, <1>6

LEMMA DropLinkSound ==
  ASSUME Typed, Typed', NEW own \in Owners, Consistent(own), NEW t \in Tasks,
         DropLink(t), Intact'
  PROVE  Consistent(own)'
<1>1. PICK w, c, x, p : /\ w = loc[t].child /\ c = w.inumber /\ x = Victim(t)
                        /\ p = loc[t].parent
  OBVIOUS
<1>2. /\ pc[t] = "drop" /\ Enters(t, w) /\ Moves(t, "delete", DoomChild(t))
      /\ UNCHANGED <<used, disk, op, lost, orphans>>
  BY <1>1, DropLinkSteps DEF DropLink, Intact
<1>3. /\ Unlinking(own, t) /\ Given(t) /\ Folder(own, t, p) /\ Removing(t)
      /\ Binds(Source(t), NameOf(loc[t].path)) /\ x \in INumbers
  BY <1>1, <1>2, UnlinkingIs DEF Deleting
<1>4. Dooms(own, t, c, "delete")
  BY <1>1, <1>2, DoomsWhen
<1>5. /\ w = [inodes[c] EXCEPT !.nlink = inodes[c].nlink - 1]
      /\ inodes[c].nlink > 1 /\ Due(own, t, c) /\ ~Followed(own, t)
  BY <1>1, <1>2, <1>3 DEF Unlinking
<1>6. c \in Counted \ {Root} /\ c \in INumbers /\ c \in Sound /\ own[c] = t
  BY <1>3, <1>5, DueCounted
<1>7. inodes[c] \in INode /\ inodes[c].nlink \in Nat /\ w \in INode
  BY <1>1, <1>6, INodeFields, LocalsTyped, Inside DEF Typed, StateTyped
<1>8. w.kind = inodes[c].kind /\ w.ext = inodes[c].ext /\ w.nlink = inodes[c].nlink - 1
  BY <1>5, <1>7 DEF INode
<1>9. inodes[c].kind = "File"
  BY <1>5, <1>6 DEF Consistent, Shared, ContentSound
<1>10. Others(t) /\ pc'[t] = "delete" /\ op'[t] = op[t] /\ op[t] = "unlink"
       /\ loc'[t].held = {} /\ loc'[t].born = {} /\ loc[t].held = {} /\ loc[t].born = {}
       /\ loc'[t].doomed = loc[t].doomed \cup {c} /\ Removing(t)'
       /\ loc'[t].parent = p /\ loc'[t].path = loc[t].path /\ loc'[t].dest = loc[t].dest
       /\ loc'[t].body = loc[t].body
  BY <1>1, <1>4 DEF Dooms
<1>11. Registers(own, t, c, w)
  <2>1. loc'[t].born \in {loc[t].born, {}}
        /\ pc[t] \notin {"idle", "born", "clear"} /\ pc'[t] \notin {"born", "clear"}
    BY <1>2, <1>10
  <2> QED BY <1>1, <1>2, <1>6, <1>7, <1>8, <1>10, <2>1, RegistersWhen
<1>12. /\ Sound' = Sound /\ Counted' = Counted \cup (loc[t].born \ loc'[t].born)
       /\ inodes'[c] = w /\ \A j \in INumbers \ {c} : inodes'[j] = inodes[j]
       /\ \A j \in INumbers \ {c} : EntriesOf(j)' = EntriesOf(j) /\ TargetOf(j)' = TargetOf(j)
  BY <1>11, RegisterFrame
<1>13. Counted' = Counted /\ loc'[t].born = loc[t].born
  BY <1>10, <1>12
<1>14. NodeSound(own, c)'
  BY <1>8, <1>9, <1>12, FileSound
<1>15. p.inumber \in Counted /\ p.inumber \in INumbers /\ own[p.inumber] = t
       /\ p = inodes[p.inumber] /\ p.inumber # c /\ p.kind = "Directory"
  BY <1>3, <1>9, Inside DEF Folder, Copy
<1>16. Source(t)' = Source(t) /\ Victim(t)' = x
  <2>1. Source(t)' = Source(t)
    BY <1>1, <1>10, <1>12, <1>15 DEF Source
  <2> QED BY <1>1, <1>10, <2>1 DEF Victim
<1>17. Folder(own, t, loc[t].parent)'
  BY <1>10, <1>12, <1>13, <1>15 DEF Folder, Copy
<1>18. Mine(own, t)' <=> Mine(own, t)
  BY <1>1, <1>12, <1>16 DEF Mine
<1>19. loc[t].doomed = {} /\ Mine(own, t) /\ loc'[t].doomed = {c}
  BY <1>5, <1>10 DEF Due, Plain, Refers
<1>20. \/ loc[t].stack = <<x>> /\ Followed(own, t)'
       \/ loc[t].stack = <<>> /\ Spared(own, t)'
  <2>1. CASE loc[t].stack = <<>> /\ c = x
    <3>1. inodes'[x].kind = "File"
      BY <1>8, <1>9, <1>12, <2>1
    <3> QED BY <1>16, <1>19, <2>1, <3>1 DEF Spared
  <2>2. CASE loc[t].stack = <<x>> /\ Refers(own, t) /\ c = TargetOf(x)
    <3>1. x # c /\ inodes[x].kind = "Hardlink"
      BY <1>1, <1>9, <2>2 DEF Refers
    <3>2. inodes'[x] = inodes[x] /\ TargetOf(x)' = c
      BY <1>3, <1>12, <2>2, <3>1
    <3> QED BY <1>16, <1>18, <1>19, <2>2, <3>1, <3>2 DEF Followed
  <2> QED BY <1>1, <1>5, <2>1, <2>2 DEF Due
<1>21. Unlinking(own, t)'
  BY <1>1, <1>3, <1>4, <1>16, <1>17, <1>20, DoomedStage
<1>22. Given(t)'
  BY <1>2, <1>3, <1>10, GivenKept
<1>23. TaskSound(own, t)'
  BY <1>10, <1>21, <1>22 DEF TaskSound, Walks, Creating, Linking
<1>24. ASSUME NEW k \in Counted' \ {Root}, own[k] = t, Countable
       PROVE  CountRight(own, k)'
  <2>1. EntryRefs(own, k)' = EntryRefs(own, k) /\ LinkRefs(own, k)' = LinkRefs(own, k)
    BY <1>8, <1>9, <1>11, <1>13, <1>24, FileCounts
  <2>2. k \in Counted /\ k \in INumbers /\ inodes[k].nlink \in Nat
    BY <1>13, <1>24, Inside
  <2>3. Extra(own, k) = 0
    <3>1. ~Surplus(own, t, k)
      BY <1>10, <1>19 DEF Surplus
    <3> QED BY <1>24, <3>1, ExtraIs
  <2>4. Extra(own, k)' = IF k = c THEN 1 ELSE 0
    <3>1. Surplus(own, t, k)' <=> k = c
      BY <1>10, <1>18, <1>19 DEF Surplus
    <3> QED BY <1>24, <3>1, ExtraIsNext
  <2>5. CountRight(own, k)
    BY <1>24, <2>2 DEF Consistent, Shared, CountsRight, CountRight
  <2>6. CASE k = c
    <3>1. inodes'[k].nlink = inodes[k].nlink - 1
      BY <1>8, <1>12, <2>6
    <3>2. inodes[k].nlink + 0 = Cardinality(EntryRefs(own, k)) + Cardinality(LinkRefs(own, k))
      BY <2>3, <2>5 DEF CountRight
    <3>3. inodes'[k].nlink + 1
            = Cardinality(EntryRefs(own, k)') + Cardinality(LinkRefs(own, k)')
      BY <2>1, <2>2, <3>1, <3>2
    <3> QED BY <2>4, <2>6, <3>3 DEF CountRight
  <2>7. CASE k # c
    <3>1. inodes'[k].nlink = inodes[k].nlink /\ Extra(own, k)' = 0
      BY <1>12, <2>2, <2>4, <2>7
    <3> QED BY <2>1, <2>3, <2>5, <3>1 DEF CountRight
  <2> QED BY <2>6, <2>7
<1>25. \A j \in Sound \ {c} :
           /\ \A e \in EntriesOf(j) : Excused(t, j, e) => Excused(t, j, e)'
           /\ inodes[j].kind = "Hardlink" /\ ExcusedLink(own, t, j) =>
                ExcusedLink(own, t, j)'
  BY <1>4, <1>19, DoomsExcuse DEF ExcusedLink
<1>26. w.nlink >= 1 /\ (w.kind # "File" => w.nlink = 1)
  BY <1>5, <1>7, <1>8, <1>9
<1>27. w.ext = inodes[c].ext /\ loc'[t].held = loc[t].held
  BY <1>8, <1>10
<1> QED BY <1>11, <1>14, <1>23, <1>24, <1>25, <1>26, <1>27, RegisterSound

-----------------------------------------------------------------------------
(* An inode is freed. First its content; the inode is no longer sound, and *)
(* its bit is still set.                                                   *)

(* The content of c is freed, and its bit not yet.                         *)
Empties(own, t, c) ==
  /\ c \in Counted \ {Root} /\ c \in INumbers /\ c \in Sound /\ own[c] = t
  /\ inodes[c].nlink = 1 /\ Due(own, t, c) /\ EntriesOf(c) = {}
  /\ Dooms(own, t, c, "clear") /\ loc[t].child.inumber = c
  /\ Unlinking(own, t) /\ Given(t)
  /\ UNCHANGED <<bits, inodes, lost, orphans, guard>>
  /\ Sound' = Sound \ {c} /\ Counted' = Counted \ {c}
  /\ Held' = Held /\ Born' = Born
  /\ used' = used \ {inodes[c].ext}
  /\ \A i \in Sound \ {c} : inodes[i].ext # None =>
       /\ inodes[i].ext # inodes[c].ext /\ inodes[i].ext \in used
       /\ disk'[inodes[i].ext] = disk[inodes[i].ext]
  /\ \A i \in Sound \ {c} : EntriesOf(i)' = EntriesOf(i) /\ TargetOf(i)' = TargetOf(i)
  /\ Confined(own, own, t)

LEMMA EmptiesWhen ==
  ASSUME Typed, Typed', NEW own \in Owners, Consistent(own), NEW t \in Tasks,
         FreeINode(t)
  PROVE  Empties(own, t, loc[t].child.inumber)
<1>1. PICK w, c, x : w = loc[t].child /\ c = w.inumber /\ x = Victim(t)
  OBVIOUS
<1>2. /\ pc[t] = "free" /\ Release(w.ext) /\ Moves(t, "clear", DoomChild(t))
      /\ UNCHANGED <<bits, inodes, guard, op, lost, orphans>>
  BY <1>1, FreeINodeSteps DEF FreeINode
<1>3. /\ Unlinking(own, t) /\ Given(t) /\ Removing(t)
      /\ Binds(Source(t), NameOf(loc[t].path)) /\ x \in INumbers
  BY <1>1, <1>2, UnlinkingIs DEF Deleting
<1>4. Dooms(own, t, c, "clear")
  BY <1>1, <1>2, DoomsWhen
<1>5. w = [inodes[c] EXCEPT !.nlink = 0] /\ inodes[c].nlink = 1 /\ Due(own, t, c)
  BY <1>1, <1>2, <1>3 DEF Unlinking
<1>6. c \in Counted \ {Root} /\ c \in INumbers /\ c \in Sound /\ own[c] = t
  BY <1>3, <1>5, DueCounted
<1>7. inodes[c] \in INode /\ w.ext = inodes[c].ext
  BY <1>5, <1>6, Inside DEF INode
<1>8. PICK a : a = inodes[c].ext
  OBVIOUS
<1>9. /\ used' = used \ {a} /\ used \subseteq Extents
      /\ \A f \in used \ {a} : disk'[f] = disk[f]
  BY <1>2, <1>7, <1>8 DEF Release, Typed, StateTyped
<1>10. Others(t) /\ pc'[t] = "clear" /\ loc'[t].child = w
       /\ loc'[t].held = loc[t].held /\ loc'[t].born = loc[t].born
  BY <1>1, <1>4 DEF Dooms
<1>11. /\ Held = loc[t].held \cup HeldElse(t) /\ Held' = loc'[t].held \cup HeldElse(t)
       /\ Born = loc[t].born \cup BornElse(t) /\ Born' = loc'[t].born \cup BornElse(t)
       /\ Emptied = Clears(t) \cup ClearsElse(t)
       /\ Emptied' = Clears(t)' \cup ClearsElse(t)
  BY <1>10, Parts, PartsNext
<1>12. Clears(t) = {} /\ Clears(t)' = {c}
  BY <1>1, <1>2, <1>10 DEF Clears
<1>13. Sound' = Sound \ {c} /\ Counted' = Counted \ {c} /\ Held' = Held /\ Born' = Born
  BY <1>2, <1>10, <1>11, <1>12 DEF Sound, Counted
<1>14. \A i \in Sound \ {c} : inodes[i].ext # None =>
         /\ inodes[i].ext # a /\ inodes[i].ext \in used
         /\ disk'[inodes[i].ext] = disk[inodes[i].ext]
  BY <1>6, <1>8, <1>9 DEF Consistent, Shared, ContentSound
<1>15. ASSUME NEW i \in Sound \ {c}
       PROVE  EntriesOf(i)' = EntriesOf(i) /\ TargetOf(i)' = TargetOf(i)
  <2>1. i \in bits /\ i \in bits' /\ i \in INumbers /\ inodes'[i] = inodes[i]
    BY <1>2, Inside
  <2> QED BY <1>14, <2>1, ContentKept
<1>16. Confined(own, own, t)
  <2>1. \A u \in Tasks \ {t} : \A f \in loc[u].held : disk'[f] = disk[f]
    <3> SUFFICES ASSUME NEW u \in Tasks \ {t}, NEW f \in loc[u].held
                 PROVE  f \in used /\ f # a
      BY <1>9
    <3>1. f \in used /\ f # None /\ f \in Held
      BY <1>9, InUse, Inside DEF Held
    <3> QED BY <1>6, <1>8, <3>1 DEF Consistent, Shared, ContentSound
  <2>2. bits' = bits /\ inodes' = inodes
    BY <1>2
  <2> QED BY <1>6, <1>10, <1>13, <1>14, <2>1, <2>2, ConfinedWhen
<1>17. EntriesOf(c) = {}
  <2>1. CASE c = x /\ Plain(own, t)
    BY <1>1, <2>1 DEF Plain, Removable, EntriesOf
  <2>2. CASE c = x /\ Followed(own, t)
    BY <1>1, <2>2 DEF Followed, EntriesOf
  <2>3. CASE c = TargetOf(x) /\ Refers(own, t)
    BY <1>1, <2>3 DEF Refers, EntriesOf
  <2> QED BY <1>1, <1>5, <2>1, <2>2, <2>3 DEF Due
<1> QED BY <1>1, <1>2, <1>3, <1>4, <1>5, <1>6, <1>8, <1>9, <1>13, <1>14, <1>15, <1>16, <1>17
        DEF Empties

-----------------------------------------------------------------------------
(* Nothing else refers to what is freed: its count was one, and the one    *)
(* that was counted is being removed.                                      *)

(* A set of one element, and what is in it.                                *)
LEMMA OneElement ==
  ASSUME NEW S, NEW R, IsFiniteSet(S), IsFiniteSet(R), NEW a \in S,
         Cardinality(S) + Cardinality(R) = 1
  PROVE  R = {} /\ \A b \in S : b = a
<1>1. Cardinality(S) \in Nat /\ Cardinality(R) \in Nat
  BY FS_CardinalityType
<1>2. Cardinality(S) # 0
  BY FS_EmptySet
<1>3. Cardinality(S) = 1 /\ Cardinality(R) = 0
  BY <1>1, <1>2
<1>4. R = {}
  BY <1>3, FS_EmptySet
<1>5. \E b : S = {b}
  BY <1>3, FS_Singleton
<1> QED BY <1>4, <1>5

(* The directory of the entry to be removed stays as it is.                *)
LEMMA EmptiesSource ==
  ASSUME Typed, NEW own \in Owners, Consistent(own), NEW t \in Tasks,
         NEW c, Empties(own, t, c), NEW i, i = loc[t].parent.inumber
  PROVE  /\ i \in Counted /\ i \in Sound /\ own[i] = t /\ i # c
         /\ Source(t)' = Source(t) /\ Victim(t)' = Victim(t) /\ Victim(t) \in INumbers
         /\ \E f \in EntriesOf(i) : f.name = NameOf(loc[t].path)
                                    /\ f.inumber = Victim(t)
         /\ Folder(own, t, loc[t].parent)'
<1>1. Removing(t)
  BY DEF Empties, Dooms
<1>2. /\ Folder(own, t, loc[t].parent) /\ Binds(Source(t), NameOf(loc[t].path))
      /\ Victim(t) \in INumbers
  BY <1>1, UnlinkingIs
<1>3. PICK p : p = loc[t].parent
  OBVIOUS
<1>4. /\ i \in Counted /\ i \in Sound /\ own[i] = t /\ p = inodes[i] /\ p.kind = "Directory"
      /\ p.inumber = i
  BY <1>2, <1>3, Inside DEF Folder, Copy
<1>5. \E f \in EntriesOf(i) : f.name = NameOf(loc[t].path) /\ f.inumber = Victim(t)
  BY <1>2, VictimTyped DEF Source
<1>6. i # c
  BY <1>5 DEF Empties
<1>7. /\ loc'[t].parent = p /\ loc'[t].path = loc[t].path /\ inodes' = inodes
      /\ i \in Counted' /\ EntriesOf(i)' = EntriesOf(i)
  BY <1>3, <1>4, <1>6 DEF Empties, Dooms
<1>8. Source(t)' = Source(t)
  BY <1>3, <1>4, <1>7 DEF Source
<1>9. Victim(t)' = Victim(t)
  BY <1>7, <1>8 DEF Victim
<1>10. Folder(own, t, loc[t].parent)'
  BY <1>4, <1>7 DEF Folder, Copy
<1> QED BY <1>2, <1>4, <1>5, <1>6, <1>8, <1>9, <1>10

(* No more than what is being removed refers to an inode whose count is    *)
(* one.                                                                    *)
LastNamed(own, t, c) ==
  /\ c = Victim(t) /\ (Plain(own, t) \/ Followed(own, t))
  /\ \A j \in Sound : \A e \in EntriesOf(j) :
       e.inumber = c /\ Leads(own, j, c) =>
         j = loc[t].parent.inumber /\ e.name = NameOf(loc[t].path)
  /\ \A j \in Sound :
       ~(inodes[j].kind = "Hardlink" /\ TargetOf(j) = c /\ Leads(own, j, c))
LastReferred(own, t, c) ==
  /\ c = TargetOf(Victim(t)) /\ Refers(own, t)
  /\ \A j \in Sound : \A e \in EntriesOf(j) : ~(e.inumber = c /\ Leads(own, j, c))
  /\ \A j \in Sound :
       inodes[j].kind = "Hardlink" /\ TargetOf(j) = c /\ Leads(own, j, c) =>
         j = Victim(t)

(* So no entry and no hardlink but these leads to it.                      *)
LEMMA LastReference ==
  ASSUME Typed, NEW own \in Owners, Consistent(own), NEW t \in Tasks,
         NEW c, Empties(own, t, c), Countable
  PROVE  LastNamed(own, t, c) \/ LastReferred(own, t, c)
<1>1. PICK x, i, n : x = Victim(t) /\ i = loc[t].parent.inumber /\ n = NameOf(loc[t].path)
  OBVIOUS
<1>2. /\ c \in Counted \ {Root} /\ c \in INumbers /\ c \in Sound /\ own[c] = t
      /\ inodes[c].nlink = 1 /\ Due(own, t, c) /\ Given(t)
      /\ Removing(t) /\ op[t] = "unlink" /\ loc[t].child.inumber = c
  BY DEF Empties, Dooms
<1>3. /\ i \in Counted /\ own[i] = t
      /\ \E f \in EntriesOf(i) : f.name = n /\ f.inumber = x
  BY <1>1, EmptiesSource
<1>4. PICK f \in EntriesOf(i) : f.name = n /\ f.inumber = x
  BY <1>3
<1>5. Extra(own, c) = 0
  <2>1. c \notin loc[t].doomed
    <3>1. CASE c = x /\ Plain(own, t)
      BY <3>1 DEF Plain
    <3>2. CASE c = x /\ Followed(own, t)
      BY <1>1, <3>2 DEF Followed
    <3>3. CASE Refers(own, t)
      BY <3>3 DEF Refers
    <3> QED BY <1>1, <1>2, <3>1, <3>2, <3>3 DEF Due
  <2>2. ~Surplus(own, t, c)
    BY <1>2, <2>1 DEF Surplus
  <2> QED BY <1>2, <2>2, ExtraIs
<1>6. Cardinality(EntryRefs(own, c)) + Cardinality(LinkRefs(own, c)) = 1
  BY <1>2, <1>5 DEF Consistent, Shared, CountsRight
<1>7. IsFiniteSet(EntryRefs(own, c)) /\ IsFiniteSet(LinkRefs(own, c))
  BY RefsFinite
<1>8. ASSUME NEW j \in Sound, NEW e \in EntriesOf(j), e.inumber = c, Leads(own, j, c)
      PROVE  <<j, e>> \in EntryRefs(own, c)
  <2>1. j \in Counted
    <3>1. j \notin orphans \cup Born
      BY <1>8 DEF Consistent, Shared, BornOwned
    <3> QED BY <3>1 DEF Counted
  <2> QED BY <1>8, <2>1, RefsAre DEF Leads
<1>9. ASSUME NEW j \in Sound, inodes[j].kind = "Hardlink", TargetOf(j) = c,
             Leads(own, j, c)
      PROVE  j \in LinkRefs(own, c)
  <2>1. own[j] \in Tasks
    BY <1>9 DEF Consistent, Shared, NodesSound, NodeSound, HardlinkSound
  <2>2. own[j] = t
    BY <1>2, <1>9, <2>1, SharingAssumption DEF Leads
  <2>3. j \notin Born
    <3>1. ASSUME NEW u \in Tasks, j \in loc[u].born PROVE FALSE
      <4>1. u = t
        BY <2>2, <3>1 DEF Consistent, Shared, BornOwned
      <4>2. loc[t].born = {}
        BY DEF Empties, Dooms
      <4> QED BY <3>1, <4>1, <4>2
    <3> QED BY <3>1 DEF Born
  <2>4. j \notin orphans
    <3>1. "hardlink" \in Ops
      BY <1>9 DEF Consistent, Shared, ContentSound
    <3>2. "unlink" \in Ops /\ pc[t] # "idle"
      BY <1>2 DEF Given, Removing, Deleting
    <3> QED BY <2>2, <3>1, <3>2 DEF Consistent, Shared, BornOwned
  <2>5. j \in Counted
    BY <2>3, <2>4 DEF Counted
  <2> QED BY <1>2, <1>9, <2>2, <2>5, RefsAre
<1>10. ASSUME c = x, Plain(own, t) \/ Followed(own, t)
       PROVE  LastNamed(own, t, c)
  <2>1. PICK r : r = <<i, f>>
    OBVIOUS
  <2>2. r \in EntryRefs(own, c)
    BY <1>2, <1>3, <1>4, <1>10, <2>1, RefsAre
  <2>3. LinkRefs(own, c) = {} /\ \A b \in EntryRefs(own, c) : b = r
    BY <1>6, <1>7, <2>2, OneElement
  <2>4. ASSUME NEW j \in Sound, NEW e \in EntriesOf(j), e.inumber = c, Leads(own, j, c)
        PROVE  j = i /\ e.name = n
    <3>1. <<j, e>> = r
      BY <1>8, <2>3, <2>4
    <3>2. j = i /\ e = f
      BY <2>1, <3>1
    <3> QED BY <1>4, <3>2
  <2> QED BY <1>1, <1>9, <1>10, <2>3, <2>4 DEF LastNamed
<1>11. ASSUME c = TargetOf(x), Refers(own, t)
       PROVE  LastReferred(own, t, c)
  <2>1. x \in Sound /\ own[x] = t /\ inodes[x].kind = "Hardlink" /\ loc[t].doomed = {}
    BY <1>1, <1>11 DEF Refers, Mine
  <2>2. Leads(own, x, c)
    BY <1>2, <2>1 DEF Leads
  <2>3. x \in LinkRefs(own, c)
    BY <1>9, <1>11, <2>1, <2>2
  <2>4. EntryRefs(own, c) = {} /\ \A b \in LinkRefs(own, c) : b = x
    <3>1. Cardinality(LinkRefs(own, c)) + Cardinality(EntryRefs(own, c)) = 1
      BY <1>6, <1>7, FS_CardinalityType
    <3> QED BY <1>7, <2>3, <3>1, OneElement
  <2> QED BY <1>1, <1>8, <1>9, <1>11, <2>4 DEF LastReferred
<1> QED BY <1>1, <1>2, <1>10, <1>11 DEF Due

-----------------------------------------------------------------------------
(* Directories and counts without the inode that was freed.                *)

(* Every directory and link that is left leads where it should.            *)
LEMMA EmptiesNodes ==
  ASSUME Typed, Typed', NEW own \in Owners, Consistent(own), NEW t \in Tasks,
         NEW c, Empties(own, t, c), Countable
  PROVE  NodesSound(own)'
<1>1. PICK x, i, n : x = Victim(t) /\ i = loc[t].parent.inumber /\ n = NameOf(loc[t].path)
  OBVIOUS
<1>2. /\ Sound' = Sound \ {c} /\ Counted' = Counted \ {c} /\ inodes' = inodes
      /\ Dooms(own, t, c, "clear")
      /\ \A j \in Sound \ {c} : inodes[j].ext # None => disk'[inodes[j].ext] = disk[inodes[j].ext]
      /\ \A j \in Sound \ {c} : TargetOf(j)' = TargetOf(j)
      /\ Confined(own, own, t) /\ c \in Sound /\ own[c] = t
  BY DEF Empties
<1>3. Victim(t)' = x /\ loc'[t].parent.inumber = i /\ NameOf(loc'[t].path) = n
      /\ Removing(t)' /\ c \in loc'[t].doomed
  BY <1>1, <1>2, EmptiesSource DEF Dooms
<1>4. LastNamed(own, t, c) \/ LastReferred(own, t, c)
  BY LastReference
<1>5. ASSUME NEW j \in Sound', NEW e \in EntriesOf(j),
             (Leads(own, j, e.inumber) /\ e.inumber \notin Counted') \/ Excused(t, j, e)
      PROVE  Excused(t, j, e)'
  <2>1. CASE Excused(t, j, e)
    BY <1>2, <2>1, DoomsExcuse
  <2>2. CASE Leads(own, j, e.inumber) /\ e.inumber \notin Counted'
    <3>1. e.inumber = c /\ Leads(own, j, c) /\ j \in Sound
      BY <1>2, <2>2 DEF Leads
    <3>2. j = i /\ e.name = n
      BY <1>1, <1>4, <3>1 DEF LastNamed, LastReferred
    <3> QED BY <1>3, <3>1, <3>2 DEF Excused
  <2> QED BY <1>5, <2>1, <2>2
<1>6. ASSUME NEW j \in Sound', inodes[j].kind = "Hardlink",
             \/ Leads(own, j, TargetOf(j)) /\ TargetOf(j) \notin Counted'
             \/ ExcusedLink(own, t, j)
      PROVE  ExcusedLink(own, t, j)'
  <2>1. j \in Sound /\ j # c /\ TargetOf(j)' = TargetOf(j)
    BY <1>2
  <2>2. CASE ExcusedLink(own, t, j)
    <3>1. j = x /\ own[j] = t /\ TargetOf(j) \in loc'[t].doomed
      BY <1>1, <1>2, <2>2 DEF ExcusedLink, Dooms
    <3> QED BY <1>3, <2>1, <3>1 DEF ExcusedLink
  <2>3. CASE Leads(own, j, TargetOf(j)) /\ TargetOf(j) \notin Counted'
    <3>1. TargetOf(j) = c /\ Leads(own, j, c)
      BY <1>2, <2>3 DEF Leads
    <3>2. j = x /\ own[j] = t
      <4>1. j = x
        BY <1>1, <1>4, <1>6, <2>1, <3>1 DEF LastNamed, LastReferred
      <4>2. LastReferred(own, t, c)
        BY <1>4, <1>6, <2>1, <3>1 DEF LastNamed
      <4> QED BY <1>1, <4>1, <4>2 DEF LastReferred, Refers, Mine
    <3> QED BY <1>3, <2>1, <3>1, <3>2 DEF ExcusedLink
  <2> QED BY <1>6, <2>2, <2>3
<1>7. PICK X : X = {}
  OBVIOUS
<1>8. NodesMove(own, own, t, X)
  BY <1>2, <1>5, <1>6, <1>7 DEF NodesMove
<1> QED BY <1>2, <1>8, NodesKept

(* Every count that is left is right.                                      *)
LEMMA EmptiesCounts ==
  ASSUME Typed, Typed', NEW own \in Owners, Consistent(own), NEW t \in Tasks,
         NEW c, Empties(own, t, c)
  PROVE  CountsRight(own)'
<1>1. PICK x, y : x = Victim(t) /\ y = TargetOf(x)
  OBVIOUS
<1>2. /\ Sound' = Sound \ {c} /\ Counted' = Counted \ {c} /\ inodes' = inodes
      /\ Dooms(own, t, c, "clear") /\ Due(own, t, c) /\ EntriesOf(c) = {}
      /\ \A j \in Sound \ {c} : EntriesOf(j)' = EntriesOf(j) /\ TargetOf(j)' = TargetOf(j)
      /\ Confined(own, own, t) /\ c \in Sound /\ own[c] = t
  BY DEF Empties
<1>3. /\ Victim(t)' = x /\ loc'[t].doomed = loc[t].doomed \cup {c}
      /\ Removing(t)' /\ Removing(t) /\ op[t] = "unlink" /\ op'[t] = "unlink"
  BY <1>1, <1>2, EmptiesSource DEF Dooms
<1>4. Mine(own, t)' <=> (Mine(own, t) /\ x # c)
  BY <1>1, <1>2, <1>3 DEF Mine
<1>5. ASSUME NEW k \in Counted' \ {Root}, own[k] = t, Countable
      PROVE  CountRight(own, k)'
  <2>1. k \in Counted /\ k # c /\ k \in INumbers /\ inodes[k].nlink \in Nat
    BY <1>2, <1>5, Inside
  <2>2. CountRight(own, k)
    BY <1>5, <2>1 DEF Consistent, Shared, CountsRight, CountRight
  <2>3. EntryRefs(own, k)' = EntryRefs(own, k)
    <3>1. \A r : r \in EntryRefs(own, k)' <=> r \in EntryRefs(own, k)
      <4>1. \A j \in Counted \ {c} : EntriesOf(j)' = EntriesOf(j)
        BY <1>2, Inside
      <4> QED BY <1>2, <4>1, RefsAre, RefsAreNext
    <3> QED BY <3>1
  <2>4. LinkRefs(own, k)' = LinkRefs(own, k) \ {c}
    <3>1. \A j : j \in LinkRefs(own, k)' <=> j \in LinkRefs(own, k) \ {c}
      <4>1. \A j \in Counted \ {c} : TargetOf(j)' = TargetOf(j)
        BY <1>2, Inside
      <4> QED BY <1>2, <4>1, RefsAre, RefsAreNext
    <3> QED BY <3>1
  <2>5. ASSUME c = x, Followed(own, t)
        PROVE  CountRight(own, k)'
    <3>1. /\ Mine(own, t) /\ inodes[c].kind = "Hardlink" /\ TargetOf(c) = y
          /\ loc[t].doomed = {y}
      BY <1>1, <2>5 DEF Followed
    <3>2. Surplus(own, t, k) <=> k = y
      BY <1>3, <3>1 DEF Surplus
    <3>3. ~Surplus(own, t, k)'
      BY <1>3, <1>4, <2>5 DEF Surplus
    <3>4. Extra(own, k) = (IF k = y THEN 1 ELSE 0) /\ Extra(own, k)' = 0
      BY <1>5, <3>2, <3>3, ExtraIs, ExtraIsNext
    <3>5. IsFiniteSet(LinkRefs(own, k))
      BY RefsFinite
    <3>6. CASE k = y
      <4>1. c \in LinkRefs(own, k)
        BY <1>2, <1>5, <3>1, <3>6, RefsAre DEF Empties
      <4>2. /\ Cardinality(LinkRefs(own, k)') = Cardinality(LinkRefs(own, k)) - 1
            /\ Cardinality(LinkRefs(own, k)) \in Nat
            /\ Cardinality(EntryRefs(own, k)) \in Nat
        BY <2>4, <3>5, <4>1, RefsFinite, FS_RemoveElement, FS_CardinalityType
      <4>3. inodes[k].nlink + 1 = Cardinality(EntryRefs(own, k)) + Cardinality(LinkRefs(own, k))
        BY <2>2, <3>4, <3>6 DEF CountRight
      <4>4. inodes'[k].nlink + 0
              = Cardinality(EntryRefs(own, k)') + Cardinality(LinkRefs(own, k)')
        BY <1>2, <2>1, <2>3, <4>2, <4>3
      <4> QED BY <3>4, <4>4 DEF CountRight
    <3>7. CASE k # y
      <4>1. c \notin LinkRefs(own, k)
        BY <3>1, <3>7, RefsAre
      <4>2. LinkRefs(own, k)' = LinkRefs(own, k) /\ Extra(own, k) = 0
        BY <2>4, <3>4, <3>7, <4>1
      <4> QED BY <1>2, <2>2, <2>3, <3>4, <4>2 DEF CountRight
    <3> QED BY <3>6, <3>7
  <2>6. ASSUME inodes[c].kind # "Hardlink", loc[t].doomed = {}
        PROVE  CountRight(own, k)'
    <3>1. c \notin LinkRefs(own, k)
      BY <2>6, RefsAre
    <3>2. LinkRefs(own, k)' = LinkRefs(own, k)
      BY <2>4, <3>1
    <3>3. ~Surplus(own, t, k) /\ ~Surplus(own, t, k)'
      BY <1>3, <2>1, <2>6 DEF Surplus
    <3>4. Extra(own, k) = 0 /\ Extra(own, k)' = 0
      BY <1>5, <3>3, ExtraIs, ExtraIsNext
    <3> QED BY <1>2, <2>2, <2>3, <3>2, <3>4 DEF CountRight
  <2>7. CASE c = x /\ Plain(own, t)
    BY <1>1, <2>6, <2>7 DEF Plain
  <2>8. CASE c = y /\ Refers(own, t)
    BY <1>1, <2>6, <2>8 DEF Refers
  <2> QED BY <1>1, <1>2, <2>5, <2>7, <2>8 DEF Due
<1>6. Counted' \ Counted = {}
  BY <1>2
<1> QED BY <1>2, <1>5, <1>6, CountsKept

-----------------------------------------------------------------------------
(* Its extent is free; nobody else has it.                                 *)

(* Every extent that is left is its inode's own.                           *)
LEMMA EmptiesStorage ==
  ASSUME Typed, Typed', NEW own \in Owners, Consistent(own), NEW t \in Tasks,
         NEW c, Empties(own, t, c)
  PROVE  RootStands' /\ ContentSound' /\ ExtentsAccounted' /\ BornOwned(own)'
<1>1. PICK a : a = inodes[c].ext
  OBVIOUS
<1>2. /\ Sound' = Sound \ {c} /\ Counted' = Counted \ {c} /\ inodes' = inodes
      /\ c \in Counted \ {Root} /\ c \in Sound /\ Held' = Held /\ Born' = Born
      /\ lost' = lost /\ orphans' = orphans /\ used' = used \ {a}
      /\ Dooms(own, t, c, "clear")
      /\ \A i \in Sound \ {c} : inodes[i].ext # None =>
           /\ inodes[i].ext # a /\ inodes[i].ext \in used
           /\ disk'[inodes[i].ext] = disk[inodes[i].ext]
      /\ \A i \in Sound \ {c} : EntriesOf(i)' = EntriesOf(i)
  BY <1>1 DEF Empties
<1>3. RootStands'
  BY <1>2 DEF Consistent, Shared, RootStands
<1>4. ContentSound'
  BY <1>2 DEF Consistent, Shared, ContentSound
<1>5. /\ Others(t) /\ loc'[t].held = loc[t].held /\ loc'[t].born = loc[t].born
      /\ op[t] = "unlink" /\ Removing(t)' /\ Removing(t)
  BY <1>2 DEF Dooms
<1>6. ExtentsAccounted'
  <2>1. a \notin lost \cup Held \/ a = None
    BY <1>1, <1>2 DEF Consistent, Shared, ContentSound
  <2>2. None \notin used
    <3>1. used \subseteq Extents
      BY DEF Typed, StateTyped
    <3> QED BY <3>1, Inside
  <2>3. lost' \cup Held' \subseteq used' /\ lost' \cap Held' = {}
    BY <1>2, <2>1, <2>2 DEF Consistent, Shared, ExtentsAccounted
  <2>4. \A u, v \in Tasks : u # v => loc'[u].held \cap loc'[v].held = {}
    BY <1>5 DEF Others, Consistent, Shared, ExtentsAccounted
  <2>5. used' \subseteq lost' \cup Held' \cup {inodes'[i].ext : i \in Sound'}
    BY <1>1, <1>2 DEF Consistent, Shared, ExtentsAccounted
  <2> QED BY <2>3, <2>4, <2>5 DEF ExtentsAccounted
<1>7. BornOwned(own)'
  <2>1. \A u \in Tasks : loc'[u].born = loc[u].born
    BY <1>5 DEF Others
  <2>2. c \notin orphans \cup Born
    BY <1>2 DEF Counted
  <2>3. orphans \cup Born \subseteq Sound
    BY DEF Born, Consistent, Shared, BornOwned
  <2>4. \A i \in orphans \cup Born : EntriesOf(i)' = {}
    BY <1>2, <2>2, <2>3 DEF Consistent, Shared, BornOwned
  <2>5. \A u \in Tasks : \A i \in loc'[u].born : i \in Sound' /\ own[i] = u
    <3>1. \A u \in Tasks : \A i \in loc[u].born : i \in Born
      BY DEF Born
    <3> QED BY <1>2, <2>1, <2>2, <3>1 DEF Consistent, Shared, BornOwned
  <2>6. ASSUME {"hardlink", "unlink"} \subseteq Ops, NEW i \in orphans, NEW u \in Tasks,
               own[i] = u
        PROVE  pc'[u] = "idle"
    <3>1. pc[u] = "idle"
      BY <2>6 DEF Consistent, Shared, BornOwned
    <3>2. u # t
      BY <1>5, <3>1 DEF Removing, Deleting
    <3> QED BY <1>5, <3>1, <3>2 DEF Others
  <2>7. orphans' \subseteq Sound' /\ orphans' \cap Born' = {}
    BY <1>2, <2>2, <2>3 DEF Consistent, Shared, BornOwned
  <2> QED BY <1>2, <2>4, <2>5, <2>6, <2>7 DEF BornOwned
<1> QED BY <1>3, <1>4, <1>6, <1>7

(* An inode to be removed is freed when nothing else refers to it.         *)
LEMMA FreeINodeSound ==
  ASSUME Typed, Typed', NEW own \in Owners, Consistent(own), NEW t \in Tasks,
         FreeINode(t), Removals
  PROVE  Consistent(own)'
<1>1. PICK c, x : c = loc[t].child.inumber /\ x = Victim(t)
  OBVIOUS
<1>2. Empties(own, t, c)
  BY <1>1, EmptiesWhen
<1>3. /\ Confined(own, own, t) /\ Dooms(own, t, c, "clear") /\ Due(own, t, c)
      /\ Unlinking(own, t) /\ Given(t) /\ bits' = bits /\ guard' = guard
      /\ Sound' = Sound \ {c} /\ inodes' = inodes /\ c \in Sound /\ own[c] = t
      /\ \A i \in Sound \ {c} : TargetOf(i)' = TargetOf(i)
  BY <1>2 DEF Empties
<1>4. /\ Others(t) /\ pc'[t] = "clear" /\ op'[t] = op[t] /\ op[t] = "unlink"
      /\ loc'[t].path = loc[t].path /\ loc'[t].dest = loc[t].dest
      /\ loc'[t].body = loc[t].body /\ Removing(t) /\ Removing(t)'
      /\ loc'[t].doomed = loc[t].doomed \cup {c} /\ loc'[t].stack = loc[t].stack
  BY <1>3 DEF Dooms
<1>5. pc[t] = "free"
  BY DEF FreeINode
<1>6. Countable
  BY <1>3, <1>4, <1>5 DEF Given, Removals
<1>7. NodesSound(own)' /\ CountsRight(own)'
  BY <1>2, <1>6, EmptiesNodes, EmptiesCounts
<1>8. RootStands' /\ ContentSound' /\ ExtentsAccounted' /\ BornOwned(own)'
  BY <1>2, EmptiesStorage
<1>9. RootOwned(own)'
  BY <1>3, RootKept
<1>10. Guarded'
  BY <1>3, <1>4, <1>5, GuardKept DEF Registering
<1>11. Given(t)'
  BY <1>3, <1>4, <1>5, GivenKept
<1>12. /\ Source(t)' = Source(t) /\ Victim(t)' = Victim(t) /\ x \in INumbers
       /\ Folder(own, t, loc[t].parent)'
  BY <1>1, <1>2, EmptiesSource
<1>13. \/ loc[t].stack = <<>> /\ c = x
       \/ loc[t].stack = <<x>> /\ Followed(own, t)' /\ c = TargetOf(x)'
  <2>1. CASE loc[t].stack = <<>> /\ c = x
    BY <2>1
  <2>2. CASE loc[t].stack = <<x>> /\ Refers(own, t) /\ c = TargetOf(x)
    <3>1. /\ x \in Sound /\ own[x] = t /\ inodes[x].kind = "Hardlink" /\ x # c
          /\ loc[t].doomed = {}
      BY <1>1, <2>2 DEF Refers, Mine
    <3>2. TargetOf(x)' = c /\ x \in Sound'
      BY <1>3, <2>2, <3>1
    <3>3. Victim(t)' = x /\ loc'[t].doomed = {c}
      BY <1>1, <1>4, <1>12, <3>1
    <3>4. Mine(own, t)'
      BY <3>1, <3>2, <3>3 DEF Mine
    <3>5. Followed(own, t)'
      BY <1>3, <3>1, <3>2, <3>3, <3>4 DEF Followed
    <3> QED BY <2>2, <3>2, <3>5
  <2> QED BY <1>1, <1>3, <2>1, <2>2 DEF Due
<1>14. c \in bits'
  BY <1>3, Inside
<1>15. Unlinking(own, t)'
  <2>1. "clear" = "clear" =>
           /\ loc[t].child.inumber = c /\ c \in bits' /\ own[c] = t
           /\ \/ loc[t].stack = <<>> /\ c = Victim(t)
              \/ /\ loc[t].stack = <<Victim(t)>> /\ Followed(own, t)'
                 /\ c = TargetOf(Victim(t))'
    <3>1. TargetOf(x)' = TargetOf(Victim(t))'
      BY <1>1, <1>12
    <3> QED BY <1>1, <1>3, <1>13, <1>14, <3>1
  <2> QED BY <1>3, <1>12, <2>1, DoomedStage
<1>16. TaskSound(own, t)'
  BY <1>4, <1>11, <1>15 DEF TaskSound, Walks, Creating, Linking
<1>17. \A u \in Tasks : TaskSound(own, u)'
  BY <1>3, <1>16, AllSound
<1> QED BY <1>7, <1>8, <1>9, <1>10, <1>17 DEF Consistent, Shared

-----------------------------------------------------------------------------
(* Then the bit of the inode is cleared.                                   *)

(* The bit goes of an inode that was emptied before: nothing else changes. *)
Clearing(own, t, c) ==
  /\ pc[t] = "clear" /\ pc'[t] = "delete" /\ loc'[t] = loc[t] /\ op'[t] = op[t]
  /\ c = loc[t].child.inumber /\ c \in INumbers /\ own[c] = t
  /\ bits' = bits \ {c} /\ Others(t)
  /\ UNCHANGED <<inodes, used, disk, guard, lost, orphans>>
  /\ Removing(t) /\ Removing(t)'

LEMMA ClearingWhen ==
  ASSUME Typed, NEW own \in Owners, Consistent(own), NEW t \in Tasks,
         ClearBit(t), Intact'
  PROVE  Clearing(own, t, loc[t].child.inumber)
<1>1. PICK c : c = loc[t].child.inumber
  OBVIOUS
<1>2. pc[t] = "clear"
  BY DEF ClearBit
<1>3. /\ op[t] = "unlink" /\ Removing(t) /\ Unlinking(own, t)
  BY <1>2, UnlinkingIs DEF Deleting
<1>4. c \in bits /\ own[c] = t
  BY <1>1, <1>2, <1>3 DEF Unlinking
<1>5. c \in INumbers
  BY <1>4, Inside
<1>6. /\ WriteBitmap(c, loc[t].snap \ {c}) /\ Clobber(t, c)
      /\ Moves(t, "delete", loc[t])
      /\ UNCHANGED <<inodes, used, disk, guard, op, lost, orphans>>
  BY <1>1, ClearBitSteps
<1>7. bits' \ {c} = bits \ {c}
  BY <1>6, WrittenBitmap DEF Intact
<1>8. c \notin bits'
  BY <1>5, <1>6, GroupsCover DEF WriteBitmap
<1>9. bits' = bits \ {c}
  BY <1>7, <1>8
<1>10. Others(t) /\ pc'[t] = "delete" /\ loc'[t] = loc[t] /\ op'[t] = op[t]
  BY <1>6 DEF Moves, Others, Typed, StateTyped
<1>11. Removing(t)'
  BY <1>3, <1>10 DEF Removing, Deleting
<1> QED BY <1>1, <1>2, <1>3, <1>4, <1>5, <1>6, <1>9, <1>10, <1>11 DEF Clearing

LEMMA ClearingStays ==
  ASSUME Typed, NEW own \in Owners, Consistent(own), NEW t \in Tasks, NEW c,
         Clearing(own, t, c)
  PROVE  /\ Stays /\ Held' = Held /\ Born' = Born /\ c \notin Sound
         /\ Confined(own, own, t)
<1>1. /\ pc[t] = "clear" /\ pc'[t] = "delete" /\ loc'[t] = loc[t]
      /\ c = loc[t].child.inumber /\ own[c] = t /\ bits' = bits \ {c} /\ Others(t)
      /\ inodes' = inodes /\ disk' = disk /\ orphans' = orphans
  BY DEF Clearing
<1>2. \A u \in Tasks \ {t} : pc[u] = "clear" =>
        loc[u].child.inumber \in bits /\ own[loc[u].child.inumber] = u
  <2>1. ASSUME NEW u \in Tasks \ {t}, pc[u] = "clear"
        PROVE  loc[u].child.inumber \in bits /\ own[loc[u].child.inumber] = u
    <3>1. Unlinking(own, u)
      BY <2>1, UnlinkingIs DEF Deleting
    <3> QED BY <2>1, <3>1 DEF Unlinking
  <2> QED BY <2>1
<1>3. c \notin ClearsElse(t)
  BY <1>1, <1>2 DEF ClearsElse
<1>4. /\ Held' = Held /\ Born' = Born
      /\ Emptied = {c} \cup ClearsElse(t) /\ Emptied' = ClearsElse(t)
  <2>1. Clears(t) = {c} /\ Clears(t)' = {}
    BY <1>1 DEF Clears
  <2> QED BY <1>1, <2>1, Parts, PartsNext
<1>5. Sound' = Sound /\ c \notin Sound
  BY <1>1, <1>3, <1>4 DEF Sound
<1>6. Counted' = Counted
  BY <1>1, <1>4, <1>5 DEF Counted
<1>7. Stays
  BY <1>1, <1>5, <1>6 DEF Stays
<1>8. \A u \in Tasks \ {t} : pc[u] = "born" => loc[u].inum \notin bits
  <2>1. ASSUME NEW u \in Tasks \ {t}, pc[u] = "born" PROVE loc[u].inum \notin bits
    <3>1. Making(own, u)
      BY <2>1 DEF Consistent, TaskSound
    <3> QED BY <2>1, <3>1 DEF Making
  <2> QED BY <2>1
<1>9. Confined(own, own, t)
  BY <1>1, <1>2, <1>5, <1>6, <1>8 DEF Confined
<1> QED BY <1>4, <1>5, <1>7, <1>9

(* The volume stays consistent: the inode was not sound before.            *)
LEMMA ClearBitSound ==
  ASSUME Typed, Typed', NEW own \in Owners, Consistent(own), NEW t \in Tasks,
         ClearBit(t), Intact'
  PROVE  Consistent(own)'
<1>1. PICK c, x : c = loc[t].child.inumber /\ x = Victim(t)
  OBVIOUS
<1>2. Clearing(own, t, c)
  BY <1>1, ClearingWhen
<1>3. /\ Stays /\ Held' = Held /\ Born' = Born /\ c \notin Sound
      /\ Confined(own, own, t)
  BY <1>2, ClearingStays
<1>4. /\ pc[t] = "clear" /\ pc'[t] = "delete" /\ loc'[t] = loc[t] /\ op'[t] = op[t]
      /\ Others(t) /\ used' = used /\ disk' = disk /\ guard' = guard /\ lost' = lost
      /\ orphans' = orphans /\ inodes' = inodes /\ Removing(t) /\ Removing(t)'
  BY <1>2 DEF Clearing
<1>5. /\ Unlinking(own, t) /\ Given(t) /\ op[t] = "unlink"
      /\ Folder(own, t, loc[t].parent) /\ Binds(Source(t), NameOf(loc[t].path))
      /\ loc[t].stack \in Seq(INumbers)
  BY <1>4, UnlinkingIs
<1>6. /\ Source(t)' = Source(t) /\ Victim(t)' = x
      /\ Folder(own, t, loc[t].parent)'
      /\ Mine(own, t)' <=> Mine(own, t)
      /\ Followed(own, t)' <=> Followed(own, t)
      /\ Aside(own, t)
  BY <1>1, <1>3, <1>4, <1>5, RemovalStays
<1>7. RootStands' /\ RootOwned(own)' /\ NodesSound(own)' /\ CountsRight(own)'
  BY <1>3, <1>6, SharedKept DEF Stays
<1>8. ContentSound'
  BY <1>3, <1>4 DEF Stays, Consistent, Shared, ContentSound
<1>9. \A u \in Tasks : loc'[u] = loc[u]
  BY <1>4 DEF Others
<1>10. ExtentsAccounted'
  BY <1>3, <1>4, <1>9 DEF Stays, Consistent, Shared, ExtentsAccounted
<1>11. BornOwned(own)'
  <2>1. \A i \in Sound : EntriesOf(i)' = EntriesOf(i)
    BY <1>3, StaysFacts
  <2>2. Sound' = Sound /\ \A u \in Tasks : pc[u] = "idle" => pc'[u] = "idle"
    BY <1>3, <1>4 DEF Stays, Others
  <2>3. orphans \cup Born \subseteq Sound
    BY DEF Born, Consistent, Shared, BornOwned
  <2> QED BY <1>3, <1>4, <1>9, <2>1, <2>2, <2>3 DEF Consistent, Shared, BornOwned
<1>12. Guarded'
  BY <1>4, GuardKept DEF Registering
<1>13. Given(t)'
  BY <1>4, <1>5, GivenKept
<1>14. /\ c \in loc[t].doomed
       /\ \/ loc[t].stack = <<>> /\ c = x
          \/ loc[t].stack = <<x>> /\ Followed(own, t)
  BY <1>1, <1>4, <1>5 DEF Unlinking
<1>15. \/ loc'[t].stack = <<x>> /\ Followed(own, t)'
       \/ loc'[t].stack = <<>> /\ Spared(own, t)'
  <2>1. CASE loc[t].stack = <<>> /\ c = x
    <3>1. ~Mine(own, t)
      BY <1>1, <1>3, <2>1 DEF Mine
    <3>2. Spared(own, t)'
      BY <1>4, <1>6, <1>14, <2>1, <3>1 DEF Spared
    <3> QED BY <1>4, <2>1, <3>2
  <2> QED BY <1>4, <1>6, <1>14, <2>1
<1>16. Unlinking(own, t)'
  <2>1. Editing(own, t)'
    BY <1>4, <1>6 DEF Editing
  <2>2. loc'[t].born = {} /\ Alone(t)' /\ loc'[t].held = {}
        /\ Binds(Source(t)', NameOf(loc'[t].path))
        /\ loc'[t].dir = Without(Source(t)', NameOf(loc'[t].path))
    BY <1>4, <1>5, <1>6 DEF Unlinking, Alone
  <2> QED BY <1>4, <1>6, <1>15, <2>1, <2>2 DEF Unlinking
<1>17. TaskSound(own, t)'
  BY <1>4, <1>5, <1>13, <1>16 DEF TaskSound, Walks, Creating, Linking
<1>18. \A u \in Tasks : TaskSound(own, u)'
  BY <1>3, <1>17, AllSound
<1> QED BY <1>7, <1>8, <1>10, <1>11, <1>12, <1>18 DEF Consistent, Shared

-----------------------------------------------------------------------------
(* Crashes and cancelled calls. They stop some tasks where they are: what  *)
(* those hold is lost, what they have begun is in no directory.            *)

(* The tasks in S are stopped and none was deleting.                       *)
Stopped(own, S) ==
  /\ \A u \in S : /\ pc'[u] = "idle" /\ op'[u] = "ls" /\ loc'[u] = Idle
                  /\ loc[u].doomed = {} /\ pc[u] # "clear"
  /\ \A u \in Tasks \ S : pc'[u] = pc[u] /\ op'[u] = op[u] /\ loc'[u] = loc[u]
  /\ lost' = lost \cup UNION {loc[t].held : t \in S}
  /\ orphans' = orphans \cup UNION {loc[t].born : t \in S}
  /\ guard' = DropGuard(S)
  /\ UNCHANGED <<bits, inodes, used, disk>>
  /\ MaxCrashes # 0 \/ S = {}

LEMMA StoppedWhen ==
  ASSUME Typed, NEW own \in Owners, Consistent(own), NEW S \in SUBSET Tasks,
         Stop(S), Intact'
  PROVE  Stopped(own, S)
<1>1. /\ crashes < MaxCrashes
      /\ guard' = DropGuard(S)
      /\ \A u \in S : pc'[u] = "idle" /\ op'[u] = "ls" /\ loc'[u] = Idle
      /\ \A u \in Tasks \ S : pc'[u] = pc[u] /\ op'[u] = op[u] /\ loc'[u] = loc[u]
      /\ lost' = lost \cup UNION {loc[t].held : t \in S}
      /\ orphans' = orphans \cup UNION {loc[t].born : t \in S}
      /\ doomed' = doomed \cup UNION {loc[t].doomed : t \in S}
      /\ UNCHANGED <<bits, inodes, used, disk, clobbered>>
  BY StopSteps
<1>2. ASSUME NEW u \in S
      PROVE  loc[u].doomed = {} /\ pc[u] # "clear"
  <2>1. loc[u].doomed = {}
    BY <1>1 DEF Intact
  <2>2. ASSUME pc[u] = "clear" PROVE FALSE
    <3>1. Unlinking(own, u)
      BY <2>2, UnlinkingIs DEF Deleting
    <3> QED BY <2>1, <2>2, <3>1 DEF Unlinking
  <2> QED BY <2>1, <2>2
<1>3. MaxCrashes # 0
  BY <1>1 DEF Typed, StateTyped
<1> QED BY <1>1, <1>2, <1>3 DEF Stopped

LEMMA StoppedParts ==
  ASSUME Typed, NEW own \in Owners, Consistent(own), NEW S \in SUBSET Tasks,
         Stopped(own, S)
  PROVE  /\ Sound' = Sound /\ Counted' = Counted
         /\ Held' \cup lost' = Held \cup lost
         /\ Born' = UNION {loc[u].born : u \in Tasks \ S}
         /\ Held' = UNION {loc[u].held : u \in Tasks \ S}
         /\ \A i : EntriesOf(i)' = EntriesOf(i) /\ TargetOf(i)' = TargetOf(i)
<1>1. \A u \in S : loc'[u].held = {} /\ loc'[u].born = {}
  BY DEF Stopped, Idle
<1>2. \A u \in Tasks \ S : loc'[u] = loc[u] /\ pc'[u] = pc[u]
  BY DEF Stopped
<1>3. Born' = UNION {loc[u].born : u \in Tasks \ S}
  BY <1>1, <1>2 DEF Born
<1>4. Held' = UNION {loc[u].held : u \in Tasks \ S}
  BY <1>1, <1>2 DEF Held
<1>5. Emptied' = Emptied
  <2>1. {u \in Tasks : pc'[u] = "clear"} = {u \in Tasks : pc[u] = "clear"}
    BY <1>2 DEF Stopped
  <2>2. \A u \in {v \in Tasks : pc[v] = "clear"} : loc'[u] = loc[u]
    BY <1>2 DEF Stopped
  <2> QED BY <2>1, <2>2 DEF Emptied
<1>6. Sound' = Sound
  BY <1>5 DEF Sound, Stopped
<1>7. Held' \cup lost' = Held \cup lost
  BY <1>4 DEF Held, Stopped
<1>8. Born' \cup orphans' = Born \cup orphans
  BY <1>3 DEF Born, Stopped
<1>9. Counted' = Counted
  BY <1>6, <1>8 DEF Counted
<1>10. \A i : EntriesOf(i)' = EntriesOf(i) /\ TargetOf(i)' = TargetOf(i)
  BY DEF EntriesOf, TargetOf, Bytes, Stopped
<1> QED BY <1>3, <1>4, <1>6, <1>7, <1>9, <1>10

(* What goes on is framed: those that are stopped changed nothing.         *)
LEMMA StoppedFrame ==
  ASSUME Typed, NEW own \in Owners, Consistent(own), NEW S \in SUBSET Tasks,
         Stopped(own, S), NEW u \in Tasks \ S
  PROVE  Frame(own, own, u)
<1>1. /\ pc'[u] = pc[u] /\ op'[u] = op[u] /\ loc'[u] = loc[u]
      /\ UNCHANGED <<bits, inodes, used, disk>>
  BY DEF Stopped
<1>2. /\ Sound' = Sound /\ Counted' = Counted
      /\ \A i : EntriesOf(i)' = EntriesOf(i) /\ TargetOf(i)' = TargetOf(i)
  BY StoppedParts
<1>3. \A i : /\ Bytes(inodes[i].ext)' = Bytes(inodes[i].ext)
             /\ Removable(inodes[i])' <=> Removable(inodes[i])
  BY <1>1 DEF Bytes, Removable
<1>4. pc[u] = "born" => loc[u].inum \notin bits
  BY DEF Consistent, TaskSound, Making
<1>5. ASSUME pc[u] = "clear" PROVE loc[u].child.inumber \in bits
  <2>1. Unlinking(own, u)
    BY <1>5, UnlinkingIs DEF Deleting
  <2> QED BY <1>5, <2>1 DEF Unlinking
<1> QED BY <1>1, <1>2, <1>3, <1>4, <1>5 DEF Frame

LEMMA StoppedAside ==
  ASSUME Typed, NEW own \in Owners, Consistent(own), NEW S \in SUBSET Tasks,
         Stopped(own, S)
  PROVE  /\ \A u \in Tasks : \A i, e : Excused(u, i, e) => Excused(u, i, e)'
         /\ \A u \in Tasks : \A i \in Sound :
              ExcusedLink(own, u, i) => ExcusedLink(own, u, i)'
         /\ Countable => \A u \in Tasks : \A i :
              Surplus(own, u, i)' <=> Surplus(own, u, i)
<1>1. \A u \in Tasks \ S :
        /\ \A i, e : Excused(u, i, e)' <=> Excused(u, i, e)
        /\ \A i \in Sound : ExcusedLink(own, u, i) => ExcusedLink(own, u, i)'
        /\ \A i : Surplus(own, u, i)' <=> Surplus(own, u, i)
  BY StoppedFrame, FramedAside
<1>2. \A u \in S : loc[u].doomed = {} /\ op'[u] = "ls"
  BY DEF Stopped
<1>3. \A u \in S : /\ \A i, e : ~Excused(u, i, e)
                   /\ \A i : ~ExcusedLink(own, u, i)
                   /\ \A i : ~Surplus(own, u, i)'
  BY <1>2 DEF Excused, ExcusedLink, Surplus, Removing
<1>4. ASSUME Countable, NEW u \in S, NEW i
      PROVE  ~Surplus(own, u, i)
  <2>1. {"move", "hardlink"} \cap Ops = {}
    BY <1>4 DEF Countable, Stopped
  <2>2. pc[u] # "idle" => op[u] \in Ops
    BY DEF Consistent, TaskSound, Given
  <2> QED BY <1>2, <2>1, <2>2 DEF Surplus
<1> QED BY <1>1, <1>3, <1>4

-----------------------------------------------------------------------------
(* The volume after tasks were stopped, none of them in a deletion.        *)

LEMMA StoppedCounts ==
  ASSUME Typed, NEW own \in Owners, Consistent(own), NEW S \in SUBSET Tasks,
         Stopped(own, S)
  PROVE  CountsRight(own)'
<1>1. /\ Sound' = Sound /\ Counted' = Counted /\ inodes' = inodes
      /\ \A i : EntriesOf(i)' = EntriesOf(i) /\ TargetOf(i)' = TargetOf(i)
  BY StoppedParts DEF Stopped
<1>2. ASSUME Countable, NEW i \in Counted \ {Root}
      PROVE  CountRight(own, i)'
  <2>1. \A u \in Tasks : Surplus(own, u, i)' <=> Surplus(own, u, i)
    BY <1>2, StoppedAside
  <2>2. Extra(own, i)' = Extra(own, i)
    BY <2>1 DEF Extra
  <2>3. EntryRefs(own, i)' = EntryRefs(own, i) /\ LinkRefs(own, i)' = LinkRefs(own, i)
    BY <1>1, <1>2, RefsSame
  <2>4. CountRight(own, i)
    BY <1>2 DEF Consistent, Shared, CountsRight, CountRight
  <2> QED BY <1>1, <2>2, <2>3, <2>4 DEF CountRight
<1> QED BY <1>1, <1>2 DEF CountsRight, CountRight

LEMMA StoppedNodes ==
  ASSUME Typed, NEW own \in Owners, Consistent(own), NEW S \in SUBSET Tasks,
         Stopped(own, S)
  PROVE  NodesSound(own)'
<1>1. /\ Sound' = Sound /\ Counted' = Counted /\ inodes' = inodes /\ disk' = disk
      /\ \A i : EntriesOf(i)' = EntriesOf(i) /\ TargetOf(i)' = TargetOf(i)
  BY StoppedParts DEF Stopped
<1>2. /\ \A u \in Tasks : \A i, e : Excused(u, i, e) => Excused(u, i, e)'
      /\ \A u \in Tasks : \A i \in Sound :
           ExcusedLink(own, u, i) => ExcusedLink(own, u, i)'
  BY StoppedAside
<1>3. \A i, j : Leads(own, i, j) => Leads(own, i, j)'
  BY <1>1 DEF Leads
<1>4. ASSUME NEW i \in Sound
      PROVE  NodeSound(own, i)'
  <2>1. NodeSound(own, i)
    BY <1>4 DEF Consistent, Shared, NodesSound
  <2>2. DirectorySound(own, i)'
    BY <1>1, <1>2, <1>3, <2>1 DEF NodeSound, DirectorySound
  <2>3. HardlinkSound(own, i)'
    <3>1. Leads(own, i, TargetOf(i)) => Leads(own, i, TargetOf(i))'
      BY <1>1, <1>3 DEF Leads
    <3> QED BY <1>1, <1>2, <1>4, <2>1, <3>1 DEF NodeSound, HardlinkSound
  <2>4. SymlinkSound(own, i)'
    BY <1>1, <2>1 DEF NodeSound, SymlinkSound, Homely
  <2> QED BY <2>2, <2>3, <2>4 DEF NodeSound
<1> QED BY <1>1, <1>4 DEF NodesSound

LEMMA StoppedBorn ==
  ASSUME Typed, NEW own \in Owners, Consistent(own), NEW S \in SUBSET Tasks,
         Stopped(own, S)
  PROVE  BornOwned(own)'
<1>1. /\ Sound' = Sound /\ Born' = UNION {loc[u].born : u \in Tasks \ S}
      /\ orphans' = orphans \cup UNION {loc[u].born : u \in S}
      /\ \A i : EntriesOf(i)' = EntriesOf(i)
      /\ \A u \in S : loc'[u].born = {} /\ pc'[u] = "idle"
      /\ \A u \in Tasks \ S : loc'[u] = loc[u] /\ pc'[u] = pc[u]
  <2>1. Idle.born = {}
    BY DEF Idle
  <2> QED BY <2>1, StoppedParts DEF Stopped
<1>2. /\ \A u \in Tasks : \A i \in loc[u].born : i \in Sound /\ own[i] = u
      /\ orphans \subseteq Sound /\ orphans \cap Born = {}
      /\ \A i \in orphans \cup Born : EntriesOf(i) = {}
      /\ {"hardlink", "unlink"} \subseteq Ops =>
           \A i \in orphans : \A u \in Tasks : own[i] = u => pc[u] = "idle"
  BY DEF Consistent, Shared, BornOwned
<1>3. \A u \in Tasks : loc[u].born \subseteq Born
  BY DEF Born
<1>4. \A u \in Tasks : \A i \in loc'[u].born : i \in Sound' /\ own[i] = u
  BY <1>1, <1>2
<1>5. orphans' \subseteq Sound'
  BY <1>1, <1>2
<1>6. orphans' \cap Born' = {}
  BY <1>1, <1>2, <1>3
<1>7. \A i \in orphans' \cup Born' : EntriesOf(i)' = {}
  <2>1. orphans' \cup Born' \subseteq orphans \cup Born
    BY <1>1, <1>3
  <2> QED BY <1>1, <1>2, <2>1
<1>8. ASSUME {"hardlink", "unlink"} \subseteq Ops, NEW i \in orphans', NEW u \in Tasks,
             own[i] = u
      PROVE  pc'[u] = "idle"
  <2>1. CASE i \in orphans
    BY <1>1, <1>2, <1>8, <2>1
  <2>2. CASE i \in UNION {loc[v].born : v \in S}
    BY <1>1, <1>2, <1>8, <2>2
  <2> QED BY <1>1, <1>8, <2>1, <2>2
<1> QED BY <1>4, <1>5, <1>6, <1>7, <1>8 DEF BornOwned

(* So the volume is consistent.                                            *)
LEMMA StoppedSound ==
  ASSUME Typed, NEW own \in Owners, Consistent(own), NEW S \in SUBSET Tasks,
         Stopped(own, S)
  PROVE  Consistent(own)'
<1>1. Stopped(own, S)
  OBVIOUS
<1>2. /\ Sound' = Sound /\ Counted' = Counted
      /\ Held' \cup lost' = Held \cup lost
      /\ Held' = UNION {loc[u].held : u \in Tasks \ S}
      /\ lost' = lost \cup UNION {loc[u].held : u \in S}
      /\ \A i : EntriesOf(i)' = EntriesOf(i)
      /\ inodes' = inodes /\ disk' = disk /\ used' = used /\ guard' = DropGuard(S)
      /\ \A u \in S : pc'[u] = "idle" /\ op'[u] = "ls" /\ loc'[u] = Idle
      /\ \A u \in Tasks \ S : pc'[u] = pc[u] /\ loc'[u] = loc[u]
  BY <1>1, StoppedParts DEF Stopped
<1>3. NodesSound(own)' /\ CountsRight(own)' /\ BornOwned(own)'
  BY <1>1, StoppedNodes, StoppedCounts, StoppedBorn
<1>4. RootStands'
  BY <1>2 DEF Consistent, Shared, RootStands
<1>5. ContentSound'
  BY <1>2 DEF Consistent, Shared, ContentSound
<1>6. ExtentsAccounted'
  <2>1. /\ lost \cup Held \subseteq used /\ lost \cap Held = {}
        /\ \A t, u \in Tasks : t # u => loc[t].held \cap loc[u].held = {}
        /\ used \subseteq lost \cup Held \cup {inodes[i].ext : i \in Sound}
    BY DEF Consistent, Shared, ExtentsAccounted
  <2>2. \A u \in Tasks : loc[u].held \subseteq Held
    BY DEF Held
  <2>3. lost' \cap Held' = {}
    BY <1>2, <2>1, <2>2
  <2>4. \A u \in Tasks : loc'[u].held \in {loc[u].held, {}}
    BY <1>2 DEF Idle
  <2>5. \A t, u \in Tasks : t # u => loc'[t].held \cap loc'[u].held = {}
    BY <2>1, <2>4
  <2>6. used' \subseteq lost' \cup Held' \cup {inodes'[i].ext : i \in Sound'}
    BY <1>2, <2>1
  <2> QED BY <1>2, <2>1, <2>3, <2>5, <2>6 DEF ExtentsAccounted
<1>7. Guarded'
  <2>1. Guarded
    BY DEF Consistent, Shared
  <2> QED BY <1>2, <2>1, SharingAssumption DEF Guarded, DropGuard
<1>8. RootOwned(own)'
  BY <1>2 DEF Consistent, Shared, RootOwned
<1>9. ASSUME NEW u \in Tasks PROVE TaskSound(own, u)'
  <2>1. CASE u \in S
    BY <1>2, <2>1, IdleSound
  <2>2. CASE u \notin S
    BY <1>1, <2>2, StoppedFrame, FramedSound
  <2> QED BY <2>1, <2>2
<1> QED BY <1>3, <1>4, <1>5, <1>6, <1>7, <1>8, <1>9 DEF Consistent, Shared

(* A crash or a cancelled call in which no deletion is cut.                *)
LEMMA StopSound ==
  ASSUME Typed, NEW own \in Owners, Consistent(own), NEW S \in SUBSET Tasks,
         Stop(S), Intact'
  PROVE  Consistent(own)'
BY StoppedWhen, StoppedSound

LEMMA StutterSound ==
  ASSUME Typed, NEW own \in Owners, Consistent(own), UNCHANGED vars
  PROVE  Consistent(own)'
<1>1. Stopped(own, {})
  BY DEF Stopped, vars, DropGuard
<1> QED BY <1>1, StoppedSound

-----------------------------------------------------------------------------
(* An operation begins, with a path that begins in the caller's directory. *)

(* What a write is given to write is a body.                               *)
LEMMA BodyGiven ==
  ASSUME Typed, NEW t \in Tasks, Begin(t), op'[t] = "write"
  PROVE  loc'[t].body \in Bodies
<1>1. ASSUME NEW o, NEW label, NEW args, Start(t, o, label, args)
      PROVE  op'[t] = o /\ loc'[t] = args
  BY <1>1 DEF Start, Typed, StateTyped
<1>2. CASE StartWrite(t)
  <2>1. PICK p \in Created(t), x \in Bodies :
          Start(t, "write", "parent",
                Toward(ParentOf(p), [Idle EXCEPT !.path = p, !.body = x]))
    BY <1>2 DEF StartWrite
  <2>2. loc'[t] = Toward(ParentOf(p), [Idle EXCEPT !.path = p, !.body = x])
    BY <1>1, <2>1
  <2> QED BY <2>2 DEF Toward, Idle
<1>3. \A o, label, args : Start(t, o, label, args) => op'[t] = o
  BY <1>1
<1>4. ~StartAppend(t)
  BY <1>3 DEF StartAppend
<1>5. ~StartSymlink(t)
  BY <1>3 DEF StartSymlink
<1>6. ~StartHardlink(t)
  BY <1>3 DEF StartHardlink
<1>7. ~StartMkdir(t)
  BY <1>3 DEF StartMkdir
<1>8. ~StartUnlink(t)
  BY <1>3 DEF StartUnlink
<1>9. ~StartMove(t)
  BY <1>3 DEF StartMove
<1>10. ~StartLs(t)
  BY <1>3 DEF StartLs
<1>11. ~StartRead(t)
  BY <1>3 DEF StartRead
<1> QED BY <1>2, <1>4, <1>5, <1>6, <1>7, <1>8, <1>9, <1>10, <1>11 DEF Begin

LEMMA NoOrphans ==
  ASSUME Typed, Removals, Intact,
         Cardinality(lost) + Cardinality(orphans \cup doomed) <= MaxLost,
         {"hardlink", "unlink"} \subseteq Ops
  PROVE  orphans = {}
<1>1. MaxLost = 0
  BY DEF Removals
<1>2. IsFiniteSet(INumbers) /\ IsFiniteSet(Extents)
  BY FS_Interval, SizeAssumption DEF INumbers, Extents
<1>3. IsFiniteSet(lost) /\ IsFiniteSet(orphans)
  BY <1>2, FS_Subset DEF Typed, StateTyped
<1>4. orphans \cup doomed = orphans
  BY DEF Intact
<1>5. PICK a, b : a = Cardinality(lost) /\ b = Cardinality(orphans)
  OBVIOUS
<1>6. a \in Nat /\ b \in Nat
  BY <1>3, <1>5, FS_CardinalityType
<1>7. b = 0
  <2>1. a + b <= 0
    BY <1>1, <1>4, <1>5
  <2> QED BY <1>6, <2>1
<1> QED BY <1>3, <1>5, <1>7, FS_EmptySet

(* An operation begins with a walk from the root along one of its paths.   *)
LEMMA BeginSound ==
  ASSUME Typed, Typed', NEW own \in Owners, Consistent(own), NEW t \in Tasks,
         Begin(t), Intact, Removals
  PROVE  Consistent(own)'
<1>1. PICK o \in AllOps, label \in PCs, r \in Locals : \E p, q, rest :
             /\ Begins(t, o, label, p, q, rest) /\ Begun(r, p, q, rest)
             /\ Start(t, o, label, r)
  BY BeginSteps
<1>2. PICK p, q, rest :
             /\ Begins(t, o, label, p, q, rest) /\ Begun(r, p, q, rest)
             /\ Start(t, o, label, r)
  BY <1>1
<1>3. /\ pc[t] = "idle" /\ loc[t] = Idle /\ o \in Ops
      /\ Cardinality(lost) + Cardinality(orphans \cup doomed) <= MaxLost
      /\ pc'[t] = label /\ op'[t] = o /\ loc'[t] = r /\ Others(t)
  BY <1>2, StartSteps
<1>4. UNCHANGED <<bits, inodes, used, disk, guard, lost, orphans>>
  BY <1>2 DEF Start, device, history
<1>5. /\ r.held = {} /\ r.born = {} /\ r.doomed = {} /\ r.path = p /\ r.dest = q
      /\ r.rest = rest /\ r.node = inodes[Root] /\ r.dparent = NoINode
      /\ r.dput = NoINode
  BY <1>2 DEF Begun
<1>6. label \in {"content", "parent", "mkdir", "ls", "append", "read"}
  BY <1>2 DEF Begins
<1>7. Homely(own, t, rest)
  <2>1. \/ rest \in PathsOf(t)
        \/ rest = ParentOf(p) /\ p \in PathsOf(t)
        \/ rest = ParentOf(q) /\ q \in PathsOf(t)
    BY <1>2 DEF Begins
  <2> QED BY <2>1, PathsHomely
<1>8. Given(t)'
  <2>1. o \in Creating \cup {"unlink", "move"} => p \in PathsOf(t)
    BY <1>2 DEF Begins, Creating, Linking
  <2>2. o \in {"symlink", "hardlink", "move"} => q \in PathsOf(t)
    BY <1>2 DEF Begins
  <2>3. o = "write" => r.body \in Bodies
    BY <1>3, BodyGiven
  <2> QED BY <1>3, <1>5, <2>1, <2>2, <2>3 DEF Given
<1>9. Walking(own, t)'
  <2>1. Clean(t)'
    BY <1>3, <1>5 DEF Clean, Alone
  <2>2. loc'[t].node = inodes'[Root] /\ Homely(own, t, loc'[t].rest)
    BY <1>3, <1>4, <1>5, <1>7
  <2>3. label # "content" => o # "hardlink"
    BY <1>2 DEF Begins
  <2>4. pc'[t] # "content" => TargetSound(own, t)'
    BY <1>3, <2>3 DEF TargetSound
  <2>5. pc'[t] # "dest"
    BY <1>3, <1>6
  <2> QED BY <2>1, <2>2, <2>4, <2>5 DEF Walking, Homely
<1>10. TaskSound(own, t)'
  BY <1>3, <1>6, <1>8, <1>9 DEF TaskSound, Walks, Removing, Deleting
<1>11. Even(t) /\ Even(t)'
  BY <1>3, <1>5, <1>6 DEF Even, Removing, Deleting
<1>12. Aside(own, t)
  BY <1>11, EvenAsideNext
<1>13. Guarded'
  BY <1>3, <1>4, <1>6, GuardKept DEF Registering
<1>14. loc'[t].held = loc[t].held /\ loc'[t].born = loc[t].born
  BY <1>3, <1>5 DEF Idle
<1>15. {"hardlink", "unlink"} \subseteq Ops => orphans = {}
  BY <1>3, NoOrphans
<1> QED BY <1>3, <1>4, <1>6, <1>10, <1>12, <1>13, <1>14, <1>15, LocalSound

-----------------------------------------------------------------------------
(* A volume just made: who owns what.                                      *)

(* Whose directory each inode is in, on a volume just made.                *)
Allots(own) ==
  \/ \E t \in Tasks : Tasks = {t} /\ \A i \in INumbers : own[i] = t
  \/ /\ own[Root] = NoTask
     /\ \A t \in Tasks : \E k \in DOMAIN Made :
          Home[t] = <<Made[k]>> /\ own[k + 1] = t

LEMMA OwnersExist ==
  ASSUME Separate, Typed, bits = 1 .. (Len(Made) + 1), bits \subseteq INumbers
  PROVE  \E own \in Owners : Allots(own)
<1>1. /\ Made \in Seq(Names \ Unstorable) /\ DOMAIN Made = 1 .. Len(Made)
      /\ Len(Made) \in Nat
      /\ \A k, l \in DOMAIN Made : Made[k] = Made[l] => k = l
  <2>1. Made \in Seq(Names \ Unstorable)
        /\ \A k, l \in DOMAIN Made : Made[k] = Made[l] => k = l
    BY CallerAssumption
  <2> QED BY <2>1, LenProperties
<1>2. \A k \in DOMAIN Made : k + 1 \in INumbers /\ k \in Nat /\ k # 0
  BY <1>1
<1>3. CASE \E t \in Tasks : Tasks = {t}
  <2>1. PICK t \in Tasks : Tasks = {t}
    BY <1>3
  <2> DEFINE own == [i \in INumbers |-> t]
  <2>2. own \in Owners /\ \A i \in INumbers : own[i] = t
    BY DEF Owners
  <2>3. Allots(own)
    BY <2>1, <2>2 DEF Allots
  <2> QED BY <2>2, <2>3
<1>4. CASE ~\E t \in Tasks : Tasks = {t}
  <2> DEFINE HomeIs(t, k) == k \in DOMAIN Made /\ Home[t] = <<Made[k]>>
             own == [i \in INumbers |->
                       IF \E t \in Tasks : HomeIs(t, i - 1)
                       THEN CHOOSE t \in Tasks : HomeIs(t, i - 1) ELSE NoTask]
  <2>1. \A t \in Tasks : \E k \in DOMAIN Made : HomeIs(t, k)
    BY <1>4 DEF Separate
  <2>2. ASSUME NEW t \in Tasks, NEW u \in Tasks, NEW k \in DOMAIN Made,
               HomeIs(t, k), HomeIs(u, k)
        PROVE  t = u
    <3>1. SUFFICES ASSUME t # u PROVE FALSE
      OBVIOUS
    <3>2. PICK m, l \in DOMAIN Made :
            m # l /\ Home[t] = <<Made[m]>> /\ Home[u] = <<Made[l]>>
      BY <3>1 DEF Separate
    <3>3. Made[m] = Made[k] /\ Made[l] = Made[k]
      BY <2>2, <3>2
    <3> QED BY <1>1, <3>2, <3>3
  <2>3. own \in Owners
    BY DEF Owners
  <2>4. own[Root] = NoTask
    <3>1. Root \in INumbers /\ ~\E t \in Tasks : HomeIs(t, Root - 1)
      BY <1>2, Inside DEF Root
    <3> QED BY <3>1
  <2>5. ASSUME NEW t \in Tasks
        PROVE  \E k \in DOMAIN Made : Home[t] = <<Made[k]>> /\ own[k + 1] = t
    <3>1. PICK k \in DOMAIN Made : HomeIs(t, k)
      BY <2>1
    <3>2. k + 1 \in INumbers /\ (k + 1) - 1 = k
      BY <1>2
    <3>3. own[k + 1] = CHOOSE u \in Tasks : HomeIs(u, k)
      BY <3>1, <3>2
    <3>4. own[k + 1] = t
      BY <2>2, <3>1, <3>3
    <3> QED BY <3>1, <3>4
  <2> HIDE DEF own
  <2>6. Allots(own)
    BY <2>4, <2>5 DEF Allots
  <2> QED BY <2>3, <2>6
<1> QED BY <1>3, <1>4

(* The directories made under the root, all of them empty.                 *)
NewVolume(own) ==
  /\ bits = 1 .. (Len(Made) + 1) /\ DOMAIN Made = 1 .. Len(Made) /\ Len(Made) \in Nat
  /\ Sound = bits /\ Counted = bits /\ Held = {} /\ Born = {}
  /\ Root \in bits /\ bits \subseteq INumbers
  /\ \A i \in bits : /\ inodes[i].kind = "Directory" /\ inodes[i].nlink = 1
                     /\ i # Root => inodes[i].ext = None /\ EntriesOf(i) = {}
  /\ inodes[Root].ext \in {None, 1} /\ used = {inodes[Root].ext} \ {None}
  /\ inodes[Root].ext # None => disk[inodes[Root].ext].form = "dir"
  /\ EntriesOf(Root) = MadeEntries
  /\ guard = NoTask /\ lost = {} /\ orphans = {} /\ doomed = {} /\ clobbered = {}
  /\ \A t \in Tasks : pc[t] = "idle" /\ op[t] = "ls" /\ loc[t] = Idle
  /\ Allots(own)

LEMMA NewAtFirst ==
  ASSUME Init, NEW own \in Owners, Allots(own)
  PROVE  NewVolume(own)
<1>1. /\ bits = 1 .. (Len(Made) + 1)
      /\ inodes = [i \in INumbers |->
                        IF i = Root THEN MadeDir(Root, RootExt)
                        ELSE IF i \in bits THEN MadeDir(i, None) ELSE NoINode]
      /\ used = {RootExt} \ {None}
      /\ disk = [e \in Extents |-> IF e \in used THEN DirBytes(MadeEntries)
                                      ELSE Blank]
      /\ guard = NoTask
      /\ pc = [t \in Tasks |-> "idle"]
      /\ op = [t \in Tasks |-> "ls"]
      /\ loc = [t \in Tasks |-> Idle]
      /\ lost = {} /\ orphans = {} /\ doomed = {} /\ clobbered = {}
      /\ RootExt \in Extents \cup {None} /\ Root \in bits
      /\ bits \subseteq INumbers
  BY InitFacts
<1>2. DOMAIN Made = 1 .. Len(Made) /\ Len(Made) \in Nat
  BY CallerAssumption, LenProperties
<1>3. \A t \in Tasks : pc[t] = "idle" /\ op[t] = "ls" /\ loc[t] = Idle
  BY <1>1
<1>4. \A t \in Tasks : loc[t].held = {} /\ loc[t].born = {}
  BY <1>3 DEF Idle
<1>5. Held = {} /\ Born = {} /\ Emptied = {}
  BY <1>3, <1>4 DEF Held, Born, Emptied
<1>6. Sound = bits /\ Counted = bits
  BY <1>1, <1>5 DEF Sound, Counted
<1>7. /\ \A i \in bits : /\ inodes[i].kind = "Directory" /\ inodes[i].nlink = 1
                         /\ i # Root => inodes[i].ext = None
      /\ inodes[Root].ext = RootExt
  BY <1>1 DEF MadeDir
<1>8. \A i \in bits : i # Root => EntriesOf(i) = {}
  BY <1>7 DEF EntriesOf, Bytes, Blank
<1>9. /\ RootExt # None => disk[RootExt] = DirBytes(MadeEntries)
      /\ RootExt \in {None, 1}
  BY <1>1 DEF RootExt
<1>10. DirBytes(MadeEntries).form = "dir" /\ DirBytes(MadeEntries).entries = MadeEntries
  BY DEF DirBytes, Blank
<1>11. EntriesOf(Root) = MadeEntries
  <2>1. CASE RootExt = None
    <3>1. Made = <<>>
      BY <2>1 DEF RootExt, None
    <3>2. MadeEntries = {}
      BY <3>1 DEF MadeEntries
    <3> QED BY <1>1, <1>7, <2>1, <3>2 DEF EntriesOf, Bytes, Blank
  <2>2. CASE RootExt # None
    BY <1>1, <1>7, <1>9, <1>10, <2>2 DEF EntriesOf, Bytes
  <2> QED BY <2>1, <2>2
<1> QED BY <1>1, <1>2, <1>3, <1>5, <1>6, <1>7, <1>8, <1>9, <1>10, <1>11 DEF NewVolume

-----------------------------------------------------------------------------
(* A volume just made is consistent.                                       *)

LEMMA NewEntries ==
  ASSUME NEW own \in Owners, NewVolume(own)
  PROVE  /\ IsFiniteSet(MadeEntries)
         /\ \A e, f \in MadeEntries : e.name = f.name => e = f
         /\ \A e \in MadeEntries : e.inumber \in Counted \ {Root}
         /\ \A i \in Counted \ {Root} : \E e \in MadeEntries : e.inumber = i
         /\ \A e, f \in MadeEntries : e.inumber = f.inumber => e = f
         /\ own[Root] = NoTask \/ \A i \in INumbers : own[Root] = own[i]
<1>1. /\ DOMAIN Made = 1 .. Len(Made) /\ Len(Made) \in Nat
      /\ Counted = 1 .. (Len(Made) + 1) /\ Allots(own)
  BY DEF NewVolume
<1>2. \A e : e \in MadeEntries <=>
        \E k \in DOMAIN Made : e = [name |-> Made[k], inumber |-> k + 1]
  BY DEF MadeEntries
<1>3. IsFiniteSet(MadeEntries)
  <2> DEFINE f == [k \in DOMAIN Made |-> [name |-> Made[k], inumber |-> k + 1]]
  <2>1. f \in Surjection(DOMAIN Made, MadeEntries)
    BY DEF Surjection, MadeEntries
  <2>2. IsFiniteSet(DOMAIN Made)
    BY <1>1, FS_Interval
  <2> QED BY <2>1, <2>2, FS_Surjection
<1>4. \A e, f \in MadeEntries : e.name = f.name => e = f
  <2>1. \A k, l \in DOMAIN Made : Made[k] = Made[l] => k = l
    BY CallerAssumption
  <2> QED BY <1>2, <2>1
<1>5. \A e \in MadeEntries : e.inumber \in Counted \ {Root}
  BY <1>1, <1>2 DEF Root
<1>6. ASSUME NEW i \in Counted \ {Root} PROVE \E e \in MadeEntries : e.inumber = i
  <2>1. i - 1 \in DOMAIN Made /\ (i - 1) + 1 = i
    BY <1>1, <1>6 DEF Root
  <2>2. [name |-> Made[i - 1], inumber |-> i] \in MadeEntries
    BY <1>2, <2>1
  <2> QED BY <2>2
<1>7. \A e, f \in MadeEntries : e.inumber = f.inumber => e = f
  <2>1. \A k, l \in DOMAIN Made : k + 1 = l + 1 => k = l
    BY <1>1
  <2> QED BY <1>2, <2>1
<1>8. own[Root] = NoTask \/ \A i \in INumbers : own[Root] = own[i]
  <2>1. Root \in INumbers
    BY DEF NewVolume
  <2> QED BY <1>1, <2>1 DEF Allots
<1> QED BY <1>3, <1>4, <1>5, <1>6, <1>7, <1>8

LEMMA NewCounts ==
  ASSUME NEW own \in Owners, NewVolume(own)
  PROVE  CountsRight(own)
<1>1. ASSUME NEW i \in Counted \ {Root}
      PROVE  inodes[i].nlink + Extra(own, i)
               = Cardinality(EntryRefs(own, i)) + Cardinality(LinkRefs(own, i))
  <2>1. PICK e \in MadeEntries : e.inumber = i
    BY <1>1, NewEntries
  <2>2. EntriesOf(Root) = MadeEntries /\ \A j \in Counted \ {Root} : EntriesOf(j) = {}
    BY DEF NewVolume
  <2>3. own[Root] \in {own[i], NoTask}
    <3>1. i \in INumbers
      BY <1>1 DEF NewVolume
    <3> QED BY <3>1, NewEntries
  <2>4. Root \in Counted
    BY DEF NewVolume
  <2>5. \A r : r \in EntryRefs(own, i) <=> r = <<Root, e>>
    <3>1. ASSUME NEW r, r \in EntryRefs(own, i) PROVE r = <<Root, e>>
      <4>1. PICK j \in Counted : \E f \in EntriesOf(j) : r = <<j, f>> /\ f.inumber = i
        BY <3>1, RefsAre
      <4>2. PICK f \in EntriesOf(j) : r = <<j, f>> /\ f.inumber = i
        BY <4>1
      <4>3. j = Root
        BY <2>2, <4>1, <4>2
      <4> QED BY <2>1, <2>2, <4>2, <4>3, NewEntries
    <3>2. <<Root, e>> \in EntryRefs(own, i)
      BY <2>1, <2>2, <2>3, <2>4, RefsAre
    <3> QED BY <3>1, <3>2
  <2>6. EntryRefs(own, i) = {<<Root, e>>}
    BY <2>5
  <2>7. LinkRefs(own, i) = {}
    BY RefsAre DEF NewVolume
  <2>8. Extra(own, i) = 0
    <3>1. \A t \in Tasks : ~Surplus(own, t, i)
      BY DEF NewVolume, Surplus, Removing, Deleting
    <3> QED BY <3>1 DEF Extra
  <2>9. inodes[i].nlink = 1
    BY <1>1 DEF NewVolume
  <2>10. Cardinality(EntryRefs(own, i)) = 1 /\ Cardinality(LinkRefs(own, i)) = 0
    BY <2>6, <2>7, FS_Singleton, FS_EmptySet
  <2> QED BY <2>8, <2>9, <2>10
<1> QED BY <1>1 DEF CountsRight

LEMMA NewSound ==
  ASSUME NEW own \in Owners, NewVolume(own)
  PROVE  Consistent(own)
<1>1. /\ Sound = bits /\ Counted = bits /\ Held = {} /\ Born = {}
      /\ Root \in bits /\ bits \subseteq INumbers
      /\ \A i \in bits : /\ inodes[i].kind = "Directory" /\ inodes[i].nlink = 1
                         /\ i # Root => inodes[i].ext = None /\ EntriesOf(i) = {}
      /\ inodes[Root].ext \in {None, 1} /\ used = {inodes[Root].ext} \ {None}
      /\ inodes[Root].ext # None => disk[inodes[Root].ext].form = "dir"
      /\ EntriesOf(Root) = MadeEntries
      /\ guard = NoTask /\ lost = {} /\ orphans = {}
      /\ \A t \in Tasks : pc[t] = "idle" /\ op[t] = "ls" /\ loc[t] = Idle
      /\ Allots(own)
  BY DEF NewVolume
<1>2. \A t \in Tasks : loc[t].held = {} /\ loc[t].born = {}
  BY <1>1 DEF Idle
<1>3. RootStands
  BY <1>1 DEF RootStands
<1>4. ContentSound
  BY <1>1 DEF ContentSound, FormOf
<1>5. ExtentsAccounted
  BY <1>1, <1>2 DEF ExtentsAccounted
<1>6. Guarded
  BY <1>1, SharingAssumption DEF Guarded
<1>7. BornOwned(own)
  BY <1>1, <1>2 DEF BornOwned
<1>8. RootOwned(own)
  BY <1>1 DEF RootOwned, Allots
<1>9. NodesSound(own)
  <2>1. ASSUME NEW i \in Sound PROVE NodeSound(own, i)
    <3>1. inodes[i].kind = "Directory"
      BY <1>1, <2>1
    <3>2. DirectorySound(own, i)
      <4>1. CASE i = Root
        <5>1. \A e \in MadeEntries : Leads(own, Root, e.inumber)
          BY <1>1, NewEntries DEF Leads
        <5> QED BY <1>1, <4>1, <5>1, NewEntries DEF DirectorySound
      <4>2. CASE i # Root
        <5>1. EntriesOf(i) = {}
          BY <1>1, <2>1, <4>2
        <5> QED BY <5>1, FS_EmptySet DEF DirectorySound
      <4> QED BY <4>1, <4>2
    <3> QED BY <3>1, <3>2 DEF NodeSound, HardlinkSound, SymlinkSound
  <2> QED BY <2>1 DEF NodesSound
<1>10. CountsRight(own)
  BY NewCounts
<1>11. ASSUME NEW t \in Tasks PROVE TaskSound(own, t)
  BY <1>1 DEF TaskSound, Given, Walks, Removing, Deleting, Creating, Linking
<1> QED BY <1>3, <1>4, <1>5, <1>6, <1>7, <1>8, <1>9, <1>10, <1>11
        DEF Consistent, Shared

(* Init makes the root and the callers' directories.                       *)
LEMMA ConsistentAtFirst ==
  ASSUME Init, Separate
  PROVE  Consistency
<1>1. Typed /\ bits = 1 .. (Len(Made) + 1) /\ bits \subseteq INumbers
  BY TypedInit, InitFacts
<1>2. PICK own \in Owners : Allots(own)
  BY <1>1, OwnersExist
<1>3. Consistent(own)
  BY <1>2, NewAtFirst, NewSound
<1> QED BY <1>3 DEF Consistency


(* No local changes but the copy of a bitmap.                              *)
ButSnap(t) ==
  /\ loc'[t].path = loc[t].path /\ loc'[t].dest = loc[t].dest
  /\ loc'[t].body = loc[t].body /\ loc'[t].rest = loc[t].rest
  /\ loc'[t].parent = loc[t].parent /\ loc'[t].dir = loc[t].dir
  /\ loc'[t].dparent = loc[t].dparent /\ loc'[t].ddir = loc[t].ddir
  /\ loc'[t].child = loc[t].child /\ loc'[t].target = loc[t].target
  /\ loc'[t].stack = loc[t].stack /\ loc'[t].inum = loc[t].inum
  /\ loc'[t].put = loc[t].put /\ loc'[t].old = loc[t].old
  /\ loc'[t].dput = loc[t].dput /\ loc'[t].dold = loc[t].dold
  /\ loc'[t].held = loc[t].held /\ loc'[t].born = loc[t].born
  /\ loc'[t].doomed = loc[t].doomed

(* What a task reads of a bitmap is nothing that its step is sound by.     *)
LEMMA SnapTaskSound ==
  ASSUME Typed, NEW own \in Owners, NEW t \in Tasks, TaskSound(own, t),
         pc[t] \in Registering,
         UNCHANGED <<bits, inodes, used, disk, pc, op>>,
         Sound' = Sound, Counted' = Counted,
         ButSnap(t)
  PROVE  /\ TaskSound(own, t)'
         /\ Victim(t)' = Victim(t) /\ (Mine(own, t)' <=> Mine(own, t))
<1>2. /\ \A i : EntriesOf(i)' = EntriesOf(i) /\ TargetOf(i)' = TargetOf(i)
      /\ \A x : (Copy(own, t, x)' <=> Copy(own, t, x))
                /\ (Folder(own, t, x)' <=> Folder(own, t, x))
      /\ \A e, d : Lists(e, d)' <=> Lists(e, d)
      /\ \A x, i, e : Replaces(x, i, e)' <=> Replaces(x, i, e)
  BY DEF EntriesOf, TargetOf, Bytes, Copy, Folder, Lists, Replaces
<1>3. Source(t)' = Source(t) /\ Victim(t)' = Victim(t) /\ NewName(t)' = NewName(t)
  BY <1>2 DEF ButSnap, Source, Victim, NewName
<1>4. /\ Mine(own, t)' <=> Mine(own, t)
      /\ Removing(t)' <=> Removing(t)
      /\ Alone(t)' <=> Alone(t)
      /\ Clean(t)' <=> Clean(t)
      /\ Given(t)' <=> Given(t)
      /\ TargetSound(own, t)' <=> TargetSound(own, t)
      /\ Editing(own, t)' <=> Editing(own, t)
  <2>1. Mine(own, t)' <=> Mine(own, t)
    BY <1>3 DEF Mine
  <2>2. (Alone(t)' <=> Alone(t)) /\ (Clean(t)' <=> Clean(t))
    BY DEF ButSnap, Alone, Clean
  <2>3. TargetSound(own, t)' <=> TargetSound(own, t)
    BY <1>2 DEF ButSnap, TargetSound
  <2>4. Editing(own, t)' <=> Editing(own, t)
    BY <1>2 DEF ButSnap, Editing
  <2>5. Given(t)' <=> Given(t)
    BY DEF ButSnap, Given
  <2> QED BY <2>1, <2>2, <2>3, <2>4, <2>5 DEF Removing
<1>5. Entering(own, t) => Entering(own, t)'
  BY <1>2, <1>3, <1>4 DEF ButSnap, Entering
<1>6. Overwriting(own, t) => Overwriting(own, t)'
  BY <1>2, <1>4 DEF ButSnap, Overwriting
<1>7. Appending(own, t) => Appending(own, t)'
  BY <1>2, <1>4 DEF ButSnap, Appending
<1>8. Releasing(own, t) => Releasing(own, t)'
  BY <1>2, <1>4 DEF ButSnap, Releasing
<1>9. Moving(own, t) => Moving(own, t)'
  BY <1>2, <1>3, <1>4 DEF ButSnap, Moving
<1>10. Unlinking(own, t) => Unlinking(own, t)'
  <2>1. /\ Plain(own, t)' <=> Plain(own, t)
        /\ Refers(own, t)' <=> Refers(own, t)
        /\ Followed(own, t)' <=> Followed(own, t)
        /\ Spared(own, t)' <=> Spared(own, t)
    <3>1. \A x : Removable(inodes[x])' <=> Removable(inodes[x])
      BY DEF Removable, Bytes
    <3>2. Plain(own, t)' <=> Plain(own, t)
      BY <1>3, <1>4, <3>1 DEF ButSnap, Plain
    <3>3. Refers(own, t)' <=> Refers(own, t)
      BY <1>2, <1>3, <1>4 DEF ButSnap, Refers
    <3>4. Followed(own, t)' <=> Followed(own, t)
      BY <1>2, <1>3, <1>4 DEF ButSnap, Followed
    <3>5. Spared(own, t)' <=> Spared(own, t)
      BY <1>3, <1>4 DEF ButSnap, Spared
    <3> QED BY <3>2, <3>3, <3>4, <3>5
  <2>2. \A c : Due(own, t, c)' <=> Due(own, t, c)
    BY <1>2, <1>3, <2>1 DEF ButSnap, Due
  <2> QED BY <1>2, <1>3, <1>4, <2>1, <2>2 DEF ButSnap, Unlinking, Registering
<1>11. TaskSound(own, t)'
  <2>1. pc[t] \notin Walks \cup {"data", "choose", "born", "replace"}
    BY DEF Registering, Walks
  <2> QED BY <1>4, <1>5, <1>6, <1>7, <1>8, <1>9, <1>10, <2>1 DEF TaskSound
<1> QED BY <1>3, <1>4, <1>11

(* The guard is taken, a bitmap is copied, and nothing else changes.       *)
LEMMA ReadBitmapSound ==
  ASSUME Typed, Typed', NEW own \in Owners, Consistent(own), NEW t \in Tasks,
         ReadBitmap(t)
  PROVE  Consistent(own)'
<1>1. /\ pc[t] \in Registering /\ guard = NoTask /\ guard' = t
      /\ UNCHANGED <<bits, inodes, used, disk, pc, op, lost, orphans>>
  BY ReadBitmapSteps
<1>2. PICK s \in SUBSET bits : \E r \in Locals :
        r = [loc[t] EXCEPT !.snap = s] /\ Moves(t, pc[t], r)
  BY ReadBitmapSteps
<1>3. Others(t) /\ ButSnap(t)
  <2>1. PICK r \in Locals : r = [loc[t] EXCEPT !.snap = s] /\ Moves(t, pc[t], r)
    BY <1>2
  <2>2. loc'[t] = r /\ \A u \in Tasks \ {t} : pc'[u] = pc[u] /\ loc'[u] = loc[u]
    BY <2>1, MovesFacts DEF Typed, StateTyped
  <2>3. loc[t] \in Locals
    BY DEF Typed, StateTyped
  <2>4. ButSnap(t)
    BY <2>1, <2>2, <2>3 DEF ButSnap, Locals
  <2> QED BY <1>1, <2>2, <2>4 DEF Others
<1>4. pc[t] \notin {"clear", "idle", "born"}
  BY <1>1 DEF Registering
<1>5. Sound' = Sound /\ Counted' = Counted
  <2>1. Held' = Held /\ Born' = Born /\ Emptied' = Emptied
    BY <1>1, <1>3, <1>4, Parts, PartsNext DEF Clears, ButSnap
  <2> QED BY <1>1, <2>1 DEF Sound, Counted
<1>6. TaskSound(own, t)' /\ Victim(t)' = Victim(t) /\ (Mine(own, t)' <=> Mine(own, t))
  BY <1>1, <1>3, <1>5, SnapTaskSound DEF Consistent
<1>7. Guarded'
  <2>1. \A u \in Tasks : pc[u] # "born"
    BY <1>1, SharingAssumption DEF Consistent, Shared, Guarded
  <2> QED BY <1>1, <2>1 DEF Guarded
<1>8. Aside(own, t)
  <2>1. Removing(t)' <=> Removing(t)
    BY <1>1 DEF Removing
  <2>2. TargetOf(Victim(t))' = TargetOf(Victim(t))
    BY <1>1, <1>6 DEF TargetOf, Bytes
  <2> QED BY <1>1, <1>3, <1>6, <2>1, <2>2 DEF Aside, Excused, ExcusedLink, Surplus, ButSnap
<1> QED BY <1>1, <1>3, <1>4, <1>6, <1>7, <1>8, LocalSound DEF ButSnap

-----------------------------------------------------------------------------
(* A deletion that was cut stays cut, and a bit overwritten stays          *)
(* overwritten.                                                            *)

(* What was cut stays cut.                                                 *)
Grows == doomed \subseteq doomed' /\ clobbered \subseteq clobbered'

LEMMA FailGrows ==
  ASSUME NEW t \in Tasks, Fail(t)
  PROVE  Grows
BY DEF Fail, Grows

LEMMA PrivateGrows ==
  ASSUME Private
  PROVE  Grows
BY DEF Private, history, Grows

LEMMA StartGrows ==
  ASSUME NEW t \in Tasks, Begin(t)
  PROVE  Grows
<1>1. ASSUME NEW o, NEW label, NEW args, Start(t, o, label, args)
      PROVE  Grows
  BY <1>1 DEF Start, history, Grows
<1>2. StartWrite(t) => Grows
  BY <1>1 DEF StartWrite
<1>3. StartAppend(t) => Grows
  BY <1>1 DEF StartAppend
<1>4. StartSymlink(t) => Grows
  BY <1>1 DEF StartSymlink
<1>5. StartHardlink(t) => Grows
  BY <1>1 DEF StartHardlink
<1>6. StartMkdir(t) => Grows
  BY <1>1 DEF StartMkdir
<1>7. StartUnlink(t) => Grows
  BY <1>1 DEF StartUnlink
<1>8. StartMove(t) => Grows
  BY <1>1 DEF StartMove
<1>9. StartLs(t) => Grows
  BY <1>1 DEF StartLs
<1>10. StartRead(t) => Grows
  BY <1>1 DEF StartRead
<1> QED BY <1>2, <1>3, <1>4, <1>5, <1>6, <1>7, <1>8, <1>9, <1>10 DEF Begin

LEMMA StoreGrows ==
  ASSUME NEW t \in Tasks, NEW b, NEW inode, NEW label, StoreFor(t, b, inode, label)
  PROVE  Grows
BY FailGrows DEF StoreFor, Grows, history

LEMMA FollowGrows ==
  ASSUME NEW t \in Tasks, NEW label, Follow(t, label)
  PROVE  Grows
BY FailGrows, PrivateGrows DEF Follow, FollowTo

LEMMA ProceedGrows ==
  ASSUME NEW t \in Tasks, Proceed(t)
  PROVE  Grows
<1>1. Walk(t) => Grows
  BY FailGrows, PrivateGrows DEF Walk, Grows, history
<1>2. ContentResolved(t) => Grows
  BY FailGrows, PrivateGrows DEF ContentResolved, Grows, history
<1>3. LookupWrite(t) => Grows
  BY FailGrows, PrivateGrows DEF LookupWrite, Grows, history
<1>4. LookupUnlink(t) => Grows
  BY FailGrows, PrivateGrows DEF LookupUnlink, Grows, history
<1>5. SourceResolved(t) => Grows
  BY FailGrows, PrivateGrows DEF SourceResolved, Grows, history
<1>6. LookupMove(t) => Grows
  BY FailGrows, PrivateGrows DEF LookupMove, Grows, history
<1>7. MkdirComponent(t) => Grows
  BY FailGrows, PrivateGrows DEF MkdirComponent, Grows, history
<1>8. ListReached(t) => Grows
  BY FailGrows, PrivateGrows DEF ListReached, Grows, history
<1>9. AppendReached(t) => Grows
  BY FailGrows, PrivateGrows, StoreGrows, FollowGrows DEF AppendReached
<1>10. ReadReached(t) => Grows
  BY FailGrows, PrivateGrows, StoreGrows, FollowGrows DEF ReadReached
<1>11. Replace(t) => Grows
  BY FailGrows, PrivateGrows, StoreGrows, FollowGrows DEF Replace
<1>12. StoreData(t) => Grows
  BY FailGrows, PrivateGrows DEF StoreData, Grows, history
<1>13. ChooseInode(t) => Grows
  BY FailGrows, PrivateGrows DEF ChooseInode, Grows, history
<1>14. BornInode(t) => Grows
  BY DEF BornInode, Clobber, Grows
<1>15. Rewrite(t) => Grows
  BY FailGrows, PrivateGrows, StoreGrows, FollowGrows DEF Rewrite
<1>16. RewriteDest(t) => Grows
  BY FailGrows, PrivateGrows DEF RewriteDest, Grows, history
<1>17. CommitDest(t) => Grows
  BY DEF CommitDest, Register, Clobber, Grows
<1>18. Commit(t) => Grows
  BY DEF Commit, Register, Clobber, Grows
<1>19. ReleaseOld(t) => Grows
  BY FailGrows, PrivateGrows DEF ReleaseOld, Grows, history
<1>20. ReleaseDest(t) => Grows
  BY FailGrows, PrivateGrows DEF ReleaseDest, Grows, history
<1>21. BumpLink(t) => Grows
  BY DEF BumpLink, Register, Clobber, Grows
<1>22. FollowLink(t) => Grows
  BY FailGrows, PrivateGrows DEF FollowLink, Grows, history
<1>23. DeleteNext(t) => Grows
  BY FailGrows, PrivateGrows DEF DeleteNext, Grows, history
<1>24. DropLink(t) => Grows
  BY DEF DropLink, Register, Clobber, Grows
<1>25. FreeINode(t) => Grows
  BY FailGrows, PrivateGrows DEF FreeINode, Grows, history
<1>26. ClearBit(t) => Grows
  BY DEF ClearBit, Clobber, Grows
<1>27. ReadBitmap(t) => Grows
  BY DEF ReadBitmap, Grows, history
<1> QED BY <1>1, <1>2, <1>3, <1>4, <1>5, <1>6, <1>7, <1>8, <1>9, <1>10, <1>11, <1>12, <1>13, <1>14, <1>15, <1>16, <1>17, <1>18, <1>19, <1>20, <1>21, <1>22, <1>23, <1>24, <1>25, <1>26, <1>27 DEF Proceed

-----------------------------------------------------------------------------
(* Every step, and the invariant.                                          *)

(* Every step of an operation keeps the volume consistent.                 *)
LEMMA ProceedSound ==
  ASSUME Proper, Removals, Typed, Typed', NEW own \in Owners, Consistent(own),
         NEW t \in Tasks, Proceed(t), Intact'
  PROVE  \E own2 \in Owners : Consistent(own2)'
<1> DEFINE Goal == \E own2 \in Owners : Consistent(own2)'
<1>1. BornInode(t) => Goal
  BY BornSound
<1>2. Consistent(own)' => Goal
  OBVIOUS
<1> HIDE DEF Goal
<1>3. Walk(t) => Consistent(own)'
  BY WalkSound
<1>4. ContentResolved(t) => Consistent(own)'
  BY ContentResolvedSound
<1>5. LookupWrite(t) => Consistent(own)'
  BY LookupWriteSound
<1>6. LookupUnlink(t) => Consistent(own)'
  BY LookupUnlinkSound
<1>7. SourceResolved(t) => Consistent(own)'
  BY SourceResolvedSound
<1>8. LookupMove(t) => Consistent(own)'
  BY LookupMoveSound
<1>9. MkdirComponent(t) => Consistent(own)'
  BY MkdirSound
<1>10. ListReached(t) => Consistent(own)'
  BY ListReachedSound
<1>11. AppendReached(t) => Consistent(own)'
  BY AppendReachedSound
<1>12. ReadReached(t) => Consistent(own)'
  BY ReadReachedSound
<1>13. Replace(t) => Consistent(own)'
  BY ReplaceSound
<1>14. StoreData(t) => Consistent(own)'
  BY StoreDataSound
<1>15. ChooseInode(t) => Consistent(own)'
  BY ChooseInodeSound
<1>16. Rewrite(t) => Consistent(own)'
  BY RewriteSound
<1>17. RewriteDest(t) => Consistent(own)'
  BY RewriteDestSound
<1>18. CommitDest(t) => Consistent(own)'
  BY CommitDestSound
<1>19. Commit(t) => Consistent(own)'
  BY CommitSound
<1>20. ReleaseOld(t) => Consistent(own)'
  BY ReleaseOldSound
<1>21. ReleaseDest(t) => Consistent(own)'
  BY ReleaseDestSound
<1>22. BumpLink(t) => Consistent(own)'
  BY BumpLinkSound
<1>23. FollowLink(t) => Consistent(own)'
  BY FollowLinkSound
<1>24. DeleteNext(t) => Consistent(own)'
  BY DeleteNextSound
<1>25. DropLink(t) => Consistent(own)'
  BY DropLinkSound
<1>26. FreeINode(t) => Consistent(own)'
  BY FreeINodeSound
<1>27. ClearBit(t) => Consistent(own)'
  BY ClearBitSound
<1>28. ReadBitmap(t) => Consistent(own)'
  BY ReadBitmapSound
<1>29. Goal
  BY <1>1, <1>2, <1>3, <1>4, <1>5, <1>6, <1>7, <1>8, <1>9, <1>10, <1>11, <1>12, <1>13, <1>14, <1>15, <1>16, <1>17, <1>18, <1>19, <1>20, <1>21, <1>22, <1>23, <1>24, <1>25, <1>26, <1>27, <1>28 DEF Proceed
<1> QED BY <1>29 DEF Goal

(* What is intact after a step was intact before.                          *)
LEMMA StillIntact ==
  ASSUME Typed, [Next]_vars, Intact'
  PROVE  Intact
<1>1. CASE UNCHANGED vars
  BY <1>1 DEF vars, Intact
<1>2. ASSUME NEW S \in SUBSET Tasks, Stop(S) PROVE Intact
  BY <1>2, StopSteps DEF Intact
<1>3. ASSUME NEW t \in Tasks, Begin(t) \/ Proceed(t) PROVE Intact
  <2>1. Grows
    BY <1>3, StartGrows, ProceedGrows
  <2> QED BY <2>1 DEF Grows, Intact
<1> QED BY <1>1, <1>2, <1>3 DEF Next, Crash, Cancel

(* The invariant is inductive.                                             *)
LEMMA ConsistentNext ==
  ASSUME Proper, Removals, Typed, Typed', Consistency, [Next]_vars
  PROVE  Consistency'
<1>1. SUFFICES ASSUME Intact' PROVE \E own2 \in Owners : Consistent(own2)'
  BY DEF Consistency
<1>2. Intact
  BY <1>1, StillIntact
<1>3. PICK own \in Owners : Consistent(own)
  BY <1>2 DEF Consistency
<1>4. CASE UNCHANGED vars
  BY <1>3, <1>4, StutterSound
<1>5. ASSUME NEW S \in SUBSET Tasks, Stop(S)
      PROVE  Consistent(own)'
  BY <1>1, <1>3, <1>5, StopSound
<1>6. ASSUME NEW t \in Tasks, Begin(t)
      PROVE  Consistent(own)'
  BY <1>2, <1>3, <1>6, BeginSound
<1>7. ASSUME NEW t \in Tasks, Proceed(t)
      PROVE  \E own2 \in Owners : Consistent(own2)'
  BY <1>1, <1>3, <1>7, ProceedSound
<1>8. CASE Crash
  BY <1>5, <1>8 DEF Crash
<1>9. CASE \E t \in Tasks : Cancel(t) \/ Begin(t) \/ Proceed(t)
  BY <1>5, <1>6, <1>7, <1>9 DEF Cancel
<1> QED BY <1>4, <1>8, <1>9 DEF Next

(* While no deletion was cut and no bitmap written back stale, every inode *)
(* is in the directory of one caller, and there the volume and what each   *)
(* operation knows of it agree: callers with directories of their own do   *)
(* not disturb one another, though the code locks no directory.            *)
THEOREM NamespaceConsistent ==
  ASSUME Separate, Proper, Removals
  PROVE  Spec => []Consistency
<1>1. Init => Consistency /\ Typed
  BY ConsistentAtFirst, TypedInit
<1>2. Consistency /\ Typed /\ [Next]_vars => (Consistency /\ Typed)'
  <2>1. ASSUME Consistency, Typed, [Next]_vars
        PROVE  Consistency' /\ Typed'
    <3>1. Typed'
      BY <2>1, TypedNext
    <3> QED BY <2>1, <3>1, ConsistentNext
  <2> QED BY <2>1
<1> QED BY <1>1, <1>2, PTL DEF Spec

-----------------------------------------------------------------------------
(* What follows from the invariant for the properties of the runs.         *)

(* Between operations what is used belongs to an inode, or was lost.       *)
NothingKept ==
  Quiet /\ doomed \cup clobbered = {} =>
    used = lost \cup ({inodes[i].ext : i \in bits} \ {None})

LEMMA Undoomed ==
  ASSUME Typed, NEW own \in Owners, Consistent(own)
  PROVE  bits \ Doomed \subseteq Sound
<1>1. ASSUME NEW t \in Tasks, pc[t] = "clear"
      PROVE  loc[t].child.inumber \in Doomed
  <2>1. Unlinking(own, t)
    BY <1>1, UnlinkingIs DEF Deleting
  <2> QED BY <1>1, <2>1 DEF Unlinking, Doomed
<1> QED BY <1>1 DEF Sound, Emptied

(* What a sound directory lists is there; what a deletion is removing is   *)
(* excused by the property too.                                            *)
LEMMA EntriesResolveWhen ==
  ASSUME Typed, Consistency, Intact
  PROVE  EntriesResolve
<1>1. PICK own \in Owners : Consistent(own)
  BY DEF Consistency
<1>2. bits \ Doomed \subseteq Sound /\ Counted \subseteq bits
  BY <1>1, Undoomed, Inside
<1>3. \A t \in Tasks : loc[t].doomed \subseteq Doomed
  BY DEF Doomed
<1>4. ASSUME NEW i \in bits \ Doomed
      PROVE  /\ \A e \in EntriesOf(i) : e.inumber \in bits \cup Doomed
             /\ inodes[i].kind = "Hardlink" =>
                  LET j == Bytes(inodes[i].ext).target
                  IN  j \in Doomed \/ (j \in bits /\ inodes[j].kind = "File")
  <2>1. NodeSound(own, i)
    BY <1>1, <1>2 DEF Consistent, Shared, NodesSound
  <2>2. \A e \in EntriesOf(i) : e.inumber \in bits \cup Doomed
    BY <1>2, <1>3, <2>1 DEF NodeSound, DirectorySound, Leads, Excused
  <2>3. inodes[i].kind = "Hardlink" =>
          TargetOf(i) \in Doomed
          \/ (TargetOf(i) \in bits /\ inodes[TargetOf(i)].kind = "File")
    BY <1>2, <1>3, <2>1 DEF NodeSound, HardlinkSound, Leads, ExcusedLink
  <2> QED BY <2>2, <2>3 DEF TargetOf
<1> QED BY <1>4 DEF EntriesResolve

(* Sound inodes have their own content.                                    *)
LEMMA ContentIsOwnWhen ==
  ASSUME Typed, Consistency, Intact
  PROVE  ContentIsOwn
<1>1. PICK own \in Owners : Consistent(own)
  BY DEF Consistency
<1>2. bits \ Doomed \subseteq Sound
  BY <1>1, Undoomed
<1>3. \A i \in Sound : inodes[i].ext # None =>
        /\ inodes[i].ext \in used
        /\ disk[inodes[i].ext].form = FormOf(inodes[i].kind)
        /\ \A j \in Sound \ {i} : inodes[j].ext # inodes[i].ext
  BY <1>1 DEF Consistent, Shared, ContentSound
<1> QED BY <1>2, <1>3 DEF ContentIsOwn

(* Between operations nobody holds, has begun or empties anything.         *)
LEMMA QuietParts ==
  ASSUME Typed, Quiet
  PROVE  /\ Sound = bits /\ Counted = Linked /\ Held = {}
         /\ \A t \in Tasks : ~Removing(t)
<1>1. \A t \in Tasks : pc[t] = "idle" /\ loc[t] = Idle
  BY DEF Quiet, Typed, Placed
<1>2. \A t \in Tasks : loc[t].held = {} /\ loc[t].born = {}
  BY <1>1 DEF Idle
<1>3. Held = {} /\ Born = {} /\ Emptied = {}
  BY <1>1, <1>2 DEF Held, Born, Emptied
<1> QED BY <1>1, <1>3 DEF Sound, Counted, Linked, Removing, Deleting

(* Between operations nothing is left uncounted.                           *)
LEMMA LinkCountsWhen ==
  ASSUME Typed, Consistency, Countable
  PROVE  LinkCounts
<1>1. SUFFICES ASSUME Quiet, doomed \cup clobbered = {}, NEW i \in Linked \ {Root}
               PROVE  inodes[i].nlink
                        = Cardinality(EntriesTo(i)) + Cardinality(HardlinksTo(i))
  BY DEF LinkCounts
<1>2. PICK own \in Owners : Consistent(own)
  BY <1>1 DEF Consistency, Intact
<1>3. Sound = bits /\ Counted = Linked /\ \A t \in Tasks : ~Removing(t)
  BY <1>1, QuietParts
<1>4. Counted \subseteq Sound
  BY Inside
<1>5. \A k \in Counted : \A e \in EntriesOf(k) : Leads(own, k, e.inumber)
  BY <1>2, <1>3, <1>4 DEF Consistent, Shared, NodesSound, NodeSound, DirectorySound, Excused
<1>6. \A k \in Counted : inodes[k].kind = "Hardlink" =>
        own[k] \in Tasks /\ Leads(own, k, TargetOf(k))
  BY <1>2, <1>3, <1>4 DEF Consistent, Shared, NodesSound, NodeSound, HardlinkSound, ExcusedLink
<1>7. EntriesTo(i) = EntryRefs(own, i)
  <2>1. ASSUME NEW r \in Linked \X UNION {EntriesOf(k) : k \in Linked},
               r[2] \in EntriesOf(r[1]), r[2].inumber = i
        PROVE  own[r[1]] \in {own[i], NoTask}
    BY <1>3, <1>5, <2>1 DEF Leads
  <2> QED BY <1>3, <2>1 DEF EntriesTo, EntryRefs
<1>8. HardlinksTo(i) = LinkRefs(own, i)
  <2>1. \A j \in Linked : inodes[j].kind = "Hardlink" /\ TargetOf(j) = i => own[j] = own[i]
    BY <1>3, <1>6, SharingAssumption DEF Leads
  <2> QED BY <1>3, <2>1 DEF HardlinksTo, LinkRefs, TargetOf
<1>9. Extra(own, i) = 0
  <2>1. \A t \in Tasks : ~Surplus(own, t, i)
    BY <1>1, <1>3 DEF Surplus, Quiet
  <2> QED BY <2>1 DEF Extra
<1>10. inodes[i].nlink + Extra(own, i)
         = Cardinality(EntryRefs(own, i)) + Cardinality(LinkRefs(own, i))
  BY <1>1, <1>2, <1>3 DEF Consistent, Shared, CountsRight
<1>11. inodes[i].nlink \in Nat
  BY <1>1, <1>3, <1>4, Inside
<1> QED BY <1>7, <1>8, <1>9, <1>10, <1>11

(* Between operations nobody holds an extent.                              *)
LEMMA NothingKeptWhen ==
  ASSUME Typed, Consistency
  PROVE  NothingKept
<1>1. SUFFICES ASSUME Quiet, doomed \cup clobbered = {}
               PROVE  used = lost \cup ({inodes[i].ext : i \in bits} \ {None})
  BY DEF NothingKept
<1>2. PICK own \in Owners : Consistent(own)
  BY <1>1 DEF Consistency, Intact
<1>3. Sound = bits /\ Held = {}
  BY <1>1, QuietParts
<1>4. None \notin used
  BY Inside DEF Typed, StateTyped
<1>5. lost \subseteq used /\ used \subseteq lost \cup {inodes[i].ext : i \in bits}
  BY <1>2, <1>3 DEF Consistent, Shared, ExtentsAccounted
<1>6. \A i \in bits : inodes[i].ext # None => inodes[i].ext \in used
  BY <1>2, <1>3 DEF Consistent, Shared, ContentSound
<1> QED BY <1>4, <1>5, <1>6

LEMMA TypedAlways == Spec => []Typed
<1>1. Init => Typed
  BY TypedInit
<1>2. Typed /\ [Next]_vars => Typed'
  BY TypedNext
<1> QED BY <1>1, <1>2, PTL DEF Spec

(* Through every step of every operation, and after calls that failed or   *)
(* were cut, no entry and no hardlink leads to an inode that is not there: *)
(* fwrite, mkdir and fmove register an inode before they name it, and      *)
(* unlink frees it under an entry that is about to go.                     *)
THEOREM NamespaceResolves ==
  ASSUME Separate, Proper, Removals
  PROVE  Spec => [](Intact => EntriesResolve)
<1>1. Spec => []Consistency
  BY NamespaceConsistent
<1>2. Typed /\ Consistency => (Intact => EntriesResolve)
  BY EntriesResolveWhen
<1> QED BY <1>1, <1>2, TypedAlways, PTL

(* The content that an inode points to is in use, is that of no other      *)
(* inode, and has the form that its kind says: register_inode comes before *)
(* free_full_extent, and new content is stored where nothing else is.      *)
THEOREM NamespaceContent ==
  ASSUME Separate, Proper, Removals
  PROVE  Spec => [](Intact => ContentIsOwn)
<1>1. Spec => []Consistency
  BY NamespaceConsistent
<1>2. Typed /\ Consistency => (Intact => ContentIsOwn)
  BY ContentIsOwnWhen
<1> QED BY <1>1, <1>2, TypedAlways, PTL

(* Between operations nlink is the number of entries and hardlinks that    *)
(* lead to an inode: so unlink frees an inode with its last name and not   *)
(* before.                                                                 *)
THEOREM NamespaceCounts ==
  ASSUME Separate, Proper, Removals, Countable
  PROVE  Spec => []LinkCounts
<1>1. Spec => []Consistency
  BY NamespaceConsistent
<1>2. Typed /\ Consistency => LinkCounts
  BY LinkCountsWhen
<1> QED BY <1>1, <1>2, TypedAlways, PTL

(* Between operations every extent in use is the content of an inode, or   *)
(* was left behind by an operation that failed or was cut.                 *)
THEOREM NamespaceAccounts ==
  ASSUME Separate, Proper, Removals
  PROVE  Spec => []NothingKept
<1>1. Spec => []Consistency
  BY NamespaceConsistent
<1>2. Typed /\ Consistency => NothingKept
  BY NothingKeptWhen
<1> QED BY <1>1, <1>2, TypedAlways, PTL

-----------------------------------------------------------------------------
(* Where nobody unlinks there is no deletion to cut and no bitmap is       *)
(* written back stale, so that the invariant holds without a condition.    *)

(* Where nobody unlinks no deletion is cut, and no bitmap is stale when it *)
(* is written back: only who has the guard changes one.                    *)
Afresh(t) ==
  guard = t =>
    loc[t].snap =
      bits \cap INodesOf(GroupOf(IF pc[t] = "born" THEN loc[t].inum
                                 ELSE Registered(t).inumber))
Calm == Intact /\ \A t \in Tasks : loc[t].doomed = {} /\ Afresh(t)

Harmless(t) ==
  /\ doomed' \subseteq doomed \cup loc[t].doomed /\ clobbered' = clobbered
  /\ \A u \in Tasks \ {t} : loc'[u] = loc[u] /\ pc'[u] = pc[u]
  /\ loc'[t].doomed \in {loc[t].doomed, {}}
  /\ bits' = bits /\ guard' = guard

LEMMA FailHarmless ==
  ASSUME Typed, NEW t \in Tasks, Fail(t)
  PROVE  Harmless(t)
<1>1. guard' = guard
  BY DEF Fail
<1> QED BY <1>1, FailFacts DEF Typed, Others, Harmless, Idle

LEMMA ReturnHarmless ==
  ASSUME Typed, NEW t \in Tasks, Return(t), UNCHANGED <<doomed, clobbered>>,
         UNCHANGED <<bits, guard>>
  PROVE  Harmless(t)
<1>1. /\ Others(t) /\ pc'[t] = "idle" /\ loc'[t] = Idle
  BY DEF Return, Goto, Typed, StateTyped, Others
<1> QED BY <1>1 DEF Others, Harmless, Idle

LEMMA StoreHarmless ==
  ASSUME Typed, NEW t \in Tasks, NEW b, NEW inode, NEW label,
         StoreFor(t, b, inode, label)
  PROVE  Harmless(t)
<1>1. CASE Insufficient(b) /\ Fail(t)
  BY <1>1, FailHarmless
<1>2. CASE ~(Insufficient(b) /\ Fail(t))
  <2>1. PICK e \in Extents \cup {None} :
          /\ loc' = [loc EXCEPT ![t].put = [inode EXCEPT !.ext = e],
                                ![t].old = inode.ext,
                                ![t].held = @ \cup ({e} \ {None})]
          /\ Goto(t, label)
          /\ UNCHANGED <<bits, inodes, guard, op, history>>
    BY <1>2 DEF StoreFor
  <2>2. loc \in [Tasks -> Locals] /\ pc \in [Tasks -> PCs]
    BY DEF Typed, StateTyped
  <2> QED BY <2>1, <2>2 DEF Goto, Harmless, Locals, history
<1> QED BY <1>1, <1>2

LEMMA FollowHarmless ==
  ASSUME Typed, NEW t \in Tasks, NEW label, Follow(t, label)
  PROVE  Harmless(t)
<1>1. CASE Fail(t)
  BY <1>1, FailHarmless
<1>2. CASE ~Fail(t)
  BY <1>2 DEF Follow, FollowTo, Private, device, history, Goto, Harmless,
              Typed, StateTyped, Locals
<1> QED BY <1>1, <1>2

LEMMA ProceedHarmless ==
  ASSUME Typed, NEW t \in Tasks, pc[t] # "idle" => op[t] # "unlink",
         Proceed(t),
         ~ChooseInode(t), ~BornInode(t), pc[t] \notin Registering
  PROVE  Harmless(t)
<1>1. loc \in [Tasks -> Locals] /\ pc \in [Tasks -> PCs]
  BY DEF Typed, StateTyped
<1>2. /\ Fail(t) => Harmless(t)
      /\ \A b, inode, label : StoreFor(t, b, inode, label) => Harmless(t)
      /\ \A label : Follow(t, label) => Harmless(t)
      /\ Return(t) /\ UNCHANGED <<doomed, clobbered>> /\ UNCHANGED <<bits, guard>>
           => Harmless(t)
  BY FailHarmless, StoreHarmless, FollowHarmless, ReturnHarmless
<1>3. pc[t] \notin Deleting /\ ~(pc[t] = "parent" /\ op[t] = "unlink")
  BY DEF Typed, Placed, Deleting
<1>4. Walk(t) => Harmless(t)
  BY <1>1, <1>2 DEF Walk, At, Private, device, history, Goto, Harmless, Locals
<1>5. ContentResolved(t) => Harmless(t)
  BY <1>1, <1>2 DEF ContentResolved, At, Private, device, history, Goto, Harmless, Locals
<1>6. LookupWrite(t) => Harmless(t)
  BY <1>1, <1>2 DEF LookupWrite, At, Private, device, history, Goto, Harmless, Locals
<1>7. SourceResolved(t) => Harmless(t)
  BY <1>1, <1>2 DEF SourceResolved, At, Private, device, history, Goto, Harmless, Locals
<1>8. LookupMove(t) => Harmless(t)
  BY <1>1, <1>2 DEF LookupMove, At, Private, device, history, Goto, Harmless, Locals
<1>9. MkdirComponent(t) => Harmless(t)
  BY <1>1, <1>2 DEF MkdirComponent, At, Private, device, history, Goto, Harmless, Locals
<1>10. ListReached(t) => Harmless(t)
  BY <1>1, <1>2 DEF ListReached, At, Private, device, history, Goto, Harmless, Locals
<1>11. AppendReached(t) => Harmless(t)
  BY <1>1, <1>2 DEF AppendReached, At, Private, device, history, Goto, Harmless, Locals
<1>12. ReadReached(t) => Harmless(t)
  BY <1>1, <1>2 DEF ReadReached, At, Private, device, history, Goto, Harmless, Locals
<1>13. Replace(t) => Harmless(t)
  BY <1>1, <1>2 DEF Replace, At, Private, device, history, Goto, Harmless, Locals
<1>14. StoreData(t) => Harmless(t)
  <2>1. SUFFICES ASSUME StoreData(t), ~Fail(t) PROVE Harmless(t)
    BY <1>2
  <2>2. PICK e \in Extents \cup {None} :
          /\ loc' = [loc EXCEPT ![t].child.ext = e,
                                ![t].held = @ \cup ({e} \ {None})]
          /\ Goto(t, "choose")
          /\ UNCHANGED <<bits, inodes, guard, op, history>>
    BY <2>1 DEF StoreData
  <2> QED BY <1>1, <2>2 DEF Goto, Harmless, Locals, history
<1>15. Rewrite(t) => Harmless(t)
  BY <1>1, <1>2 DEF Rewrite, At, Private, device, history, Goto, Harmless, Locals
<1>16. RewriteDest(t) => Harmless(t)
  <2>1. SUFFICES ASSUME RewriteDest(t), ~Fail(t) PROVE Harmless(t)
    BY <1>2
  <2>2. PICK e \in Extents :
          /\ loc' = [loc EXCEPT ![t].dput = [loc[t].dparent EXCEPT !.ext = e],
                                ![t].dold = loc[t].dparent.ext,
                                ![t].held = @ \cup {e}]
          /\ Goto(t, "commitDest")
          /\ UNCHANGED <<bits, inodes, guard, op, history>>
    BY <2>1 DEF RewriteDest
  <2> QED BY <1>1, <2>2 DEF Goto, Harmless, Locals, history
<1>17. ReleaseOld(t) => Harmless(t)
  BY <1>1, <1>2 DEF ReleaseOld, Release, At, Private, device, history, Goto, Harmless, Locals
<1>18. ReleaseDest(t) => Harmless(t)
  BY <1>1, <1>2 DEF ReleaseDest, Release, At, Private, device, history, Goto, Harmless, Locals
<1>19. ~LookupUnlink(t) /\ ~FollowLink(t) /\ ~DeleteNext(t) /\ ~DropLink(t)
       /\ ~FreeINode(t) /\ ~ClearBit(t)
  BY <1>3 DEF LookupUnlink, FollowLink, DeleteNext, DropLink, FreeINode, ClearBit, Deleting, At
<1>20. ~ReadBitmap(t) /\ ~CommitDest(t) /\ ~Commit(t) /\ ~BumpLink(t)
  BY DEF ReadBitmap, CommitDest, Commit, BumpLink, Registering
<1> QED BY <1>4, <1>5, <1>6, <1>7, <1>8, <1>9, <1>10, <1>11, <1>12, <1>13, <1>14, <1>15, <1>16, <1>17, <1>18, <1>19, <1>20 DEF Proceed

-----------------------------------------------------------------------------
(* That calm is kept by every step.                                        *)

LEMMA GroupIsOne ==
  ASSUME NEW g \in Groups, NEW i \in INodesOf(g)
  PROVE  i \in INumbers /\ GroupOf(i) = g
<1> DEFINE n == InodesPerGroup
           h == GroupOf(i)
<1>1. i \in INumbers
  BY GroupsInside
<1>2. h \in Groups /\ i \in INodesOf(h)
  BY <1>1, GroupsCover
<1>3. n \in Nat /\ n > 0 /\ h \in Int /\ g \in Int
  BY <1>2, SizeAssumption DEF Groups
<1>4. ASSUME NEW a \in Int, NEW b \in Int, a < b, i \in INodesOf(a), i \in INodesOf(b)
      PROVE  FALSE
  <2>1. i <= (a + 1) * n /\ b * n + 1 <= i /\ i \in Int
    BY <1>3, <1>4 DEF INodesOf
  <2>2. (a + 1) * n <= b * n
    BY <1>3, <1>4
  <2>3. (a + 1) * n \in Int /\ b * n \in Int
    BY <1>3, <1>4
  <2> QED BY <2>1, <2>2, <2>3
<1>5. h = g
  <2>1. ~(h < g) /\ ~(g < h)
    BY <1>2, <1>3, <1>4
  <2> QED BY <1>3, <2>1
<1> QED BY <1>1, <1>5

(* At a step that registers an inode nothing else is done.                 *)
LEMMA ProceedElsewhere ==
  ASSUME Typed, NEW t \in Tasks, pc[t] # "idle" => op[t] # "unlink", Proceed(t),
         ~BornInode(t), ~ReadBitmap(t), ~(Commit(t) \/ CommitDest(t) \/ BumpLink(t))
  PROVE  pc[t] \notin Registering \cup {"born"}
<1>1. SUFFICES ASSUME pc[t] \in {"born", "commit", "commitDest", "bump"} PROVE FALSE
  BY DEF Registering, Typed, Placed, Deleting
<1>2. /\ ~Walk(t) /\ ~ContentResolved(t) /\ ~LookupWrite(t) /\ ~LookupUnlink(t)
      /\ ~SourceResolved(t) /\ ~LookupMove(t) /\ ~MkdirComponent(t) /\ ~ListReached(t)
      /\ ~AppendReached(t) /\ ~ReadReached(t)
  BY <1>1 DEF Walk, ContentResolved, LookupWrite, LookupUnlink, SourceResolved, LookupMove,
              MkdirComponent, ListReached, AppendReached, ReadReached, At
<1>3. /\ ~Replace(t) /\ ~StoreData(t) /\ ~ChooseInode(t) /\ ~Rewrite(t) /\ ~RewriteDest(t)
      /\ ~ReleaseOld(t) /\ ~ReleaseDest(t)
  BY <1>1 DEF Replace, StoreData, ChooseInode, Rewrite, RewriteDest, ReleaseOld, ReleaseDest
<1>4. ~FollowLink(t) /\ ~DeleteNext(t) /\ ~DropLink(t) /\ ~FreeINode(t) /\ ~ClearBit(t)
  BY <1>1 DEF FollowLink, DeleteNext, DropLink, FreeINode, ClearBit
<1> QED BY <1>2, <1>3, <1>4 DEF Proceed

LEMMA ChooseCalm ==
  ASSUME Typed, NEW t \in Tasks, Calm, Guarded, ChooseInode(t)
  PROVE  Calm'
<1>1. CASE Fail(t)
  <2>1. /\ doomed' = doomed \cup loc[t].doomed /\ clobbered' = clobbered
        /\ Others(t) /\ loc'[t] = Idle /\ bits' = bits
    BY <1>1, FailFacts DEF Typed
  <2>2. Idle.doomed = {}
    BY DEF Idle
  <2>3. guard = NoTask /\ guard' = guard
    BY <1>1 DEF ChooseInode, Fail
  <2>4. \A u \in Tasks : Afresh(u)'
    BY <2>3, SharingAssumption DEF Afresh
  <2> QED BY <2>1, <2>2, <2>4 DEF Calm, Intact, Others
<1>2. CASE ~Fail(t)
  <2> DEFINE free == FreeIn(Nearest(t))
  <2>1. PICK i, s : /\ i = (CHOOSE k \in free : \A j \in free : k <= j)
                    /\ s = bits \cap INodesOf(Nearest(t))
    OBVIOUS
  <2>2. /\ loc' = [loc EXCEPT ![t].inum = i, ![t].snap = s] /\ Goto(t, "born")
        /\ UNCHANGED <<bits, doomed, clobbered>> /\ pc[t] = "choose"
        /\ guard' = t /\ bits # INumbers
    BY <1>2, <2>1 DEF ChooseInode, device, history
  <2>3. loc[t].parent.inumber \in INumbers /\ bits \subseteq INumbers
    <3>1. loc[t].parent.inumber # None
      BY <2>2 DEF Typed, Supplied
    <3> QED BY <3>1, LocalsTyped, INodeFields DEF Typed, StateTyped
  <2>4. Nearest(t) \in Groups /\ free # {}
    BY <2>2, <2>3, NearestIsFree
  <2>5. free \subseteq INodesOf(Nearest(t)) /\ free \subseteq Nat
    BY <2>4, GroupsInside, RootIsANumber DEF FreeIn
  <2>6. i \in free
    <3> HIDE DEF free
    <3> QED BY <2>1, <2>4, <2>5, ChosenIsFree
  <2>7. GroupOf(i) = Nearest(t)
    BY <2>4, <2>5, <2>6, GroupIsOne
  <2> HIDE DEF free
  <2>8. /\ loc'[t].inum = i /\ loc'[t].snap = s /\ loc'[t].doomed = loc[t].doomed
        /\ pc'[t] = "born" /\ \A u \in Tasks \ {t} : loc'[u] = loc[u]
    BY <2>2 DEF Typed, StateTyped, Locals, Goto
  <2>9. \A u \in Tasks : Afresh(u)'
    BY <2>1, <2>2, <2>7, <2>8 DEF Afresh
  <2> QED BY <2>2, <2>8, <2>9 DEF Calm, Intact
<1> QED BY <1>1, <1>2

LEMMA BornCalm ==
  ASSUME Typed, NEW t \in Tasks, Calm, Guarded, BornInode(t)
  PROVE  Calm'
<1>1. PICK i : i = loc[t].inum
  OBVIOUS
<1>2. /\ pc[t] = "born" /\ Clobber(t, i) /\ guard' = NoTask /\ doomed' = doomed
  BY <1>1 DEF BornInode
<1>3. loc'[t].doomed = loc[t].doomed /\ \A u \in Tasks \ {t} : loc'[u] = loc[u]
  BY DEF BornInode, Typed, StateTyped, Locals
<1>4. clobbered' = {}
  <2>1. loc[t].snap = bits \cap INodesOf(GroupOf(i)) /\ clobbered = {}
    BY <1>1, <1>2 DEF Calm, Afresh, Intact, Guarded
  <2> QED BY <1>2, <2>1 DEF Clobber
<1>5. \A u \in Tasks : Afresh(u)'
  BY <1>2, SharingAssumption DEF Afresh
<1> QED BY <1>2, <1>3, <1>4, <1>5 DEF Calm, Intact

(* The copy of the bitmap is what the bitmap is.                           *)
LEMMA ReadBitmapCalm ==
  ASSUME Typed, NEW t \in Tasks, Calm, ReadBitmap(t)
  PROVE  Calm'
<1>1. PICK s : s = bits \cap INodesOf(GroupOf(Registered(t).inumber))
  OBVIOUS
<1>2. /\ loc' = [loc EXCEPT ![t].snap = s] /\ pc' = pc /\ guard' = t /\ pc[t] # "born"
      /\ UNCHANGED <<bits, doomed, clobbered>>
  BY <1>1 DEF ReadBitmap, Registering, device, history
<1>3. /\ loc'[t].snap = s /\ loc'[t].doomed = loc[t].doomed
      /\ loc'[t].put = loc[t].put /\ loc'[t].dput = loc[t].dput
      /\ loc'[t].target = loc[t].target /\ loc'[t].child = loc[t].child
      /\ \A u \in Tasks \ {t} : loc'[u] = loc[u]
  BY <1>2 DEF Typed, StateTyped, Locals
<1>4. Registered(t)' = Registered(t)
  BY <1>2, <1>3 DEF Registered
<1>5. \A u \in Tasks : Afresh(u)'
  BY <1>1, <1>2, <1>3, <1>4 DEF Afresh
<1> QED BY <1>2, <1>3, <1>5 DEF Calm, Intact

(* The guard was held since the bitmap was read, so no bit changed.        *)
LEMMA RegisterCalm ==
  ASSUME Typed, NEW t \in Tasks, Calm, NEW x, Register(t, x), pc[t] # "born",
         x.inumber = Registered(t).inumber, doomed' = doomed,
         loc'[t].doomed \in {loc[t].doomed, {}},
         \A u \in Tasks \ {t} : loc'[u] = loc[u]
  PROVE  Calm'
<1>1. guard = t /\ guard' = NoTask /\ Clobber(t, x.inumber)
  BY DEF Register
<1>2. clobbered' = {}
  <2>1. loc[t].snap = bits \cap INodesOf(GroupOf(x.inumber)) /\ clobbered = {}
    BY <1>1 DEF Calm, Afresh, Intact
  <2> QED BY <1>1, <2>1 DEF Clobber
<1>3. \A u \in Tasks : Afresh(u)'
  BY <1>1, SharingAssumption DEF Afresh
<1> QED BY <1>2, <1>3 DEF Calm, Intact

(* Where nobody unlinks, the bitmap that a registration writes back is the *)
(* one there is, with its own bit set.                                     *)
LEMMA RegisteringCalm ==
  ASSUME Typed, NEW t \in Tasks, Calm, Commit(t) \/ CommitDest(t) \/ BumpLink(t)
  PROVE  Calm'
<1>1. Idle.doomed = {}
  BY DEF Idle
<1>2. ASSUME Return(t)
      PROVE  loc'[t] = Idle /\ \A u \in Tasks \ {t} : loc'[u] = loc[u]
  BY <1>2 DEF Return, Typed, StateTyped
<1>3. CASE Commit(t)
  <2>1. /\ Register(t, loc[t].put) /\ pc[t] = "commit" /\ doomed' = doomed
        /\ Registered(t) = loc[t].put
    BY <1>3 DEF Commit, Registered
  <2>2. CASE Return(t)
    BY <1>1, <1>2, <2>1, <2>2, RegisterCalm
  <2>3. CASE ~Return(t)
    <3>1. PICK r \in Locals :
            /\ r = [loc[t] EXCEPT !.held = (loc[t].held \cup {loc[t].old})
                                              \ {loc[t].put.ext, None},
                                  !.born = {}]
            /\ Moves(t, "release", r)
      BY <1>3, <2>3, CommitSteps
    <3>2. loc' = [loc EXCEPT ![t] = r] /\ loc[t] \in Locals
      BY <3>1 DEF Moves, Typed, StateTyped
    <3>3. loc'[t].doomed = loc[t].doomed /\ \A u \in Tasks \ {t} : loc'[u] = loc[u]
      BY <3>1, <3>2 DEF Typed, StateTyped, Locals
    <3> QED BY <2>1, <3>3, RegisterCalm
  <2> QED BY <2>2, <2>3
<1>4. CASE CommitDest(t)
  <2>1. /\ Register(t, loc[t].dput) /\ pc[t] = "commitDest" /\ doomed' = doomed
        /\ Registered(t) = loc[t].dput
    BY <1>4 DEF CommitDest, Registered
  <2>2. PICK h : loc' = [loc EXCEPT ![t].held = h]
    BY <1>4 DEF CommitDest
  <2>3. loc'[t].doomed = loc[t].doomed /\ \A u \in Tasks \ {t} : loc'[u] = loc[u]
    BY <2>2 DEF Typed, StateTyped, Locals
  <2> QED BY <2>1, <2>3, RegisterCalm
<1>5. CASE BumpLink(t)
  <2>1. PICK x : x = Raised(t)
    OBVIOUS
  <2>2. /\ Register(t, x) /\ x.inumber = loc[t].target.inumber /\ Return(t)
        /\ doomed' = doomed
    BY <1>5, <2>1, BumpLinkSteps
  <2>3. pc[t] = "bump" /\ Registered(t) = loc[t].target
    BY <1>5 DEF BumpLink, Registered
  <2> QED BY <1>1, <1>2, <2>2, <2>3, RegisterCalm
<1> QED BY <1>3, <1>4, <1>5

LEMMA BeginCalm ==
  ASSUME Typed, NEW t \in Tasks, Calm, Guarded, Begin(t)
  PROVE  Calm'
<1>1. PICK o \in AllOps, label \in PCs, r \in Locals : \E p, q, rest :
             /\ Begins(t, o, label, p, q, rest) /\ Begun(r, p, q, rest)
             /\ Start(t, o, label, r)
  BY BeginSteps
<1>2. Start(t, o, label, r) /\ r.doomed = {}
  BY <1>1 DEF Begins, Begun
<1>3. pc[t] = "idle" /\ loc'[t] = r /\ Others(t) /\ Kept
  BY <1>2, StartSteps
<1>4. guard # t
  BY <1>3 DEF Guarded, Registering
<1>5. \A u \in Tasks : Afresh(u)'
  <2>1. ASSUME NEW u \in Tasks \ {t} PROVE Afresh(u)'
    <3>1. loc'[u] = loc[u] /\ pc'[u] = pc[u] /\ bits' = bits /\ guard' = guard
      BY <1>3 DEF Others, Kept
    <3> QED BY <3>1 DEF Calm, Afresh, Registered
  <2>2. Afresh(t)'
    BY <1>3, <1>4 DEF Afresh, Kept
  <2> QED BY <2>1, <2>2
<1> QED BY <1>2, <1>3, <1>5 DEF Calm, Intact, Others, Kept

LEMMA StopCalm ==
  ASSUME Typed, NEW S \in SUBSET Tasks, Calm, Stop(S)
  PROVE  Calm'
<1>1. /\ \A u \in S : loc'[u] = Idle
      /\ \A u \in Tasks \ S : pc'[u] = pc[u] /\ loc'[u] = loc[u]
      /\ doomed' = doomed \cup UNION {loc[t].doomed : t \in S}
      /\ UNCHANGED <<bits, clobbered>>
      /\ guard' = DropGuard(S)
  BY StopSteps
<1>2. Idle.doomed = {} /\ doomed' = {}
  BY <1>1 DEF Idle, Calm, Intact
<1>3. ASSUME NEW u \in Tasks PROVE loc'[u].doomed = {} /\ Afresh(u)'
  <2>1. loc'[u].doomed = {}
    BY <1>1, <1>2 DEF Calm
  <2>2. guard' = u => u \notin S /\ guard = u
    BY <1>1, SharingAssumption DEF DropGuard
  <2>3. Afresh(u)'
    BY <1>1, <2>2 DEF Calm, Afresh, Registered
  <2> QED BY <2>1, <2>3
<1> QED BY <1>1, <1>2, <1>3 DEF Calm, Intact

(* Calm is inductive where nobody unlinks.                                 *)
LEMMA CalmNext ==
  ASSUME "unlink" \notin Ops, Typed, Consistency, Calm, [Next]_vars
  PROVE  Calm'
<1>1. PICK own \in Owners : Consistent(own)
  BY DEF Calm, Consistency
<1>2. Guarded /\ \A t \in Tasks : pc[t] # "idle" => op[t] # "unlink"
  BY <1>1 DEF Consistent, Shared, TaskSound, Given
<1>3. CASE UNCHANGED vars
  BY <1>3 DEF vars, Calm, Intact, Afresh, Registered
<1>4. ASSUME NEW S \in SUBSET Tasks, Stop(S) PROVE Calm'
  BY <1>4, StopCalm
<1>5. ASSUME NEW t \in Tasks, Begin(t) PROVE Calm'
  BY <1>2, <1>5, BeginCalm
<1>6. ASSUME NEW t \in Tasks, Proceed(t) PROVE Calm'
  <2>1. CASE ChooseInode(t)
    BY <1>2, <2>1, ChooseCalm
  <2>2. CASE BornInode(t)
    BY <1>2, <2>2, BornCalm
  <2>3. CASE ReadBitmap(t)
    BY <2>3, ReadBitmapCalm
  <2>4. CASE Commit(t) \/ CommitDest(t) \/ BumpLink(t)
    BY <2>4, RegisteringCalm
  <2>5. CASE /\ ~ChooseInode(t) /\ ~BornInode(t) /\ ~ReadBitmap(t)
             /\ ~(Commit(t) \/ CommitDest(t) \/ BumpLink(t))
    <3>1. Harmless(t) /\ guard # t
      <4>1. pc[t] \notin Registering
        BY <1>2, <1>6, <2>5, ProceedElsewhere
      <4>2. pc[t] # "born"
        BY <1>2, <1>6, <2>5, ProceedElsewhere
      <4> QED BY <1>2, <1>6, <2>5, <4>1, <4>2, ProceedHarmless DEF Guarded
    <3>2. ASSUME NEW u \in Tasks PROVE loc'[u].doomed = {} /\ Afresh(u)'
      <4>1. loc'[u].doomed = {}
        BY <3>1 DEF Harmless, Calm
      <4>2. Afresh(u)'
        BY <3>1 DEF Harmless, Calm, Afresh, Registered
      <4> QED BY <4>1, <4>2
    <3> QED BY <3>1, <3>2 DEF Harmless, Calm, Intact
  <2> QED BY <2>1, <2>2, <2>3, <2>4, <2>5
<1> QED BY <1>3, <1>4, <1>5, <1>6 DEF Next, Crash, Cancel

(* Where nobody unlinks, entries resolve and content is its inode's own    *)
(* without a condition, whatever crashes and fails: the order of the       *)
(* writes alone protects the tree.                                         *)
THEOREM NamespaceCalm ==
  ASSUME Separate, Proper, "unlink" \notin Ops
  PROVE  Spec => [](EntriesResolve /\ ContentIsOwn)
<1>1. Spec => []Consistency
  BY NamespaceConsistent DEF Removals
<1>2. Init => Calm
  <2>1. ASSUME Init PROVE Calm
    <3>1. /\ doomed = {} /\ clobbered = {} /\ guard = NoTask
          /\ \A t \in Tasks : loc[t] = Idle
      BY <2>1, InitFacts DEF Init
    <3>2. Idle.doomed = {}
      BY DEF Idle
    <3> QED BY <3>1, <3>2, SharingAssumption DEF Calm, Intact, Afresh
  <2> QED BY <2>1
<1>3. Typed /\ Consistency /\ Calm /\ [Next]_vars => Calm'
  BY CalmNext
<1>4. Typed /\ Consistency /\ Calm => EntriesResolve /\ ContentIsOwn
  BY EntriesResolveWhen, ContentIsOwnWhen DEF Calm
<1> QED BY <1>1, <1>2, <1>3, <1>4, TypedAlways, PTL DEF Spec
=============================================================================
