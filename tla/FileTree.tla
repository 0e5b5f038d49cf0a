------------------------------ MODULE FileTree ------------------------------
(***************************************************************************)
(* What one caller of XHFS is promised of the tree of files: a call of     *)
(* fwrite, mkdir, unlink or fmove changes nothing but the path it names,   *)
(* all at once or not at all.  A move between two directories is the one   *)
(* exception the code makes (xhfs-core/src/xhfs/mod.rs, fmove): the file   *)
(* is at both paths before it leaves the first.                            *)
(*                                                                         *)
(* Namespace, which has the inodes, extents and bitmaps, implements this.  *)
(***************************************************************************)
EXTENDS Integers, Sequences

CONSTANTS
  Names,      \* names of directory entries
  Bodies,     \* what callers write
  Overwrite,  \* operations called with WriteOption.overwrite
  Made        \* directories there from the start

VARIABLES
  tree,       \* what can be found at which path
  request     \* the call in progress

vars == <<tree, request>>

Request == [op : {"write", "mkdir", "unlink", "move"},
            path : Seq(Names), dest : Seq(Names), body : Bodies \cup {"empty"},
            recursive : BOOLEAN]
NoRequest == [op |-> "none", path |-> <<>>, dest |-> <<>>, body |-> "empty",
              recursive |-> FALSE]

ParentOf(p) == SubSeq(p, 1, Len(p) - 1)
StartsWith(p, q) == Len(q) <= Len(p) /\ SubSeq(p, 1, Len(q)) = q

DirectoryAt(p) == [path |-> p, kind |-> "Directory", body |-> "empty"]
FileAt(p, x) == [path |-> p, kind |-> "File", body |-> x]

Exists(p) == \E n \in tree : n.path = p
Vacant(p) == ~Exists(p) /\ DirectoryAt(ParentOf(p)) \in tree
Under(p) == {n \in tree : StartsWith(n.path, p)}
Copied(p, q) ==
  {[n EXCEPT !.path = q \o SubSeq(@, Len(p) + 1, Len(@))] : n \in Under(p)}

Init ==
  /\ tree = {DirectoryAt(<<>>)} \cup {DirectoryAt(<<Made[k]>>) : k \in DOMAIN Made}
  /\ request = NoRequest

Call == request = NoRequest /\ request' \in Request /\ UNCHANGED tree
Return == request # NoRequest /\ request' = NoRequest /\ UNCHANGED tree

Create ==
  /\ request.op = "write"
  /\ Vacant(request.path)
  /\ tree' = tree \cup {FileAt(request.path, request.body)}

Replace ==
  /\ request.op = "write"
  /\ "write" \in Overwrite
  /\ \E n \in tree : /\ n.path = request.path
                     /\ n.kind = "File"
                     /\ tree' = (tree \ {n}) \cup {[n EXCEPT !.body = request.body]}

MakeDirectory ==
  /\ request.op = "mkdir"
  /\ request.recursive \/ Len(request.path) = 1
  /\ \E k \in DOMAIN request.path :
       LET p == SubSeq(request.path, 1, k)
       IN  Vacant(p) /\ tree' = tree \cup {DirectoryAt(p)}

Remove ==
  /\ request.op = "unlink"
  /\ \E n \in tree : Under(request.path) = {n} /\ tree' = tree \ {n}

Movable ==
  /\ request.op = "move"
  /\ Exists(request.path)
  /\ Vacant(request.dest)
  /\ ~StartsWith(request.dest, request.path)

Rename ==
  /\ Movable
  /\ ParentOf(request.path) = ParentOf(request.dest)
  /\ tree' = (tree \ Under(request.path)) \cup Copied(request.path, request.dest)

MoveIn ==
  /\ Movable
  /\ ParentOf(request.path) # ParentOf(request.dest)
  /\ tree' = tree \cup Copied(request.path, request.dest)

MoveOut ==
  /\ request.op = "move"
  /\ Under(request.path) # {}
  /\ Copied(request.path, request.dest) = Under(request.dest)
  /\ tree' = tree \ Under(request.path)

Change ==
  /\ Create \/ Replace \/ MakeDirectory \/ Remove \/ Rename \/ MoveIn \/ MoveOut
  /\ UNCHANGED request

Next == Call \/ Change \/ Return
Spec == Init /\ [][Next]_vars
=============================================================================
