----------------------------- MODULE Formatting -----------------------------
(***************************************************************************)
(* How a volume is made and opened: Config::materialize and FsDevice::new, *)
(* which make or open the files under it, one after the other, then        *)
(* XHFS::format_new or from_formatted (xhfs-core/src/xhfs/mod.rs): the     *)
(* metadata regions of every group are written one by one, the volume is   *)
(* opened through the header of group 0, and the root inode is registered  *)
(* last.  The process may die between any two steps, and what it left be   *)
(* opened or formatted again.                                              *)
(*                                                                         *)
(* Key-value stores keep what they hold; their KVDevice is made without an *)
(* access.  A configuration that validate refuses is not started with.     *)
(***************************************************************************)
EXTENDS Geometry, Sequences

CONSTANTS
  Requests,    \* capacity of the volume, blocks and inodes wanted per group
               \* (format_new wants 20480 and 4096), and the bytes that are
               \* in files, in the order of configuration.logical
  MaxCrashes   \* bound on the number of crashes

ASSUME RequestAssumption ==
  /\ Requests \subseteq [capacity : Nat, blocks : Nat, inodes : Nat,
                         files : Seq([start : Nat, end : Nat])]
  /\ \A r \in Requests : \A k \in DOMAIN r.files : r.files[k].start <= r.files[k].end
  /\ MaxCrashes \in Nat

VARIABLES
  request,   \* the volume, and what is wanted of it
  file,      \* each of its files: absent, whole, or too short
  format,    \* as inferred, or as read from the header
  group,     \* the group being written
  part,      \* its next region
  written,   \* the regions written since their device was new
  root,      \* whether the root inode is registered
  mode,      \* format_new
  at,        \* the file that materialize is at
  pc,
  crashes

volume == <<written, root>>
vars == <<request, file, format, group, part, written, root, mode, at, pc,
          crashes>>

NoFormat == [blocks |-> 0, inodes |-> 0, blockSize |-> 0, groups |-> 0]
Files == DOMAIN request.files

Init ==
  /\ request \in Requests
  /\ file = [k \in Files |-> "absent"]
  /\ format = NoFormat
  /\ group = 0
  /\ part = "header"
  /\ written = {}
  /\ root = FALSE
  /\ mode = "mount"
  /\ at = 1
  /\ pc = "new"
  /\ crashes = 0

-----------------------------------------------------------------------------
(* materialize: the files in their order.                                  *)

Start(m) ==
  /\ pc = "new"
  /\ pc' = "devices"
  /\ mode' = m
  /\ at' = 1
  /\ UNCHANGED <<request, file, format, group, part, volume, crashes>>

Making == pc = "devices" /\ at \in Files
Made == pc = "devices" /\ at \notin Files

(* Whether bytes of a region are in the file k, and whether it has what    *)
(* from_formatted and resolve_inode need to find the root.                 *)
Holds(k, g, p) ==
  /\ Region(format, g, p).start <= request.files[k].end
  /\ request.files[k].start <= Region(format, g, p).end
HoldsRoot(k) ==
  \E p \in {"header", "inode_bitmap", "inode_table"} : Holds(k, 0, p)

(* FsDevice::new with overwrite: a file that is there goes first. *)
RemoveFile ==
  /\ Making
  /\ mode = "format" /\ file[at] # "absent"
  /\ file' = [file EXCEPT ![at] = "absent"]
  /\ written' = {x \in written : ~Holds(at, x[1], x[2])}
  /\ root' = (root /\ ~HoldsRoot(at))
  /\ UNCHANGED <<request, format, group, part, mode, at, pc, crashes>>

(* A file that is absent is made, in an opening too. *)
MakeFile ==
  /\ Making
  /\ file[at] = "absent"
  /\ file' = [file EXCEPT ![at] = "whole"]
  /\ at' = at + 1
  /\ UNCHANGED <<request, format, group, part, volume, mode, pc, crashes>>

ReuseFile ==
  /\ Making
  /\ mode = "mount" /\ file[at] = "whole"
  /\ at' = at + 1
  /\ UNCHANGED <<request, file, format, group, part, volume, mode, pc, crashes>>

RefuseFile ==
  /\ Making
  /\ mode = "mount" /\ file[at] = "short"
  /\ pc' = "new"
  /\ UNCHANGED <<request, file, format, group, part, volume, mode, at, crashes>>

-----------------------------------------------------------------------------
(* format_new infers the same format of the same volume each time.  It is  *)
(* refused for one too small for one group, when its files are made anew.  *)
Infer ==
  /\ Made /\ mode = "format"
  /\ IF Hosts(request.capacity, request.blocks, request.inodes)
       THEN /\ format' = Inferred(request.capacity, request.blocks, request.inodes)
            /\ group' = 0
            /\ part' = "header"
            /\ pc' = "formatting"
       ELSE pc' = "new" /\ UNCHANGED <<format, group, part>>
  /\ UNCHANGED <<request, file, volume, mode, at, crashes>>

NextPart == [header |-> "data_bitmap", data_bitmap |-> "inode_bitmap",
             inode_bitmap |-> "inode_table", inode_table |-> "header"]

RootFirst ==                       \* as if the root were there from the start
  root' = TRUE
RootGoes == root' = (root /\ ~(group = 0 /\ part = "inode_bitmap"))

WriteRegion ==
  /\ pc = "formatting"
  /\ group < format.groups
  /\ Region(format, group, part).end < request.capacity
  /\ written' = written \cup {<<group, part>>}
  /\ RootGoes
  /\ part' = NextPart[part]
  /\ group' = IF part = "inode_table" THEN group + 1 ELSE group
  /\ UNCHANGED <<request, file, format, mode, at, pc, crashes>>

(* The metadata of a group lies past the end of the volume. *)
WriteFails ==
  /\ pc = "formatting"
  /\ group < format.groups
  /\ Region(format, group, part).end >= request.capacity
  /\ pc' = "new"
  /\ UNCHANGED <<request, file, format, group, part, volume, mode, at, crashes>>

(* from_formatted: the header of group 0 has the format.  Of the bitmaps   *)
(* it asks only that they can be read.                                     *)
Readable ==
  /\ <<0, "header">> \in written
  /\ Region(format, format.groups - 1, "data_bitmap").end < request.capacity

Open ==
  /\ \/ pc = "formatting" /\ group = format.groups
     \/ Made /\ mode = "mount"
  /\ pc' = IF ~Readable THEN "new"
           ELSE IF mode = "mount" THEN "open" ELSE "register"
  /\ UNCHANGED <<request, file, format, group, part, volume, mode, at, crashes>>

RegisterRoot ==
  /\ pc = "register"
  /\ root' = TRUE
  /\ pc' = "open"
  /\ UNCHANGED <<request, file, format, group, part, written, mode, at, crashes>>

(* A file being made has any size then. *)
Crash ==
  /\ crashes < MaxCrashes
  /\ crashes' = crashes + 1
  /\ pc' = "new"
  /\ file' \in IF Making /\ file[at] = "absent"
               THEN {file, [file EXCEPT ![at] = "short"]} ELSE {file}
  /\ UNCHANGED <<request, format, group, part, volume, mode, at>>

Next ==
  \/ \E m \in {"format", "mount"} : Start(m)
  \/ RemoveFile \/ MakeFile \/ ReuseFile \/ RefuseFile
  \/ Infer \/ WriteRegion \/ WriteFails \/ Open \/ RegisterRoot \/ Crash

Spec == Init /\ [][Next]_vars

-----------------------------------------------------------------------------
(* Properties.  Those about addresses are of every volume that is ready:   *)
(* load_xhfs asks for the root.                                            *)

Usable == pc = "open" /\ root
Groups == 0 .. (format.groups - 1)
Blocks == 0 .. (format.blocks - 1)
INumbers == 1 .. (format.groups * format.inodes)

Before(r, s) == r.end < s.start
Apart(r, s) == Before(r, s) \/ Before(s, r)

(* Every variable stays in its type, and every format is one that          *)
(* Format::validate accepts: no bitmap is larger than a block.             *)
TypeOK ==
  /\ request \in Requests
  /\ file \in [Files -> {"absent", "short", "whole"}]
  /\ format \in Format \cup {NoFormat}
  /\ format.blocks <= format.blockSize * 8
  /\ format.inodes <= format.blockSize * 8
  /\ group \in 0 .. format.groups
  /\ part \in DOMAIN NextPart
  /\ written \subseteq Groups \X DOMAIN NextPart
  /\ root \in BOOLEAN
  /\ mode \in {"format", "mount"}
  /\ at \in 1 .. (Len(request.files) + 1)
  /\ pc \in {"new", "devices", "formatting", "register", "open"}
  /\ crashes \in Nat

(* The regions of all groups lie within the volume and no two of them      *)
(* share a byte, whatever the format (calculate_relative_geometry and      *)
(* derive_from_group_index).                                               *)
RegionsApart ==
  Usable =>
    \A g \in Groups, p \in Parts :
      LET r == Region(format, g, p)
      IN  /\ 0 <= r.start /\ r.start <= r.end
          /\ r.end < format.groups * GroupStride(format)
          /\ \A h \in Groups, q \in Parts :
               <<g, p>> # <<h, q>> => Apart(r, Region(format, h, q))

(* mark_as_reusable frees the blocks that allocate gave out: from the      *)
(* address of a block it recovers the group and the index it came from.    *)
AddressesInvert ==
  Usable =>
    \A g \in Groups, k \in Blocks :
      LET addr == BlockAddr(format, g, k)
      IN  /\ DeriveFromAddress(format, addr) = g
          /\ BlockIndex(format, addr) = k

INodeSlot(i) == [start |-> INodeAddr(format, i),
                 end |-> INodeAddr(format, i) + INodeBytes - 1]

(* Every inode has a slot of its own in the table of its group, so that    *)
(* register_inode overwrites no other inode and nothing else.              *)
INodesApart ==
  Usable =>
    \A i \in INumbers :
      LET table == Region(format, DeriveFromINode(format, i), "inode_table")
      IN  /\ DeriveFromINode(format, i) \in Groups
          /\ table.start <= INodeSlot(i).start /\ INodeSlot(i).end <= table.end
          /\ \A j \in INumbers : i # j => Apart(INodeSlot(i), INodeSlot(j))

(* With formatting the first file that goes has the beginning of the       *)
(* volume, or there is none.                                               *)
BeginningGoesFirst == request.files = <<>> \/ request.files[1].start = 0

(* The root inode is registered last, and is the first to go: where it is  *)
(* found, the bitmaps and tables of all groups were written, even if       *)
(* crashes cut the making of the files and the formatting.  A              *)
(* configuration that lists the device with the beginning after another is *)
(* an exception: there a formatting cut early leaves the root.             *)
RootMeansFormatted ==
  root /\ BeginningGoesFirst => written = Groups \X DOMAIN NextPart

(* What the check in infer_from_free_space says: a device it accepts has   *)
(* room for the groups it counted.                                         *)
VolumeFits ==
  format # NoFormat => format.groups * GroupStride(format) <= request.capacity
=============================================================================
