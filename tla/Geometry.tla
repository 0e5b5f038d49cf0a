------------------------------ MODULE Geometry ------------------------------
(***************************************************************************)
(* Where things are on a volume (xhfs-core/src/xhfs/ds.rs): the format     *)
(* inferred from the size of the device, the regions of a block group, and *)
(* the addresses of blocks and inodes, with what is recovered from them.   *)
(* Addresses are bytes; a region includes both of its ends, as RegionSlot. *)
(***************************************************************************)
EXTENDS Integers

CONSTANTS
  HeaderBytes,  \* XHFSHeader::serialized_size()
  INodeBytes,   \* INode::serialized_size()
  LengthBytes   \* the bit count in front of a serialized bitmap

ASSUME SizesAssumption ==
  {HeaderBytes, INodeBytes, LengthBytes} \subseteq Nat \ {0}

BlockSizes == {512, 1024, 4096}
Format == [blocks : Nat \ {0}, inodes : Nat \ {0}, blockSize : BlockSizes,
           groups : Nat \ {0}]

-----------------------------------------------------------------------------
(* GeometryLayout: the regions of a group, one right after the other.      *)

Parts == {"header", "data_bitmap", "inode_bitmap", "inode_table", "data"}

InBytes(bits) == (bits + 7) \div 8
BitmapBytes(bits) == LengthBytes + InBytes(bits)

Following(r, size) == [start |-> r.end + 1, end |-> r.end + size]

RelHeader == [start |-> 0, end |-> HeaderBytes - 1]
RelDataBitmap(f) == Following(RelHeader, BitmapBytes(f.blocks))
RelINodeBitmap(f) == Following(RelDataBitmap(f), BitmapBytes(f.inodes))
RelINodeTable(f) == Following(RelINodeBitmap(f), f.inodes * INodeBytes)
RelData(f) == Following(RelINodeTable(f), f.blocks * f.blockSize)

RelRegion(f, part) ==
  CASE part = "header" -> RelHeader
    [] part = "data_bitmap" -> RelDataBitmap(f)
    [] part = "inode_bitmap" -> RelINodeBitmap(f)
    [] part = "inode_table" -> RelINodeTable(f)
    [] part = "data" -> RelData(f)

DataBytesOnly(f) == RelData(f).end + 1 - LengthBytes    \* a length forgotten
GroupStride(f) == RelData(f).end + 1

-----------------------------------------------------------------------------
(* GroupLayout: the regions of one group, and the group from an address.   *)

Region(f, g, part) ==
  [start |-> RelRegion(f, part).start + g * GroupStride(f),
   end |-> RelRegion(f, part).end + g * GroupStride(f)]

DeriveFromAddress(f, addr) == addr \div GroupStride(f)
ZeroBased(f, i) == i \div f.inodes                 \* as if inumber 0 were one
DeriveFromINode(f, i) == (i - 1) \div f.inodes

(* allocate: the address of a block, by its index in the bitmap. *)
BlockAddr(f, g, k) == Region(f, g, "data").start + k * f.blockSize

(* mark_as_reusable: the index, from the address. *)
IndexInVolume(f, addr) == addr \div f.blockSize         \* group ignored
BlockIndex(f, addr) ==
  (addr - Region(f, DeriveFromAddress(f, addr), "data").start) \div f.blockSize

(* resolve_inode_addr. *)
INodeAddr(f, i) == Region(f, DeriveFromINode(f, i), "inode_table").start
                     + INodeBytes * ((i - 1) % f.inodes)

-----------------------------------------------------------------------------
(* Format::infer_from_free_space. *)

InferredBlockSize(capacity) ==
  IF capacity <= 512 * 1024 THEN 512
  ELSE IF capacity <= 4 * 1024 * 1024 THEN 1024
  ELSE 4096

AtMost(n, top) == IF n > top THEN top ELSE n        \* none is not refused
Clamped(n, top) == IF n > top THEN top ELSE IF n < 1 THEN 1 ELSE n

(* The bytes it counts for a group: the bitmaps go without their lengths.  *)
CountedBytes(blocks, inodes, blockSize) ==
  HeaderBytes + InBytes(blocks) + InBytes(inodes) + inodes * INodeBytes
    + blocks * blockSize

Inferred(capacity, blocks, inodes) ==
  LET size == InferredBlockSize(capacity)
      b == Clamped(blocks, size * 8)
      n == Clamped(inodes, size * 8)
  IN  [blocks |-> b, inodes |-> n, blockSize |-> size,
       groups |-> capacity \div CountedBytes(b, n, size)]

Hosts(capacity, blocks, inodes) == Inferred(capacity, blocks, inodes).groups > 0
=============================================================================
