--------------------------- MODULE GeometryProofs ---------------------------
(***************************************************************************)
(* Proofs about Geometry and Formatting.  The lemmas are about every       *)
(* format: how far apart the regions, the blocks and the inode slots are,  *)
(* and that an address leads back to what it was made from.  The theorems  *)
(* carry them to every state of a volume through the type invariant.       *)
(***************************************************************************)
EXTENDS Formatting, TLAPS

(* Arithmetic: division by a positive number, and products of naturals.    *)
LEMMA Quotient ==
  ASSUME NEW q \in Nat, NEW d \in Nat \ {0}, NEW r \in 0 .. (d - 1)
  PROVE  (q * d + r) \div d = q
  BY SMT

LEMMA Division ==
  ASSUME NEW n \in Nat, NEW d \in Nat \ {0}
  PROVE  /\ n \div d \in Nat
         /\ n % d \in 0 .. (d - 1)
         /\ n = (n \div d) * d + (n % d)
  BY SMT

LEMMA Product ==
  ASSUME NEW a \in Nat, NEW d \in Nat
  PROVE  a * d \in Nat
  BY SMT

LEMMA PositiveProduct ==
  ASSUME NEW a \in Nat \ {0}, NEW d \in Nat \ {0}
  PROVE  a * d \in Nat \ {0}
  BY SMT

(* Of two different multiples, the lesser is a whole step below.           *)
LEMMA Stepwise ==
  ASSUME NEW a \in Nat, NEW b \in Nat, NEW d \in Nat, a < b
  PROVE  a * d + d <= b * d
  BY SMT

(* A multiple below n * d that starts a whole step ends by n * d.          *)
LEMMA StepInside ==
  ASSUME NEW a \in Nat, NEW n \in Nat, NEW d \in Nat, a < n
  PROVE  a * d + d <= n * d
  BY Stepwise

LEMMA BitmapSize ==
  ASSUME NEW bits \in Nat
  PROVE  BitmapBytes(bits) \in Nat \ {0}
<1>1. (bits + 7) \div 8 \in Nat
  BY SMT
<1>2. LengthBytes \in Nat \ {0}
  BY SizesAssumption
<1> QED
  BY <1>1, <1>2 DEF BitmapBytes, InBytes

-----------------------------------------------------------------------------
(* The regions of a group: where each begins and ends.                     *)

LEMMA FormatTyped ==
  ASSUME NEW f \in Format
  PROVE  /\ f.blocks \in Nat \ {0} /\ f.inodes \in Nat \ {0}
         /\ f.blockSize \in Nat \ {0} /\ f.groups \in Nat \ {0}
  BY DEF Format, BlockSizes

LEMMA RegionsInOrder ==
  ASSUME NEW f \in Format
  PROVE  /\ RelHeader.start = 0 /\ RelHeader.end \in Nat
         /\ RelDataBitmap(f).start = RelHeader.end + 1
         /\ RelDataBitmap(f).end \in Nat
         /\ RelDataBitmap(f).start <= RelDataBitmap(f).end
         /\ RelINodeBitmap(f).start = RelDataBitmap(f).end + 1
         /\ RelINodeBitmap(f).end \in Nat
         /\ RelINodeBitmap(f).start <= RelINodeBitmap(f).end
         /\ RelINodeTable(f).start = RelINodeBitmap(f).end + 1
         /\ RelINodeTable(f).end = RelINodeTable(f).start + f.inodes * INodeBytes - 1
         /\ RelINodeTable(f).end \in Nat
         /\ RelINodeTable(f).start <= RelINodeTable(f).end
         /\ RelData(f).start = RelINodeTable(f).end + 1
         /\ RelData(f).start \in Nat
         /\ RelData(f).end = RelData(f).start + f.blocks * f.blockSize - 1
         /\ RelData(f).end \in Nat
         /\ RelData(f).start <= RelData(f).end
         /\ GroupStride(f) = RelData(f).start + f.blocks * f.blockSize
         /\ GroupStride(f) \in Nat \ {0}
<1>1. /\ f.blocks \in Nat \ {0} /\ f.inodes \in Nat \ {0}
      /\ f.blockSize \in Nat \ {0}
  BY FormatTyped
<1>2. HeaderBytes \in Nat \ {0} /\ INodeBytes \in Nat \ {0}
  BY SizesAssumption
<1>3. BitmapBytes(f.blocks) \in Nat \ {0} /\ BitmapBytes(f.inodes) \in Nat \ {0}
  BY <1>1, BitmapSize
<1>4. f.inodes * INodeBytes \in Nat \ {0} /\ f.blocks * f.blockSize \in Nat \ {0}
  BY <1>1, <1>2, PositiveProduct
<1>5. RelHeader.start = 0 /\ RelHeader.end = HeaderBytes - 1
  BY DEF RelHeader
<1>6. /\ RelDataBitmap(f).start = RelHeader.end + 1
      /\ RelDataBitmap(f).end = RelHeader.end + BitmapBytes(f.blocks)
  BY DEF RelDataBitmap, Following
<1>7. /\ RelINodeBitmap(f).start = RelDataBitmap(f).end + 1
      /\ RelINodeBitmap(f).end = RelDataBitmap(f).end + BitmapBytes(f.inodes)
  BY DEF RelINodeBitmap, Following
<1>8. /\ RelINodeTable(f).start = RelINodeBitmap(f).end + 1
      /\ RelINodeTable(f).end = RelINodeBitmap(f).end + f.inodes * INodeBytes
  BY DEF RelINodeTable, Following
<1>9. /\ RelData(f).start = RelINodeTable(f).end + 1
      /\ RelData(f).end = RelINodeTable(f).end + f.blocks * f.blockSize
      /\ GroupStride(f) = RelData(f).end + 1
  BY DEF RelData, Following, GroupStride
<1>10. RelHeader.end \in Nat
  BY <1>2, <1>5
<1>11. RelDataBitmap(f).end \in Nat /\ RelDataBitmap(f).start <= RelDataBitmap(f).end
  BY <1>3, <1>6, <1>10
<1>12. RelINodeBitmap(f).end \in Nat /\ RelINodeBitmap(f).start <= RelINodeBitmap(f).end
  BY <1>3, <1>7, <1>11
<1>13. RelINodeTable(f).end \in Nat /\ RelINodeTable(f).start <= RelINodeTable(f).end
  BY <1>4, <1>8, <1>12
<1>14. RelINodeTable(f).end = RelINodeTable(f).start + f.inodes * INodeBytes - 1
  BY <1>4, <1>8, <1>12
<1>15. /\ RelData(f).start \in Nat /\ RelData(f).end \in Nat
       /\ RelData(f).start <= RelData(f).end
       /\ RelData(f).end = RelData(f).start + f.blocks * f.blockSize - 1
       /\ GroupStride(f) = RelData(f).start + f.blocks * f.blockSize
       /\ GroupStride(f) \in Nat \ {0}
  BY <1>4, <1>9, <1>13
<1> QED
  BY <1>5, <1>6, <1>7, <1>8, <1>9, <1>10, <1>11, <1>12, <1>13, <1>14, <1>15

(* Within a group a region lies inside the stride, and two do not meet.    *)
LEMMA RelRegionsApart ==
  ASSUME NEW f \in Format, NEW p \in Parts, NEW q \in Parts
  PROVE  /\ RelRegion(f, p).start \in Nat /\ RelRegion(f, p).end \in Nat
         /\ RelRegion(f, p).start <= RelRegion(f, p).end
         /\ RelRegion(f, p).end < GroupStride(f)
         /\ p # q => Apart(RelRegion(f, p), RelRegion(f, q))
<1>1. /\ RelRegion(f, "header") = RelHeader
      /\ RelRegion(f, "data_bitmap") = RelDataBitmap(f)
      /\ RelRegion(f, "inode_bitmap") = RelINodeBitmap(f)
      /\ RelRegion(f, "inode_table") = RelINodeTable(f)
      /\ RelRegion(f, "data") = RelData(f)
  BY DEF RelRegion
<1>2. GroupStride(f) = RelData(f).end + 1
  BY DEF GroupStride
<1>3. /\ RelRegion(f, p).start \in Nat /\ RelRegion(f, p).end \in Nat
      /\ RelRegion(f, p).start <= RelRegion(f, p).end
      /\ RelRegion(f, p).end < GroupStride(f)
  BY <1>1, <1>2, RegionsInOrder DEF Parts
<1>4. p # q => Apart(RelRegion(f, p), RelRegion(f, q))
  BY <1>1, RegionsInOrder DEF Parts, Apart, Before
<1> QED
  BY <1>3, <1>4

-----------------------------------------------------------------------------
(* Addresses of the volume.                                                *)

(* An address that lies in a group is led back to it.                      *)
LEMMA GroupOfAddress ==
  ASSUME NEW f \in Format, NEW g \in Nat, NEW r \in Nat, r < GroupStride(f)
  PROVE  DeriveFromAddress(f, r + g * GroupStride(f)) = g
<1>1. GroupStride(f) \in Nat \ {0}
  BY RegionsInOrder
<1>2. r \in 0 .. (GroupStride(f) - 1)
  BY <1>1
<1>3. (g * GroupStride(f) + r) \div GroupStride(f) = g
  BY <1>1, <1>2, Quotient
<1>4. g * GroupStride(f) \in Nat
  BY <1>1, Product
<1>5. r + g * GroupStride(f) = g * GroupStride(f) + r
  BY <1>4
<1> QED
  BY <1>3, <1>5 DEF DeriveFromAddress

(* mark_as_reusable recovers the block that allocate chose, whatever the   *)
(* format, the group and the index.                                        *)
THEOREM BlockAddressesInvert ==
  ASSUME NEW f \in Format, NEW g \in Nat, NEW k \in 0 .. (f.blocks - 1)
  PROVE  /\ DeriveFromAddress(f, BlockAddr(f, g, k)) = g
         /\ BlockIndex(f, BlockAddr(f, g, k)) = k
<1> DEFINE S == GroupStride(f)
           z == f.blockSize
           d == RelData(f).start
<1>1. f.blocks \in Nat \ {0} /\ z \in Nat \ {0} /\ k \in Nat /\ k < f.blocks
  BY FormatTyped
<1>2. d \in Nat /\ S \in Nat \ {0} /\ S = d + f.blocks * z
  BY RegionsInOrder
<1>3. g * S \in Nat /\ k * z \in Nat /\ f.blocks * z \in Nat
  BY <1>1, <1>2, Product
<1>4. k * z + z <= f.blocks * z
  BY <1>1, Stepwise
<1>5. d + k * z \in Nat /\ d + k * z < S
  <2> HIDE DEF d, S, z
  <2> QED BY <1>1, <1>2, <1>3, <1>4
<1>6. Region(f, g, "data").start = d + g * S
  BY DEF Region, RelRegion
<1>7. BlockAddr(f, g, k) = (d + k * z) + g * S
  <2>1. BlockAddr(f, g, k) = (d + g * S) + k * z
    BY <1>6 DEF BlockAddr
  <2> HIDE DEF d, S, z
  <2> QED BY <2>1, <1>2, <1>3
<1>8. DeriveFromAddress(f, BlockAddr(f, g, k)) = g
  BY <1>5, <1>7, GroupOfAddress
<1>9. BlockIndex(f, BlockAddr(f, g, k)) = (BlockAddr(f, g, k) - (d + g * S)) \div z
  BY <1>6, <1>8 DEF BlockIndex
<1>10. BlockAddr(f, g, k) - (d + g * S) = k * z + 0
  <2> HIDE DEF d, S, z
  <2> QED BY <1>2, <1>3, <1>7
<1>11. (k * z + 0) \div z = k
  <2>1. 0 \in 0 .. (z - 1)
    BY <1>1
  <2> QED BY <1>1, <2>1, Quotient
<1> QED
  BY <1>8, <1>9, <1>10, <1>11

(* No two regions of a volume share a byte, and none leaves the volume.    *)
LEMMA RegionOfGroup ==
  ASSUME NEW f \in Format, NEW g \in 0 .. (f.groups - 1), NEW p \in Parts
  PROVE  /\ Region(f, g, p).start \in Nat /\ Region(f, g, p).end \in Nat
         /\ Region(f, g, p).start <= Region(f, g, p).end
         /\ g * GroupStride(f) <= Region(f, g, p).start
         /\ Region(f, g, p).end < g * GroupStride(f) + GroupStride(f)
         /\ Region(f, g, p).end < f.groups * GroupStride(f)
<1> DEFINE S == GroupStride(f)
           b == RelRegion(f, p).start
           e == RelRegion(f, p).end
<1>1. f.groups \in Nat \ {0} /\ g \in Nat /\ g < f.groups
  BY FormatTyped
<1>2. b \in Nat /\ e \in Nat /\ b <= e /\ e < S /\ S \in Nat
  BY RelRegionsApart, RegionsInOrder
<1>3. g * S \in Nat /\ f.groups * S \in Nat /\ g * S + S <= f.groups * S
  BY <1>1, <1>2, Product, StepInside
<1>4. Region(f, g, p).start = b + g * S /\ Region(f, g, p).end = e + g * S
  BY DEF Region
<1> HIDE DEF b, e, S
<1>5. /\ Region(f, g, p).start \in Nat /\ Region(f, g, p).end \in Nat
      /\ Region(f, g, p).start <= Region(f, g, p).end
      /\ g * S <= Region(f, g, p).start
      /\ Region(f, g, p).end < g * S + S
      /\ Region(f, g, p).end < f.groups * S
  BY <1>2, <1>3, <1>4
<1> QED
  BY <1>5 DEF S

LEMMA LaterGroupIsAbove ==
  ASSUME NEW f \in Format, NEW p \in Parts, NEW q \in Parts,
         NEW g \in 0 .. (f.groups - 1), NEW h \in 0 .. (f.groups - 1), g < h
  PROVE  Before(Region(f, g, p), Region(f, h, q))
<1> DEFINE S == GroupStride(f)
<1>1. /\ Region(f, g, p).end \in Nat /\ Region(f, h, q).start \in Nat
      /\ Region(f, g, p).end < g * S + S /\ h * S <= Region(f, h, q).start
  BY RegionOfGroup
<1>2. S \in Nat /\ g \in Nat /\ h \in Nat
  BY RegionsInOrder, FormatTyped
<1>3. g * S \in Nat /\ h * S \in Nat /\ g * S + S <= h * S
  BY <1>2, Product, Stepwise
<1> HIDE DEF S
<1> QED
  BY <1>1, <1>2, <1>3 DEF Before

LEMMA VolumeRegionsApart ==
  ASSUME NEW f \in Format, NEW p \in Parts, NEW q \in Parts,
         NEW g \in 0 .. (f.groups - 1), NEW h \in 0 .. (f.groups - 1),
         <<g, p>> # <<h, q>>
  PROVE  Apart(Region(f, g, p), Region(f, h, q))
<1>1. g \in Nat /\ h \in Nat
  BY FormatTyped
<1>2. CASE g < h
  BY <1>2, LaterGroupIsAbove DEF Apart
<1>3. CASE h < g
  BY <1>3, LaterGroupIsAbove DEF Apart
<1>4. CASE g = h
  <2> DEFINE o == g * GroupStride(f)
  <2>1. o \in Nat
    BY <1>1, Product, RegionsInOrder
  <2>2. p # q
    BY <1>4
  <2>3. /\ RelRegion(f, p).start \in Nat /\ RelRegion(f, p).end \in Nat
        /\ RelRegion(f, q).start \in Nat /\ RelRegion(f, q).end \in Nat
        /\ Apart(RelRegion(f, p), RelRegion(f, q))
    BY <2>2, RelRegionsApart
  <2>4. /\ Region(f, g, p).start = RelRegion(f, p).start + o
        /\ Region(f, g, p).end = RelRegion(f, p).end + o
        /\ Region(f, h, q).start = RelRegion(f, q).start + o
        /\ Region(f, h, q).end = RelRegion(f, q).end + o
    BY <1>4 DEF Region
  <2> HIDE DEF o
  <2> QED
    BY <2>1, <2>3, <2>4 DEF Apart, Before
<1> QED
  BY <1>1, <1>2, <1>3, <1>4

-----------------------------------------------------------------------------
(* The slots of the inode tables.                                          *)

LEMMA INodeInItsGroup ==
  ASSUME NEW f \in Format, NEW i \in 1 .. (f.groups * f.inodes)
  PROVE  /\ DeriveFromINode(f, i) \in 0 .. (f.groups - 1)
         /\ (i - 1) % f.inodes \in 0 .. (f.inodes - 1)
         /\ i = DeriveFromINode(f, i) * f.inodes + ((i - 1) % f.inodes) + 1
<1> DEFINE n == f.inodes
           q == DeriveFromINode(f, i)
           r == (i - 1) % n
<1>1. n \in Nat \ {0} /\ f.groups \in Nat \ {0}
  BY FormatTyped
<1>2. f.groups * n \in Nat
  BY <1>1, Product
<1>3. i \in Nat /\ i - 1 \in Nat /\ i <= f.groups * n
  BY <1>2
<1>4. q \in Nat /\ r \in 0 .. (n - 1) /\ i - 1 = q * n + r
  BY <1>1, <1>3, Division DEF DeriveFromINode
<1>5. q * n \in Nat
  BY <1>1, <1>4, Product
<1>6. q < f.groups
  <2>1. SUFFICES ASSUME f.groups <= q PROVE FALSE
    BY <1>1, <1>4
  <2>2. f.groups * n <= q * n
    <3>1. CASE f.groups = q
      BY <3>1, <1>2
    <3>2. CASE f.groups < q
      <4>1. f.groups * n + n <= q * n
        BY <1>1, <1>4, <3>2, Stepwise
      <4> HIDE DEF q, n
      <4> QED BY <4>1, <1>1, <1>2, <1>5
    <3> QED
      BY <1>1, <1>4, <2>1, <3>1, <3>2
  <2> HIDE DEF q, n, r
  <2> QED
    BY <1>1, <1>2, <1>3, <1>4, <1>5, <2>2
<1>7. q \in 0 .. (f.groups - 1)
  BY <1>1, <1>4, <1>6
<1>8. i = q * n + r + 1
  <2> HIDE DEF q, n, r
  <2> QED BY <1>1, <1>3, <1>4, <1>5
<1> QED
  BY <1>4, <1>7, <1>8

LEMMA INodeSlotInTable ==
  ASSUME NEW f \in Format, NEW i \in 1 .. (f.groups * f.inodes)
  PROVE  LET table == Region(f, DeriveFromINode(f, i), "inode_table")
             r == (i - 1) % f.inodes
         IN  /\ INodeAddr(f, i) = table.start + r * INodeBytes
             /\ INodeAddr(f, i) \in Nat
             /\ table.start <= INodeAddr(f, i)
             /\ INodeAddr(f, i) + INodeBytes - 1 <= table.end
<1> DEFINE q == DeriveFromINode(f, i)
           t == Region(f, q, "inode_table")
           r == (i - 1) % f.inodes
           z == INodeBytes
           o == q * GroupStride(f)
<1>1. /\ q \in 0 .. (f.groups - 1) /\ r \in 0 .. (f.inodes - 1)
      /\ f.inodes \in Nat \ {0} /\ f.groups \in Nat \ {0} /\ z \in Nat \ {0}
  BY INodeInItsGroup, FormatTyped, SizesAssumption
<1>2. q \in Nat /\ r \in Nat /\ r < f.inodes
  BY <1>1
<1>3. /\ r * z \in Nat /\ f.inodes * z \in Nat /\ r * z + z <= f.inodes * z
      /\ z * r = r * z /\ o \in Nat
  <2>1. r * z \in Nat /\ f.inodes * z \in Nat /\ o \in Nat
    BY <1>1, <1>2, Product, RegionsInOrder
  <2>2. r * z + z <= f.inodes * z
    BY <1>1, <1>2, StepInside
  <2>3. z * r = r * z
    BY <1>1, <1>2
  <2> QED BY <2>1, <2>2, <2>3
<1>4. /\ t.start = RelINodeTable(f).start + o
      /\ t.end = RelINodeTable(f).end + o
  BY DEF Region, RelRegion
<1>5. /\ RelINodeTable(f).start \in Nat
      /\ RelINodeTable(f).end = RelINodeTable(f).start + f.inodes * z - 1
  BY RegionsInOrder
<1>6. INodeAddr(f, i) = t.start + z * r
  BY DEF INodeAddr
<1>7. /\ INodeAddr(f, i) = t.start + r * z
      /\ INodeAddr(f, i) \in Nat
      /\ t.start <= INodeAddr(f, i)
      /\ INodeAddr(f, i) + z - 1 <= t.end
  <2> HIDE DEF q, t, r, z, o
  <2> QED BY <1>1, <1>2, <1>3, <1>4, <1>5, <1>6
<1> QED
  BY <1>7

(* Two inodes never share a byte, whatever the format.                     *)
LEMMA INodeSlotsApart ==
  ASSUME NEW f \in Format,
         NEW i \in 1 .. (f.groups * f.inodes),
         NEW j \in 1 .. (f.groups * f.inodes), i # j
  PROVE  \/ INodeAddr(f, i) + INodeBytes - 1 < INodeAddr(f, j)
         \/ INodeAddr(f, j) + INodeBytes - 1 < INodeAddr(f, i)
<1> DEFINE T(k) == Region(f, DeriveFromINode(f, k), "inode_table")
           L(k) == (k - 1) % f.inodes
           z == INodeBytes
<1>1. \A k \in {i, j} : /\ DeriveFromINode(f, k) \in 0 .. (f.groups - 1)
                        /\ L(k) \in Nat /\ L(k) * z \in Nat
                        /\ INodeAddr(f, k) = T(k).start + L(k) * z
                        /\ INodeAddr(f, k) \in Nat
                        /\ T(k).start \in Nat /\ T(k).end \in Nat
                        /\ T(k).start <= INodeAddr(f, k)
                        /\ INodeAddr(f, k) + z - 1 <= T(k).end
  <2>1. SUFFICES ASSUME NEW k \in 1 .. (f.groups * f.inodes)
                 PROVE  /\ DeriveFromINode(f, k) \in 0 .. (f.groups - 1)
                        /\ L(k) \in Nat /\ L(k) * z \in Nat
                        /\ INodeAddr(f, k) = T(k).start + L(k) * z
                        /\ INodeAddr(f, k) \in Nat
                        /\ T(k).start \in Nat /\ T(k).end \in Nat
                        /\ T(k).start <= INodeAddr(f, k)
                        /\ INodeAddr(f, k) + z - 1 <= T(k).end
    OBVIOUS
  <2>2. DeriveFromINode(f, k) \in 0 .. (f.groups - 1) /\ L(k) \in Nat
    BY INodeInItsGroup, FormatTyped
  <2>3. L(k) * z \in Nat
    BY <2>2, Product, SizesAssumption
  <2>4. T(k).start \in Nat /\ T(k).end \in Nat
    BY <2>2, RegionOfGroup DEF Parts
  <2>5. /\ INodeAddr(f, k) = T(k).start + L(k) * z
        /\ INodeAddr(f, k) \in Nat
        /\ T(k).start <= INodeAddr(f, k)
        /\ INodeAddr(f, k) + z - 1 <= T(k).end
    BY INodeSlotInTable
  <2> QED BY <2>2, <2>3, <2>4, <2>5
<1>2. z \in Nat \ {0}
  BY SizesAssumption
<1>3. CASE DeriveFromINode(f, i) = DeriveFromINode(f, j)
  <2>1. L(i) # L(j)
    <3>1. /\ i = DeriveFromINode(f, i) * f.inodes + L(i) + 1
          /\ j = DeriveFromINode(f, j) * f.inodes + L(j) + 1
      BY INodeInItsGroup
    <3> QED BY <3>1, <1>3
  <2>2. T(i).start = T(j).start
    BY <1>3
  <2>3. CASE L(i) < L(j)
    <3>1. L(i) * z + z <= L(j) * z
      BY <1>1, <1>2, <2>3, Stepwise
    <3> HIDE DEF T, L, z
    <3> QED BY <1>1, <1>2, <2>2, <3>1 DEF z
  <2>4. CASE L(j) < L(i)
    <3>1. L(j) * z + z <= L(i) * z
      BY <1>1, <1>2, <2>4, Stepwise
    <3> HIDE DEF T, L, z
    <3> QED BY <1>1, <1>2, <2>2, <3>1 DEF z
  <2> HIDE DEF L
  <2> QED BY <1>1, <2>1, <2>3, <2>4
<1>4. CASE DeriveFromINode(f, i) # DeriveFromINode(f, j)
  <2>1. Apart(T(i), T(j))
    BY <1>1, <1>4, VolumeRegionsApart DEF Parts
  <2> HIDE DEF T, L, z
  <2> QED BY <1>1, <1>2, <2>1 DEF Apart, Before, z
<1> QED
  BY <1>3, <1>4

-----------------------------------------------------------------------------
(* The inductive invariant.                                                *)

Sections == {"header", "data_bitmap", "inode_bitmap", "inode_table"}

Earlier == [header |-> {}, data_bitmap |-> {"header"},
            inode_bitmap |-> {"header", "data_bitmap"},
            inode_table |-> {"header", "data_bitmap", "inode_bitmap"}]

(* What a formatting that is under way has written since it began.         *)
Progress ==
  pc = "formatting" =>
    /\ format \in Format
    /\ \A g \in Groups, p \in Sections :
         (g < group \/ (g = group /\ p \in Earlier[part])) => <<g, p>> \in written

(* The format is the same each time.                                       *)
Known ==
  format # NoFormat =>
    format = Inferred(request.capacity, request.blocks, request.inodes)

(* Where the root is, the header is still there; the root comes after      *)
(* everything else.                                                        *)
Ordered ==
  /\ root => <<0, "header">> \in written
  /\ pc = "register" => (written # {} /\ written = Groups \X Sections)
  /\ root /\ BeginningGoesFirst => written = Groups \X Sections

(* Files are made in their order, and all of them before anything else.    *)
FilesMade ==
  /\ pc = "devices" => \A k \in Files : k < at => file[k] = "whole"
  /\ pc \in {"formatting", "register", "open"} => \A k \in Files : file[k] = "whole"

(* Where the file with the beginning is not whole, or has been made anew   *)
(* by the formatting under way, there is no root.                          *)
RootGone ==
  BeginningGoesFirst /\ Files # {} =>
    /\ root => file[1] = "whole"
    /\ pc = "devices" /\ mode = "format" /\ at > 1 => ~root

IInv == TypeOK /\ Progress /\ Known /\ Ordered /\ FilesMade /\ RootGone

LEMMA SectionsAreParts == DOMAIN NextPart = Sections
  BY DEF NextPart, Sections

LEMMA WrittenHasFormat ==
  ASSUME TypeOK, written # {}
  PROVE  format \in Format
<1>1. PICK x : x \in written
  OBVIOUS
<1>2. x \in Groups \X DOMAIN NextPart
  BY <1>1 DEF TypeOK
<1>3. Groups # {}
  BY <1>2
<1>4. format # NoFormat
  BY <1>3 DEF Groups, NoFormat
<1> QED
  BY <1>4 DEF TypeOK

(* infer_from_free_space returns a format that validate accepts.           *)
LEMMA InferredFormat ==
  ASSUME NEW c \in Nat, NEW b \in Nat, NEW n \in Nat, Hosts(c, b, n)
  PROVE  /\ Inferred(c, b, n) \in Format
         /\ Inferred(c, b, n).blocks <= Inferred(c, b, n).blockSize * 8
         /\ Inferred(c, b, n).inodes <= Inferred(c, b, n).blockSize * 8
<1> DEFINE z == InferredBlockSize(c)
           x == Clamped(b, z * 8)
           y == Clamped(n, z * 8)
           k == CountedBytes(x, y, z)
<1>1. z \in {512, 1024, 4096}
  BY DEF InferredBlockSize
<1>2. x \in Nat \ {0} /\ y \in Nat \ {0} /\ x <= z * 8 /\ y <= z * 8
  BY <1>1 DEF Clamped
<1>3. k \in Nat \ {0}
  <2>1. InBytes(x) \in Nat /\ InBytes(y) \in Nat
    <3> HIDE DEF x, y
    <3>1. (x + 7) \div 8 \in Nat
      BY <1>2, SMT
    <3>2. (y + 7) \div 8 \in Nat
      BY <1>2, SMT
    <3> QED BY <3>1, <3>2 DEF InBytes
  <2>2. HeaderBytes \in Nat \ {0} /\ INodeBytes \in Nat \ {0}
    BY SizesAssumption
  <2>3. y * INodeBytes \in Nat /\ x * z \in Nat
    BY <1>1, <1>2, <2>2, Product
  <2> HIDE DEF x, y, z
  <2> QED BY <2>1, <2>2, <2>3 DEF CountedBytes
<1>4. Inferred(c, b, n) = [blocks |-> x, inodes |-> y, blockSize |-> z,
                           groups |-> c \div k]
  BY DEF Inferred
<1>5. c \div k \in Nat
  BY <1>3, Division
<1>6. c \div k > 0
  BY <1>4 DEF Hosts
<1>7. c \div k \in Nat \ {0}
  BY <1>5, <1>6
<1> HIDE DEF x, y, z, k
<1> QED
  BY <1>1, <1>2, <1>4, <1>7 DEF Format, BlockSizes

LEMMA SequenceTyped ==
  ASSUME NEW S, NEW s \in Seq(S)
  PROVE  /\ Len(s) \in Nat
         /\ DOMAIN s = 1 .. Len(s)
         /\ \A k \in DOMAIN s : s[k] \in S
  OBVIOUS

(* What the assumptions say of the request at hand.                        *)
LEMMA RequestTyped ==
  ASSUME TypeOK
  PROVE  /\ request.capacity \in Nat /\ request.blocks \in Nat
         /\ request.inodes \in Nat
         /\ request.files \in Seq([start : Nat, end : Nat])
         /\ Len(request.files) \in Nat
         /\ Files = 1 .. Len(request.files)
         /\ \A k \in Files : /\ request.files[k].start \in Nat
                             /\ request.files[k].end \in Nat
                             /\ request.files[k].start <= request.files[k].end
<1>1. request \in [capacity : Nat, blocks : Nat, inodes : Nat,
                   files : Seq([start : Nat, end : Nat])]
  BY RequestAssumption DEF TypeOK
<1>2. \A k \in Files : request.files[k].start <= request.files[k].end
  BY RequestAssumption DEF TypeOK, Files
<1>3. request.files \in Seq([start : Nat, end : Nat])
  BY <1>1
<1>4. /\ Len(request.files) \in Nat
      /\ Files = 1 .. Len(request.files)
      /\ \A k \in Files : request.files[k] \in [start : Nat, end : Nat]
  BY <1>3, SequenceTyped DEF Files
<1>5. \A k \in Files : request.files[k].start \in Nat /\ request.files[k].end \in Nat
  BY <1>4
<1> QED
  BY <1>1, <1>2, <1>3, <1>4, <1>5

LEMMA InitInvariant == Init => IInv
<1> SUFFICES ASSUME Init PROVE IInv
  OBVIOUS
<1>1. format.groups = 0 /\ format.blocks = 0 /\ format.inodes = 0 /\ format.blockSize = 0
  BY DEF Init, NoFormat
<1>2. Groups = {}
  BY <1>1 DEF Groups
<1>3. TypeOK
  <2>1. format = NoFormat
    BY DEF Init
  <2>2. format.blocks <= format.blockSize * 8 /\ format.inodes <= format.blockSize * 8
    BY <1>1
  <2>3. group \in 0 .. format.groups
    BY <1>1 DEF Init
  <2>4. part \in Sections /\ written \subseteq Groups \X Sections
    BY DEF Init, Sections
  <2>5. at \in 1 .. (Len(request.files) + 1)
    <3>1. request.files \in Seq([start : Nat, end : Nat])
      BY RequestAssumption DEF Init
    <3>2. Len(request.files) \in Nat
      BY <3>1
    <3> QED
      BY <3>2 DEF Init
  <2>6. file \in [Files -> {"absent", "short", "whole"}]
    BY DEF Init
  <2> QED
    BY <2>1, <2>2, <2>3, <2>4, <2>5, <2>6, SectionsAreParts DEF Init, TypeOK
<1>4. Progress /\ Known /\ Ordered /\ FilesMade /\ RootGone
  BY DEF Init, Progress, Known, Ordered, FilesMade, RootGone
<1> QED
  BY <1>3, <1>4 DEF IInv

(* The start of a run, and the files that are found as they should be or   *)
(* refused, change nothing on the volume.                                  *)
LEMMA OpeningKeeps ==
  IInv /\ ((\E m \in {"format", "mount"} : Start(m)) \/ ReuseFile \/ RefuseFile)
    => IInv'
<1> SUFFICES ASSUME IInv, TypeOK PROVE
      ((\E m \in {"format", "mount"} : Start(m)) \/ ReuseFile \/ RefuseFile) => IInv'
  BY DEF IInv
<1>1. /\ Len(request.files) \in Nat
      /\ Files = 1 .. Len(request.files)
  BY RequestTyped
<1>2. ASSUME NEW m \in {"format", "mount"}, Start(m) PROVE IInv'
  <2>1. TypeOK'
    BY <1>1, <1>2 DEF Start, volume, TypeOK, Groups, Files
  <2>2. (Progress /\ Known /\ Ordered /\ FilesMade /\ RootGone)'
    BY <1>1, <1>2 DEF Start, volume, IInv, Progress, Known, Ordered, FilesMade,
       RootGone, Groups, Files, BeginningGoesFirst
  <2> QED
    BY <2>1, <2>2 DEF IInv
<1>3. ASSUME ReuseFile PROVE IInv'
  <2>1. TypeOK'
    BY <1>1, <1>3 DEF ReuseFile, Making, volume, TypeOK, Groups, Files
  <2>2. (Progress /\ Known /\ Ordered)'
    BY <1>3 DEF ReuseFile, Making, volume, IInv, Progress, Known, Ordered, Groups,
       BeginningGoesFirst
  <2>3. (FilesMade /\ RootGone)'
    <3>1. at \in Nat /\ at' = at + 1 /\ file[at] = "whole"
      BY <1>1, <1>3 DEF ReuseFile, Making
    <3>2. \A k \in Files : k < at + 1 => k < at \/ k = at
      BY <1>1, <3>1
    <3> QED
      BY <1>3, <3>1, <3>2 DEF ReuseFile, Making, volume, IInv, FilesMade,
         RootGone, Files, BeginningGoesFirst
  <2> QED
    BY <2>1, <2>2, <2>3 DEF IInv
<1>4. ASSUME RefuseFile PROVE IInv'
  BY <1>4 DEF RefuseFile, volume, IInv, TypeOK, Progress, Known, Ordered,
     FilesMade, RootGone, Groups, Files, BeginningGoesFirst
<1> QED
  BY <1>2, <1>3, <1>4

(* A file made anew is not one with a root. *)
LEMMA MakeFileKeeps == IInv /\ MakeFile => IInv'
<1> SUFFICES ASSUME IInv, MakeFile PROVE IInv'
  OBVIOUS
<1>1. /\ Len(request.files) \in Nat
      /\ Files = 1 .. Len(request.files)
  BY RequestTyped DEF IInv
<1>2. /\ pc = "devices" /\ pc' = pc /\ at \in Files /\ at \in Nat /\ at' = at + 1
      /\ file[at] = "absent" /\ file' = [file EXCEPT ![at] = "whole"]
      /\ file \in [Files -> {"absent", "short", "whole"}]
      /\ UNCHANGED <<request, format, group, part, written, root, mode, crashes>>
  BY <1>1 DEF MakeFile, Making, volume, IInv, TypeOK
<1>3. TypeOK'
  <2>1. Files' = Files /\ Groups' = Groups
    BY <1>2 DEF Files, Groups
  <2>2. file' \in [Files' -> {"absent", "short", "whole"}]
    BY <1>2, <2>1
  <2>3. at' \in 1 .. (Len(request'.files) + 1)
    BY <1>1, <1>2
  <2> QED
    BY <1>2, <2>1, <2>2, <2>3 DEF IInv, TypeOK
<1>4. (Progress /\ Known /\ Ordered)'
  BY <1>2 DEF IInv, Progress, Known, Ordered, Groups, BeginningGoesFirst
<1>5. FilesMade'
  <2>1. \A k \in Files : k < at + 1 => k < at \/ k = at
    BY <1>1, <1>2
  <2> QED
    BY <1>2, <2>1 DEF IInv, FilesMade, Files
<1>6. RootGone'
  <2>1. BeginningGoesFirst' = BeginningGoesFirst /\ Files' = Files
    BY <1>2 DEF BeginningGoesFirst, Files
  <2>2. CASE at = 1
    BY <1>2, <2>1, <2>2 DEF IInv, RootGone
  <2>3. CASE at # 1
    <3>1. at > 1 /\ file'[1] = file[1]
      BY <1>1, <1>2, <2>3
    <3> QED
      BY <1>2, <2>1, <3>1 DEF IInv, RootGone
  <2> QED
    BY <2>2, <2>3
<1> QED
  BY <1>3, <1>4, <1>5, <1>6 DEF IInv

(* The first file that goes takes the root with it, if it has the          *)
(* beginning of the volume.                                                *)
LEMMA RemoveFileKeeps == IInv /\ RemoveFile => IInv'
<1> SUFFICES ASSUME IInv, RemoveFile PROVE IInv'
  OBVIOUS
<1> USE SectionsAreParts
<1>1. /\ Len(request.files) \in Nat
      /\ Files = 1 .. Len(request.files)
      /\ \A k \in Files : /\ request.files[k].start \in Nat
                          /\ request.files[k].end \in Nat
  BY RequestTyped DEF IInv
<1>2. /\ pc = "devices" /\ pc' = pc /\ at \in Files /\ at \in Nat /\ at' = at
      /\ mode = "format"
      /\ file' = [file EXCEPT ![at] = "absent"]
      /\ file \in [Files -> {"absent", "short", "whole"}]
      /\ UNCHANGED <<request, format, group, part, mode, crashes>>
  BY <1>1 DEF RemoveFile, Making, IInv, TypeOK
<1>3. /\ written' = {x \in written : ~Holds(at, x[1], x[2])}
      /\ root' = (root /\ ~HoldsRoot(at))
  BY DEF RemoveFile
<1>4. Groups' = Groups /\ Files' = Files /\ BeginningGoesFirst' = BeginningGoesFirst
  BY <1>2 DEF Groups, Files, BeginningGoesFirst
<1>5. TypeOK'
  <2>1. root' \in BOOLEAN
    BY <1>3 DEF IInv, TypeOK
  <2>2. written' \subseteq Groups' \X Sections
    BY <1>3, <1>4 DEF IInv, TypeOK
  <2>3. file' \in [Files' -> {"absent", "short", "whole"}]
    BY <1>2, <1>4
  <2> QED
    BY <1>2, <2>1, <2>2, <2>3 DEF IInv, TypeOK
<1>6. (Progress /\ Known)'
  BY <1>2 DEF IInv, Progress, Known
<1>7. FilesMade'
  BY <1>1, <1>2, <1>4 DEF IInv, FilesMade
<1>8. BeginningGoesFirst => ~root'
  <2> SUFFICES ASSUME BeginningGoesFirst, root, ~HoldsRoot(at) PROVE FALSE
    BY <1>3
  <2>1. at = 1
    BY <1>1, <1>2 DEF IInv, RootGone
  <2>2. request.files[1].start = 0
    BY <1>2 DEF BeginningGoesFirst, Files
  <2>3. format \in Format
    BY WrittenHasFormat DEF IInv, Ordered
  <2>4. GroupStride(format) \in Nat
    BY <2>3, RegionsInOrder
  <2>5. /\ Region(format, 0, "header").start = 0
        /\ Region(format, 0, "header").end = HeaderBytes - 1
    BY <2>4, SizesAssumption DEF Region, RelRegion, RelHeader
  <2>6. Holds(at, 0, "header")
    BY <1>1, <1>2, <2>1, <2>2, <2>5, SizesAssumption DEF Holds
  <2> QED
    BY <2>6 DEF HoldsRoot
<1>9. root' => <<0, "header">> \in written'
  BY <1>3 DEF HoldsRoot, IInv, Ordered
<1>10. Ordered'
  BY <1>2, <1>4, <1>8, <1>9 DEF Ordered
<1>11. RootGone'
  BY <1>4, <1>8 DEF RootGone
<1> QED
  BY <1>5, <1>6, <1>7, <1>10, <1>11 DEF IInv

LEMMA InferKeeps == IInv /\ Infer => IInv'
<1> SUFFICES ASSUME IInv, Infer PROVE IInv'
  OBVIOUS
<1> USE SectionsAreParts
<1>1. /\ request.capacity \in Nat /\ request.blocks \in Nat /\ request.inodes \in Nat
      /\ Len(request.files) \in Nat /\ Files = 1 .. Len(request.files)
  BY RequestTyped DEF IInv
<1>2. UNCHANGED <<request, file, written, root, mode, at, crashes>>
  BY DEF Infer, volume
<1>3. \A k \in Files : file[k] = "whole"
  <2>1. at = Len(request.files) + 1
    BY <1>1 DEF Infer, Made, IInv, TypeOK
  <2> QED
    BY <1>1, <2>1 DEF Infer, Made, IInv, FilesMade
<1>4. BeginningGoesFirst' = BeginningGoesFirst /\ Files' = Files
  BY <1>2 DEF BeginningGoesFirst, Files
<1>5. (FilesMade /\ RootGone)'
  BY <1>2, <1>3, <1>4 DEF Infer, FilesMade, RootGone, IInv
<1>6. CASE Hosts(request.capacity, request.blocks, request.inodes)
  <2>1. /\ format' = Inferred(request.capacity, request.blocks, request.inodes)
        /\ group' = 0 /\ part' = "header" /\ pc' = "formatting"
    BY <1>6 DEF Infer
  <2>2. /\ format' \in Format
        /\ format'.blocks <= format'.blockSize * 8
        /\ format'.inodes <= format'.blockSize * 8
    BY <1>1, <1>6, <2>1, InferredFormat
  <2>3. format'.groups \in Nat \ {0}
    BY <2>2, FormatTyped
  <2>4. written # {} => Groups' = Groups
    <3> SUFFICES ASSUME written # {} PROVE Groups' = Groups
      OBVIOUS
    <3>1. format \in Format /\ format.groups \in Nat \ {0}
      BY WrittenHasFormat, FormatTyped DEF IInv
    <3>2. format # NoFormat
      BY <3>1 DEF NoFormat
    <3> QED
      BY <2>1, <3>2 DEF IInv, Known, Groups
  <2>5. written' \subseteq Groups' \X Sections
    BY <1>2, <2>4 DEF IInv, TypeOK
  <2>6. TypeOK'
    BY <1>2, <1>4, <2>1, <2>2, <2>3, <2>5 DEF IInv, TypeOK, Sections
  <2>7. Progress'
    BY <2>1, <2>2 DEF Progress, Earlier, Groups
  <2>8. Known'
    BY <1>2, <2>1 DEF Known
  <2>9. Ordered'
    BY <1>2, <1>4, <2>1, <2>4 DEF IInv, Ordered
  <2> QED
    BY <1>5, <2>6, <2>7, <2>8, <2>9 DEF IInv
<1>7. CASE ~Hosts(request.capacity, request.blocks, request.inodes)
  <2>1. pc' = "new" /\ UNCHANGED <<format, group, part>>
    BY <1>7 DEF Infer
  <2>2. TypeOK'
    BY <1>2, <2>1 DEF IInv, TypeOK, Groups, Files
  <2>3. (Progress /\ Known /\ Ordered)'
    BY <1>2, <1>4, <2>1 DEF IInv, Progress, Known, Ordered, Groups
  <2> QED
    BY <1>5, <2>2, <2>3 DEF IInv
<1> QED
  BY <1>6, <1>7

LEMMA WriteRegionKeeps == IInv /\ WriteRegion => IInv'
<1> SUFFICES ASSUME IInv, WriteRegion PROVE IInv'
  OBVIOUS
<1> USE SectionsAreParts
<1>1. format \in Format /\ format.groups \in Nat \ {0}
  BY FormatTyped DEF IInv, Progress, WriteRegion
<1>2. /\ group \in Groups /\ group \in Nat /\ part \in Sections
      /\ Groups' = Groups
  BY <1>1 DEF IInv, TypeOK, WriteRegion, Groups
<1>3. written' = written \cup {<<group, part>>} /\ format' = format
  BY DEF WriteRegion
<1>4. written' \subseteq Groups \X Sections
  BY <1>2, <1>3 DEF IInv, TypeOK
<1>5. TypeOK'
  <2>1. part' \in Sections
    BY <1>2 DEF WriteRegion, NextPart, Sections
  <2>2. group' \in 0 .. format.groups
    BY <1>1, <1>2 DEF WriteRegion, Groups
  <2>3. root' \in BOOLEAN
    BY DEF WriteRegion, RootGoes, IInv, TypeOK
  <2>4. written' \subseteq Groups' \X Sections
    BY <1>2, <1>4
  <2>5. Files' = Files
    BY DEF WriteRegion, Files
  <2> QED
    BY <1>3, <2>1, <2>2, <2>3, <2>4, <2>5 DEF WriteRegion, IInv, TypeOK
<1>6. Progress'
  <2>1. ASSUME NEW g \in Groups, NEW p \in Sections,
               g < group' \/ (g = group' /\ p \in Earlier[part'])
        PROVE  <<g, p>> \in written'
    <3>1. g \in Nat
      BY DEF Groups
    <3>2. \/ g < group
          \/ g = group /\ p \in Earlier[part]
          \/ g = group /\ p = part
      BY <1>2, <2>1, <3>1 DEF WriteRegion, NextPart, Earlier, Sections
    <3> QED
      BY <1>3, <3>2 DEF IInv, Progress, WriteRegion
  <2> QED
    BY <1>1, <1>2, <1>3, <2>1 DEF Progress
<1>7. Known'
  BY <1>3 DEF WriteRegion, IInv, Known
<1>8. root' => root
  BY DEF WriteRegion, RootGoes, IInv, TypeOK
<1>9. /\ UNCHANGED <<request, file, mode, at, pc>> /\ pc = "formatting"
      /\ BeginningGoesFirst' = BeginningGoesFirst /\ Files' = Files
  BY DEF WriteRegion, BeginningGoesFirst, Files
<1>10. Ordered'
  BY <1>2, <1>3, <1>8, <1>9 DEF IInv, Ordered
<1>11. (FilesMade /\ RootGone)'
  BY <1>8, <1>9 DEF IInv, FilesMade, RootGone
<1> QED
  BY <1>5, <1>6, <1>7, <1>10, <1>11 DEF IInv

LEMMA OpenKeeps == IInv /\ Open => IInv'
<1> SUFFICES ASSUME IInv, Open PROVE IInv'
  OBVIOUS
<1> USE SectionsAreParts
<1>1. /\ pc' \in {"new", "open", "register"}
      /\ Groups' = Groups /\ Files' = Files /\ BeginningGoesFirst' = BeginningGoesFirst
      /\ UNCHANGED <<request, file, format, group, part, written, root, mode, at, crashes>>
  BY DEF Open, volume, Groups, Files, BeginningGoesFirst
<1>2. TypeOK'
  BY <1>1 DEF IInv, TypeOK
<1>3. (Progress /\ Known)'
  BY <1>1 DEF Progress, Known, IInv
<1>4. ASSUME pc' = "register" PROVE written # {} /\ written = Groups \X Sections
  <2>1. pc = "formatting" /\ group = format.groups /\ <<0, "header">> \in written
    BY <1>4 DEF Open, Readable
  <2>2. \A g \in Groups : g < group
    BY <2>1, FormatTyped DEF Groups, IInv, Progress
  <2>3. \A g \in Groups, p \in Sections : <<g, p>> \in written
    BY <2>1, <2>2 DEF IInv, Progress
  <2>4. written \subseteq Groups \X Sections
    BY DEF IInv, TypeOK
  <2> QED
    BY <2>1, <2>3, <2>4
<1>5. Ordered'
  BY <1>1, <1>4 DEF IInv, Ordered
<1>6. \A k \in Files : file[k] = "whole"
  <2>1. CASE pc = "formatting"
    BY <2>1 DEF IInv, FilesMade
  <2>2. CASE Made
    <3>1. Len(request.files) \in Nat /\ Files = 1 .. Len(request.files)
      BY RequestTyped DEF IInv
    <3>2. at = Len(request.files) + 1
      BY <2>2, <3>1 DEF Made, IInv, TypeOK
    <3> QED
      BY <2>2, <3>1, <3>2 DEF Made, IInv, FilesMade
  <2> QED
    BY <2>1, <2>2 DEF Open
<1>7. (FilesMade /\ RootGone)'
  BY <1>1, <1>6 DEF IInv, FilesMade, RootGone
<1> QED
  BY <1>2, <1>3, <1>5, <1>7 DEF IInv

LEMMA RegisterRootKeeps == IInv /\ RegisterRoot => IInv'
<1> SUFFICES ASSUME IInv, RegisterRoot PROVE IInv'
  OBVIOUS
<1> USE SectionsAreParts
<1>1. /\ pc = "register" /\ pc' = "open" /\ root' = TRUE
      /\ Groups' = Groups /\ Files' = Files /\ BeginningGoesFirst' = BeginningGoesFirst
      /\ UNCHANGED <<request, file, format, group, part, written, mode, at, crashes>>
  BY DEF RegisterRoot, Groups, Files, BeginningGoesFirst
<1>2. TypeOK'
  BY <1>1 DEF IInv, TypeOK
<1>3. (Progress /\ Known)'
  BY <1>1 DEF Progress, Known, IInv
<1>4. <<0, "header">> \in written
  <2>1. written # {} /\ written = Groups \X Sections
    BY <1>1 DEF IInv, Ordered
  <2>2. format.groups \in Nat \ {0}
    BY <2>1, WrittenHasFormat, FormatTyped DEF IInv
  <2> QED
    BY <2>1, <2>2 DEF Groups, Sections
<1>5. Ordered'
  BY <1>1, <1>4 DEF IInv, Ordered
<1>6. 1 \in Files \/ Files = {}
  BY RequestTyped DEF IInv
<1>7. (FilesMade /\ RootGone)'
  BY <1>1, <1>6 DEF IInv, FilesMade, RootGone
<1> QED
  BY <1>2, <1>3, <1>5, <1>7 DEF IInv

LEMMA WriteFailsKeeps == IInv /\ WriteFails => IInv'
  BY DEF WriteFails, volume, IInv, TypeOK, Progress, Known, Ordered, FilesMade,
     RootGone, Groups, Files, BeginningGoesFirst

(* A crash makes no file whole. *)
LEMMA CrashKeeps == IInv /\ Crash => IInv'
<1> SUFFICES ASSUME IInv, Crash PROVE IInv'
  OBVIOUS
<1>1. /\ pc' = "new" /\ Groups' = Groups /\ Files' = Files
      /\ BeginningGoesFirst' = BeginningGoesFirst
      /\ UNCHANGED <<request, format, group, part, written, root, mode, at>>
      /\ crashes' = crashes + 1
  BY DEF Crash, volume, Groups, Files, BeginningGoesFirst
<1>2. \/ file' = file
      \/ /\ Making /\ file[at] = "absent"
         /\ file' = [file EXCEPT ![at] = "short"]
  BY DEF Crash
<1>3. file \in [Files -> {"absent", "short", "whole"}]
  BY DEF IInv, TypeOK
<1>4. file' \in [Files -> {"absent", "short", "whole"}]
  BY <1>2, <1>3
<1>5. TypeOK'
  BY <1>1, <1>4 DEF IInv, TypeOK
<1>6. (Progress /\ Known /\ Ordered /\ FilesMade)'
  BY <1>1 DEF IInv, Progress, Known, Ordered, FilesMade
<1>7. \A k \in Files : file'[k] # file[k] => file[k] = "absent"
  BY <1>2, <1>3
<1>8. 1 \in Files \/ Files = {}
  BY RequestTyped DEF IInv
<1>9. RootGone'
  BY <1>1, <1>7, <1>8 DEF IInv, RootGone
<1> QED
  BY <1>5, <1>6, <1>9 DEF IInv

LEMMA StutterKeeps == IInv /\ UNCHANGED vars => IInv'
  BY DEF vars, IInv, TypeOK, Progress, Known, Ordered, FilesMade, RootGone,
     Groups, Files, BeginningGoesFirst

(* The inductive invariant holds of every formatting.                      *)
THEOREM FormattingInvariant == Spec => []IInv
<1>1. Init => IInv
  BY InitInvariant
<1>2. IInv /\ [Next]_vars => IInv'
  BY OpeningKeeps, MakeFileKeeps, RemoveFileKeeps, InferKeeps, WriteRegionKeeps,
     OpenKeeps, RegisterRootKeeps, WriteFailsKeeps, CrashKeeps, StutterKeeps
     DEF Next
<1> QED
  BY <1>1, <1>2, PTL DEF Spec

-----------------------------------------------------------------------------
(* The properties.                                                         *)

LEMMA UsableHasFormat ==
  ASSUME IInv, Usable
  PROVE  format \in Format
<1>1. written # {}
  BY DEF IInv, Ordered, Usable
<1> QED
  BY <1>1, WrittenHasFormat DEF IInv

(* Every variable keeps its type, and every format is one that validate    *)
(* accepts.                                                                *)
THEOREM FormattingTypes == Spec => []TypeOK
<1>1. IInv => TypeOK
  BY DEF IInv
<1> QED
  BY <1>1, FormattingInvariant, PTL

(* The root inode is found only on a volume all of whose metadata was      *)
(* written, whenever the making of its files and the formatting were cut   *)
(* and however often they are repeated, where the first file to go has the *)
(* beginning of the volume.                                                *)
THEOREM RootIsLast == Spec => []RootMeansFormatted
<1>1. IInv => RootMeansFormatted
  BY SectionsAreParts DEF IInv, Ordered, RootMeansFormatted
<1> QED
  BY <1>1, FormattingInvariant, PTL

(* On a usable volume the regions of all groups are apart, for every       *)
(* format and every size of header, inode and length field.                *)
THEOREM RegionsNeverOverlap == Spec => []RegionsApart
<1>1. ASSUME IInv PROVE RegionsApart
  <2>1. SUFFICES ASSUME Usable, NEW g \in Groups, NEW p \in Parts
                 PROVE  LET r == Region(format, g, p)
                        IN  /\ 0 <= r.start /\ r.start <= r.end
                            /\ r.end < format.groups * GroupStride(format)
                            /\ \A h \in Groups, q \in Parts :
                                 <<g, p>> # <<h, q>> => Apart(r, Region(format, h, q))
    BY DEF RegionsApart
  <2>2. format \in Format
    BY <1>1, <2>1, UsableHasFormat
  <2>3. /\ Region(format, g, p).start \in Nat
        /\ Region(format, g, p).start <= Region(format, g, p).end
        /\ Region(format, g, p).end < format.groups * GroupStride(format)
    BY <2>2, RegionOfGroup DEF Groups
  <2>4. \A h \in Groups, q \in Parts :
          <<g, p>> # <<h, q>> => Apart(Region(format, g, p), Region(format, h, q))
    BY <2>2, VolumeRegionsApart DEF Groups
  <2> QED
    BY <2>3, <2>4
<1> QED
  BY <1>1, FormattingInvariant, PTL

(* On a usable volume the address of a block leads back to its group and   *)
(* its bit.                                                                *)
THEOREM AddressesAlwaysInvert == Spec => []AddressesInvert
<1>1. ASSUME IInv PROVE AddressesInvert
  <2>1. SUFFICES ASSUME Usable, NEW g \in Groups, NEW k \in Blocks
                 PROVE  /\ DeriveFromAddress(format, BlockAddr(format, g, k)) = g
                        /\ BlockIndex(format, BlockAddr(format, g, k)) = k
    BY DEF AddressesInvert
  <2>2. format \in Format
    BY <1>1, <2>1, UsableHasFormat
  <2>3. g \in Nat /\ k \in 0 .. (format.blocks - 1)
    BY DEF Groups, Blocks
  <2> QED
    BY <2>2, <2>3, BlockAddressesInvert
<1> QED
  BY <1>1, FormattingInvariant, PTL

(* On a usable volume every inode number has a slot of its own, inside the *)
(* table of its group.                                                     *)
THEOREM INodesNeverOverlap == Spec => []INodesApart
<1>1. ASSUME IInv PROVE INodesApart
  <2>1. SUFFICES ASSUME Usable, NEW i \in INumbers
                 PROVE  LET table == Region(format, DeriveFromINode(format, i), "inode_table")
                        IN  /\ DeriveFromINode(format, i) \in Groups
                            /\ table.start <= INodeSlot(i).start
                            /\ INodeSlot(i).end <= table.end
                            /\ \A j \in INumbers :
                                 i # j => Apart(INodeSlot(i), INodeSlot(j))
    BY DEF INodesApart
  <2>2. format \in Format
    BY <1>1, <2>1, UsableHasFormat
  <2>3. DeriveFromINode(format, i) \in Groups
    BY <2>2, INodeInItsGroup DEF Groups, INumbers
  <2>4. LET table == Region(format, DeriveFromINode(format, i), "inode_table")
        IN  table.start <= INodeSlot(i).start /\ INodeSlot(i).end <= table.end
    BY <2>2, INodeSlotInTable DEF INumbers, INodeSlot
  <2>5. \A j \in INumbers : i # j => Apart(INodeSlot(i), INodeSlot(j))
    BY <2>2, INodeSlotsApart DEF INumbers, INodeSlot, Apart, Before
  <2> QED
    BY <2>3, <2>4, <2>5
<1> QED
  BY <1>1, FormattingInvariant, PTL
=============================================================================
