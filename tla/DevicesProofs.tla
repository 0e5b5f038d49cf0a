--------------------------- MODULE DevicesProofs ----------------------------
(***************************************************************************)
(* What TLAPS proves of Devices, for any layout of logical devices, any    *)
(* number of tasks, writes, faults and crashes: the invariant DevicesInv   *)
(* is inductive, and type correctness, fresh reads, agreeing replicas and  *)
(* kept writes follow from it, as does that a write changes its own bytes. *)
(*                                                                         *)
(* The steps that touch a device have a shape in common, and it is of that *)
(* shape that the parts of the invariant are shown to hold again:          *)
(*   - Access is an access of a write: SetSlot, WriteFile, and Fail of one *)
(*     that writes, which changes some of the bytes it is about;           *)
(*   - Reading is an access of a read: ReadPart and Fail of one that reads;*)
(*   - Entered and Aside are of a call that starts, goes on to its next    *)
(*     chunk, or returns, and leaves every device as it was.               *)
(***************************************************************************)
EXTENDS DeviceInvariant, Induction

-----------------------------------------------------------------------------
(* Sums of sizes, by induction over how many are added. *)

(* The recursive function inside SumTo. *)
IsSum(f, sizes, n) ==
  f = [i \in 0 .. n |-> IF i = 0 THEN 0 ELSE f[i - 1] + sizes[i]]

(* A function of the shape that SumTo chooses there is, by adding one size *)
(* more at a time.                                                         *)
LEMMA SumExists ==
  ASSUME NEW sizes, NEW n \in Nat
  PROVE  \E f : IsSum(f, sizes, n)
PROOF
<1> DEFINE S == {k \in Nat : \E f : IsSum(f, sizes, k)}
<1>1. 0 \in S
  <2> DEFINE f == [i \in 0 .. 0 |-> 0]
  <2>1. IsSum(f, sizes, 0)
    BY DEF IsSum
  <2> HIDE DEF f
  <2> QED BY <2>1
<1>2. ASSUME NEW k \in Nat, k \in S PROVE k + 1 \in S
  <2>1. PICK f : IsSum(f, sizes, k)
    BY <1>2
  <2> DEFINE g == [i \in 0 .. (k + 1) |->
                     IF i = k + 1 THEN f[k] + sizes[k + 1] ELSE f[i]]
             h == [i \in 0 .. (k + 1) |->
                     IF i = 0 THEN 0 ELSE g[i - 1] + sizes[i]]
  <2>2. \A i \in 0 .. (k + 1) : g[i] = h[i]
    BY <2>1 DEF IsSum
  <2>3. g = [i \in 0 .. (k + 1) |-> g[i]] /\ h = [i \in 0 .. (k + 1) |-> h[i]]
    OBVIOUS
  <2> HIDE DEF g, h
  <2>4. g = h
    BY <2>2, <2>3
  <2>5. IsSum(g, sizes, k + 1)
    BY <2>4 DEF IsSum, h
  <2> QED BY <2>5
<1> HIDE DEF S
<1>3. n \in S
  BY <1>1, <1>2, SetInduction
<1> QED BY <1>3 DEF S

(* Two such functions have the same value wherever both have one: a sum    *)
(* does not depend on how many sizes follow.                               *)
LEMMA SumsAgree ==
  ASSUME NEW sizes, NEW n \in Nat, NEW m \in Nat, n <= m, NEW f, NEW g,
         IsSum(f, sizes, n), IsSum(g, sizes, m)
  PROVE  f[n] = g[n]
PROOF
<1> DEFINE S == {k \in Nat : k <= n => f[k] = g[k]}
<1>1. /\ f[0] = 0 /\ \A i \in 1 .. n : f[i] = f[i - 1] + sizes[i]
      /\ g[0] = 0 /\ \A i \in 1 .. n : g[i] = g[i - 1] + sizes[i]
  BY DEF IsSum
<1>2. 0 \in S
  BY <1>1
<1>3. ASSUME NEW k \in Nat, k \in S PROVE k + 1 \in S
  <2> SUFFICES ASSUME k + 1 <= n PROVE f[k + 1] = g[k + 1]
    OBVIOUS
  <2>1. k + 1 \in 1 .. n /\ (k + 1) - 1 = k /\ f[k] = g[k]
    BY <1>3
  <2> QED BY <1>1, <2>1
<1> HIDE DEF S
<1>4. n \in S
  BY <1>2, <1>3, SetInduction
<1> QED BY <1>4 DEF S

(* SumTo is the value of such a function. *)
LEMMA SumDef ==
  ASSUME NEW sizes, NEW n \in Nat
  PROVE  \E f : IsSum(f, sizes, n) /\ SumTo(sizes, n) = f[n]
PROOF
<1>1. SumTo(sizes, n) = (CHOOSE f : IsSum(f, sizes, n))[n]
  BY DEF SumTo, IsSum
<1>2. IsSum(CHOOSE f : IsSum(f, sizes, n), sizes, n)
  BY SumExists
<1> QED BY <1>1, <1>2

(* SumTo adds one size at a time. *)
LEMMA SumStep ==
  ASSUME NEW sizes
  PROVE  /\ SumTo(sizes, 0) = 0
         /\ \A n \in Nat : SumTo(sizes, n + 1) = SumTo(sizes, n) + sizes[n + 1]
PROOF
<1>1. SumTo(sizes, 0) = 0
  <2>1. PICK f : IsSum(f, sizes, 0) /\ SumTo(sizes, 0) = f[0]
    BY SumDef
  <2> QED BY <2>1 DEF IsSum
<1>2. ASSUME NEW n \in Nat
      PROVE  SumTo(sizes, n + 1) = SumTo(sizes, n) + sizes[n + 1]
  <2>1. PICK f : IsSum(f, sizes, n) /\ SumTo(sizes, n) = f[n]
    BY SumDef
  <2>2. PICK g : IsSum(g, sizes, n + 1) /\ SumTo(sizes, n + 1) = g[n + 1]
    BY SumDef
  <2>3. f[n] = g[n]
    BY <2>1, <2>2, SumsAgree
  <2>4. g[n + 1] = g[n] + sizes[n + 1]
    BY <2>2 DEF IsSum
  <2> QED BY <2>1, <2>2, <2>3, <2>4
<1> QED BY <1>1, <1>2

(* What the configuration says of a logical device: it has a replica, and  *)
(* each replica has a size and a slot size.                                *)
LEMMA LayoutFacts ==
  /\ Len(Layout) \in Nat /\ Devices = 1 .. Len(Layout)
  /\ \A d \in Devices :
       /\ Layout[d].width \in Nat \ {0}
       /\ Replicas(d) \subseteq Nat \ {0} /\ Replicas(d) # {}
       /\ 1 \in Replicas(d)
       /\ \A r \in Replicas(d) : Size(d, r) \in Nat \ {0}
            /\ SlotSize(d, r) \in Nat
PROOF
<1> DEFINE R == [size : Nat \ {0}, slot : Nat]
           L == [width : Nat \ {0}, replicas : Seq(R)]
<1>1. Layout \in Seq(L)
  BY LayoutAssumption
<1>2. Len(Layout) \in Nat /\ Devices = 1 .. Len(Layout)
      /\ \A d \in Devices : Layout[d] \in L
  <2> HIDE DEF L
  <2> QED BY <1>1 DEF Devices
<1>3. ASSUME NEW d \in Devices
      PROVE  Layout[d].width \in Nat \ {0} /\ Layout[d].replicas \in Seq(R)
  <2> HIDE DEF R
  <2> QED BY <1>2
<1>4. ASSUME NEW d \in Devices
      PROVE  /\ Replicas(d) = 1 .. Len(Layout[d].replicas)
             /\ Len(Layout[d].replicas) \in Nat
             /\ \A r \in Replicas(d) : Layout[d].replicas[r] \in R
  <2> HIDE DEF R
  <2> QED BY <1>3 DEF Replicas
<1>5. ASSUME NEW d \in Devices, NEW r \in Replicas(d)
      PROVE  Size(d, r) \in Nat \ {0} /\ SlotSize(d, r) \in Nat
  BY <1>4 DEF Size, SlotSize
<1>6. ASSUME NEW d \in Devices
      PROVE  Replicas(d) # {} /\ 1 \in Replicas(d)
               /\ Replicas(d) \subseteq Nat \ {0}
  <2>1. Replicas(d) # {}
    BY LayoutAssumption
  <2> QED BY <1>4, <2>1
<1> QED BY <1>2, <1>3, <1>5, <1>6

(* A logical device has a smallest replica. *)
LEMMA LeastFacts ==
  ASSUME NEW d \in Devices
  PROVE  /\ Smallest(d) \in Nat \ {0}
         /\ \A r \in Replicas(d) : Smallest(d) <= Size(d, r)
         /\ \E r \in Replicas(d) : Smallest(d) = Size(d, r)
PROOF
<1> DEFINE S == {Size(d, r) : r \in Replicas(d)}
<1>1. S \in SUBSET Nat /\ S # {} /\ \A n \in S : n # 0
  BY LayoutFacts
<1>2. \E n \in S : \A m \in S : n <= m
  <2> HIDE DEF S
  <2> QED BY <1>1, LeastExists
<1>3. \E n \in S : \A r \in Replicas(d) : n <= Size(d, r)
  BY <1>2
<1>4. Smallest(d) \in S /\ \A r \in Replicas(d) : Smallest(d) <= Size(d, r)
  BY <1>3 DEF Smallest
<1> QED BY <1>1, <1>4

-----------------------------------------------------------------------------
(* Where the devices are pinned. *)

(* A store is a replica of a device. *)
LEMMA StoresFacts ==
  /\ \A s \in Stores : /\ s[1] \in Devices /\ s[2] \in Replicas(s[1])
                       /\ s = <<s[1], s[2]>>
  /\ \A d \in Devices : \A r \in Replicas(d) : <<d, r>> \in Stores
BY DEF Stores

(* The capacity of a device is the least of the sizes of its replicas. *)
LEMMA CapsFacts ==
  ASSUME NEW d \in Devices
  PROVE  /\ Caps[d] \in Nat \ {0}
         /\ \A r \in Replicas(d) : Caps[d] <= Size(d, r)
         /\ \E r \in Replicas(d) : Caps[d] = Size(d, r)
BY LeastFacts DEF Caps

(* The first replica of every device has at least its capacity, so that    *)
(* Addresses has room for what is pinned.                                  *)
LEMMA SumsBound ==
  ASSUME NEW n \in 0 .. Len(Layout)
  PROVE  /\ SumTo(Caps, n) \in Nat
         /\ SumTo([d \in Devices |-> Size(d, 1)], n) \in Nat
         /\ SumTo(Caps, n) <= SumTo([d \in Devices |-> Size(d, 1)], n)
PROOF
<1> DEFINE F == [d \in Devices |-> Size(d, 1)]
           P(k) == /\ SumTo(Caps, k) \in Nat /\ SumTo(F, k) \in Nat
                   /\ SumTo(Caps, k) <= SumTo(F, k)
           S == {k \in Nat : k <= Len(Layout) => P(k)}
<1>1. 0 \in S
  <2>1. SumTo(Caps, 0) = 0 /\ SumTo(F, 0) = 0
    BY SumStep
  <2> HIDE DEF F
  <2> QED BY <2>1
<1>2. ASSUME NEW k \in Nat, k \in S PROVE k + 1 \in S
  <2> SUFFICES ASSUME k + 1 <= Len(Layout) PROVE P(k + 1)
    OBVIOUS
  <2>1. k + 1 \in Devices
    BY LayoutFacts
  <2>2. Caps[k + 1] \in Nat /\ F[k + 1] \in Nat /\ Caps[k + 1] <= F[k + 1]
    BY <2>1, LayoutFacts, CapsFacts
  <2>3. P(k)
    BY <1>2, LayoutFacts
  <2>4. /\ SumTo(Caps, k + 1) = SumTo(Caps, k) + Caps[k + 1]
        /\ SumTo(F, k + 1) = SumTo(F, k) + F[k + 1]
    BY SumStep
  <2> HIDE DEF F
  <2> QED BY <2>2, <2>3, <2>4
<1> HIDE DEF S, P
<1>3. Nat \subseteq S
  BY <1>1, <1>2, SetInduction
<1>4. P(n)
  BY <1>3, LayoutFacts DEF S
<1> QED BY <1>4 DEF P

(* Devices that come later are pinned higher. *)
LEMMA SumsGrow ==
  ASSUME NEW m \in 0 .. Len(Layout), NEW n \in 0 .. Len(Layout), m <= n
  PROVE  SumTo(Caps, m) <= SumTo(Caps, n)
PROOF
<1> DEFINE S == {k \in Nat : m + k <= Len(Layout) =>
                                SumTo(Caps, m) <= SumTo(Caps, m + k)}
<1>1. 0 \in S
  <2>0. m \in Nat /\ m + 0 = m
    BY LayoutFacts
  <2>1. SumTo(Caps, m) \in Nat
    BY SumsBound
  <2>2. SumTo(Caps, m) <= SumTo(Caps, m + 0)
    BY <2>0, <2>1
  <2> QED BY <2>2
<1>2. ASSUME NEW k \in Nat, k \in S PROVE k + 1 \in S
  <2> SUFFICES ASSUME m + (k + 1) <= Len(Layout)
               PROVE  SumTo(Caps, m) <= SumTo(Caps, m + (k + 1))
    OBVIOUS
  <2>1. /\ (m + k) + 1 \in Devices /\ m + (k + 1) = (m + k) + 1
        /\ m + k \in Nat /\ m + k \in 0 .. Len(Layout)
    BY LayoutFacts
  <2>2. SumTo(Caps, (m + k) + 1) = SumTo(Caps, m + k) + Caps[(m + k) + 1]
    BY <2>1, SumStep
  <2>3. Caps[(m + k) + 1] \in Nat /\ SumTo(Caps, m + k) \in Nat
        /\ SumTo(Caps, m) \in Nat
    BY <2>1, CapsFacts, SumsBound
  <2>4. SumTo(Caps, m) <= SumTo(Caps, m + k)
    BY <1>2, <2>1
  <2> QED BY <2>1, <2>2, <2>3, <2>4
<1> HIDE DEF S
<1>3. Nat \subseteq S
  BY <1>1, <1>2, SetInduction
<1>4. n - m \in S /\ m + (n - m) = n
  BY <1>3
<1> QED BY <1>4 DEF S

(* Every device is pinned within the addresses, and ends where the next    *)
(* begins.                                                                 *)
LEMMA BaseFacts ==
  ASSUME NEW d \in Devices
  PROVE  /\ Base(d) \in Nat /\ Base(d) + Caps[d] = SumTo(Caps, d)
         /\ Total \in Nat /\ Base(d) + Caps[d] <= Total
         /\ Span(d) \subseteq Addresses
         /\ Addresses \subseteq Nat
PROOF
<1>1. d - 1 \in Nat /\ (d - 1) + 1 = d /\ d - 1 \in 0 .. Len(Layout)
      /\ d \in 0 .. Len(Layout) /\ Len(Layout) \in 0 .. Len(Layout)
      /\ d <= Len(Layout)
  BY LayoutFacts
<1>2. SumTo(Caps, d) = Base(d) + Caps[d]
  BY <1>1, SumStep DEF Base
<1>3. Base(d) \in Nat /\ Total \in Nat
  BY <1>1, SumsBound DEF Base, Total
<1>4. SumTo(Caps, d) <= Total
  BY <1>1, SumsGrow DEF Total
<1>5. /\ SumTo([e \in Devices |-> Size(e, 1)], Len(Layout)) \in Nat
      /\ Total <= SumTo([e \in Devices |-> Size(e, 1)], Len(Layout))
  BY <1>1, SumsBound DEF Total
<1>6. Caps[d] \in Nat
  BY CapsFacts
<1>7. Span(d) \subseteq Addresses
  BY <1>2, <1>3, <1>4, <1>5, <1>6 DEF Span, Addresses
<1> QED BY <1>2, <1>3, <1>4, <1>7 DEF Addresses

(* No address is of two devices. *)
LEMMA SpansApart ==
  ASSUME NEW d \in Devices, NEW e \in Devices, NEW a,
         a \in Span(d), a \in Span(e)
  PROVE  d = e
PROOF
<1>1. ASSUME NEW x \in Devices, NEW y \in Devices, x < y
      PROVE  Base(x) + Caps[x] <= Base(y)
  <2>1. x \in 0 .. Len(Layout) /\ y - 1 \in 0 .. Len(Layout) /\ x <= y - 1
    BY <1>1, LayoutFacts
  <2> QED BY <2>1, SumsGrow, BaseFacts DEF Base
<1>2. /\ a \in Int /\ Base(d) \in Nat /\ Base(e) \in Nat
      /\ Caps[d] \in Nat /\ Caps[e] \in Nat
      /\ Base(d) <= a /\ a < Base(d) + Caps[d]
      /\ Base(e) <= a /\ a < Base(e) + Caps[e]
  BY BaseFacts, CapsFacts DEF Span
<1>3. ~(d < e) /\ ~(e < d)
  BY <1>1, <1>2
<1> QED BY <1>3, LayoutFacts

(* A cell is a replica and an address its device is pinned at. *)
LEMMA CellFacts ==
  ASSUME NEW s, NEW a
  PROVE  <<s, a>> \in Cell <=> s \in Stores /\ a \in Span(s[1])
BY DEF Cell

(* Such an address is within the replica, at its offset from where the     *)
(* device is pinned (local_offset).                                        *)
LEMMA CellOffset ==
  ASSUME NEW s \in Stores, NEW a \in Span(s[1])
  PROVE  /\ a \in Nat /\ a - Base(s[1]) \in 0 .. (Size(s[1], s[2]) - 1)
         /\ (a - Base(s[1])) + Base(s[1]) = a /\ a # -1
         /\ a \in Addresses
PROOF
<1>1. s[1] \in Devices /\ s[2] \in Replicas(s[1])
  BY StoresFacts
<1>2. /\ Base(s[1]) \in Nat /\ Caps[s[1]] \in Nat /\ Size(s[1], s[2]) \in Nat
      /\ Caps[s[1]] <= Size(s[1], s[2]) /\ a \in Addresses
  BY <1>1, BaseFacts, CapsFacts, LayoutFacts
<1> QED BY <1>2 DEF Span

(* A Controller that is made has pinned each device where Base says. *)
LEMMA OpenGeometry ==
  ASSUME cap = Caps, NEW d \in Devices
  PROVE  /\ Start(d) = Base(d) /\ End(d) = Base(d) + Caps[d]
         /\ Pinned(d) = Span(d) /\ End(Len(Layout)) = Total
PROOF
<1>1. Start(d) = Base(d) /\ End(Len(Layout)) = Total
  BY DEF Start, End, Base, Total
<1>2. End(d) = Base(d) + Caps[d]
  BY BaseFacts DEF End
<1>3. Base(d) \in Int /\ Caps[d] \in Int
  BY BaseFacts, CapsFacts
<1>4. Pinned(d) = Span(d)
  <2>1. \A a : a \in Pinned(d) <=> a \in Int /\ Start(d) <= a
          /\ a <= End(d) - 1
    BY <1>1, <1>2, <1>3 DEF Pinned
  <2>2. \A a : a \in Span(d) <=> a \in Int /\ Base(d) <= a
                               /\ a <= Base(d) + Caps[d] - 1
    BY <1>3 DEF Span
  <2>3. \A a : a \in Pinned(d) <=> a \in Span(d)
    BY <1>1, <1>2, <1>3, <2>1, <2>2
  <2> QED BY <2>3
<1> QED BY <1>1, <1>2, <1>4

-----------------------------------------------------------------------------
(* The chunks of a range, by induction over the devices. *)

(* A chunk of a range. *)
ChunkRecord == [dev : Devices, first : Int, last : Int]
(* The range meets device d. *)
Meets(want, d) == Chunk(d, want).first <= Chunk(d, want).last
(* What Chunks has after device d, from what it had before it. *)
Joined(f, want, d) ==
  IF d = 0 THEN <<>>
  ELSE IF Meets(want, d) THEN Append(f[d - 1], Chunk(d, want)) ELSE f[d - 1]
(* The recursive function inside Chunks. *)
IsPlan(f, want, n) == f = [d \in 0 .. n |-> Joined(f, want, d)]

(* A function of the shape that Chunks chooses there is, by taking one     *)
(* device more at a time.                                                  *)
LEMMA PlanExists ==
  ASSUME NEW want, NEW n \in Nat
  PROVE  \E f : IsPlan(f, want, n)
PROOF
<1> DEFINE S == {k \in Nat : \E f : IsPlan(f, want, k)}
<1>1. 0 \in S
  <2> DEFINE f == [i \in 0 .. 0 |-> <<>>]
  <2>1. IsPlan(f, want, 0)
    BY DEF IsPlan, Joined
  <2> HIDE DEF f
  <2> QED BY <2>1
<1>2. ASSUME NEW k \in Nat, k \in S PROVE k + 1 \in S
  <2>1. PICK f : IsPlan(f, want, k)
    BY <1>2
  <2> DEFINE g == [i \in 0 .. (k + 1) |->
                     IF i = k + 1 THEN Joined(f, want, i) ELSE f[i]]
             h == [i \in 0 .. (k + 1) |-> Joined(g, want, i)]
  <2>2. \A i \in 0 .. (k + 1) : g[i] = h[i]
    <3> SUFFICES ASSUME NEW i \in 0 .. (k + 1) PROVE g[i] = Joined(g, want, i)
      OBVIOUS
    <3>1. \A j \in 0 .. k : f[j] = Joined(f, want, j) /\ g[j] = f[j]
      BY <2>1 DEF IsPlan
    <3>2. g[i] = Joined(f, want, i)
      <4>1. CASE i = k + 1
        BY <4>1
      <4>2. CASE i # k + 1
        <5>1. i \in 0 .. k
          BY <4>2
        <5> QED BY <3>1, <5>1
      <4> QED BY <4>1, <4>2
    <3>3. i = 0 \/ (i # 0 /\ i - 1 \in 0 .. k)
      OBVIOUS
    <3>4. i # 0 => g[i - 1] = f[i - 1]
      BY <3>1, <3>3
    <3> HIDE DEF g
    <3> QED BY <3>2, <3>3, <3>4 DEF Joined
  <2>3. g = [i \in 0 .. (k + 1) |-> g[i]] /\ h = [i \in 0 .. (k + 1) |-> h[i]]
    OBVIOUS
  <2> HIDE DEF g, h
  <2>4. g = h
    BY <2>2, <2>3
  <2>5. IsPlan(g, want, k + 1)
    BY <2>4 DEF IsPlan, h
  <2> QED BY <2>5
<1> HIDE DEF S
<1>3. n \in S
  BY <1>1, <1>2, SetInduction
<1> QED BY <1>3 DEF S

(* The chunk of a device is the part of the range the device has. *)
LEMMA ChunkFacts ==
  ASSUME cap = Caps, NEW want \in Ranges, NEW d \in Devices
  PROVE  /\ Chunk(d, want) \in ChunkRecord /\ Chunk(d, want).dev = d
         /\ Chunk(d, want).first = Greater(want.at, Base(d))
         /\ Chunk(d, want).last = Lesser(want.at + want.len,
              Base(d) + Caps[d]) - 1
         /\ want.at \in Nat /\ want.len \in Nat \ {0}
PROOF
<1>1. want.at \in Nat /\ want.len \in Nat \ {0}
  BY CallAssumption
<1>2. Start(d) = Base(d) /\ End(d) = Base(d) + Caps[d]
  BY OpenGeometry
<1>3. Base(d) \in Nat /\ Caps[d] \in Nat
  BY BaseFacts, CapsFacts
<1> QED BY <1>1, <1>2, <1>3 DEF Chunk, ChunkRecord, Greater, Lesser

(* The chunks of the devices below address end cover what the range has    *)
(* below it, one after the other.                                          *)
Grown(s, want, end) ==
  /\ s \in Seq(ChunkRecord)
  /\ s = <<>> <=> want.at >= end
  /\ s # <<>> =>
       /\ \A i \in DOMAIN s : IsChunk(s[i], want)
       /\ \A i, j \in DOMAIN s : j = i + 1 => s[j].first = s[i].last + 1
       /\ s[1].first = want.at
       /\ s[Len(s)].last = Lesser(want.at + want.len, end) - 1

(* One device more, and the chunks cover what the range has in it too. *)
LEMMA GrownStep ==
  ASSUME cap = Caps, NEW want \in Ranges, NEW d \in Devices, NEW s,
         Grown(s, want, Base(d))
  PROVE  Grown(IF Meets(want, d) THEN Append(s, Chunk(d, want)) ELSE s,
               want, Base(d) + Caps[d])
PROOF
<1> DEFINE c == Chunk(d, want)
           from == Base(d)
           to == Base(d) + Caps[d]
           end == want.at + want.len
<1>1. /\ c \in ChunkRecord /\ c.dev = d /\ c.first = Greater(want.at, from)
      /\ c.last = Lesser(end, to) - 1 /\ want.at \in Nat /\ end \in Nat
      /\ want.at < end
  BY ChunkFacts
<1>2. from \in Nat /\ to \in Nat /\ from < to
  BY BaseFacts, CapsFacts
<1>3. Meets(want, d) <=> c.first <= c.last
  BY DEF Meets
<1>4. s \in Seq(ChunkRecord) /\ (s = <<>> <=> want.at >= from)
  BY DEF Grown
<1>5. c.first <= c.last => IsChunk(c, want)
  BY <1>1 DEF IsChunk
<1>6. s # <<>> =>
       /\ \A i \in DOMAIN s : IsChunk(s[i], want)
       /\ \A i, j \in DOMAIN s : j = i + 1 => s[j].first = s[i].last + 1
       /\ s[1].first = want.at
       /\ s[Len(s)].last = Lesser(end, from) - 1
  BY DEF Grown
<1> HIDE DEF c, from, to, end
<1>7. CASE c.first <= c.last
  <2> DEFINE p == Append(s, c)
  <2>1. /\ p \in Seq(ChunkRecord) /\ Len(p) = Len(s) + 1 /\ p # <<>>
        /\ DOMAIN p = 1 .. (Len(s) + 1) /\ DOMAIN s = 1 .. Len(s)
        /\ Len(s) \in Nat /\ p[Len(s) + 1] = c
        /\ \A i \in 1 .. Len(s) : p[i] = s[i]
    BY <1>1, <1>4
  <2> HIDE DEF p
  <2>2. want.at < to /\ from < end
    BY <1>1, <1>2, <1>7 DEF Greater, Lesser
  <2>3. \A i \in DOMAIN p : IsChunk(p[i], want)
    <3> SUFFICES ASSUME NEW i \in 1 .. (Len(s) + 1) PROVE IsChunk(p[i], want)
      BY <2>1
    <3>1. CASE i = Len(s) + 1
      BY <1>5, <1>7, <2>1, <3>1
    <3>2. CASE i \in 1 .. Len(s)
      <4>1. s # <<>> /\ i \in DOMAIN s
        BY <2>1, <3>2
      <4> QED BY <1>6, <2>1, <3>2, <4>1
    <3> QED BY <2>1, <3>1, <3>2
  <2>4. p[1].first = want.at /\ (s # <<>> => c.first = s[Len(s)].last + 1)
    <3>1. CASE s = <<>>
      <4>1. want.at >= from /\ p[1] = c
        BY <1>4, <2>1, <3>1
      <4> QED BY <1>1, <1>2, <3>1, <4>1 DEF Greater
    <3>2. CASE s # <<>>
      <4>1. want.at < from /\ p[1] = s[1]
        BY <1>1, <1>2, <1>4, <2>1, <3>2
      <4>2. c.first = from /\ s[Len(s)].last = from - 1
        BY <1>1, <1>2, <1>6, <2>2, <3>2, <4>1 DEF Greater, Lesser
      <4> QED BY <1>2, <1>6, <3>2, <4>1, <4>2
    <3> QED BY <3>1, <3>2
  <2>5. ASSUME NEW i \in DOMAIN p, NEW j \in DOMAIN p, j = i + 1
        PROVE  p[j].first = p[i].last + 1
    <3>1. i \in 1 .. Len(s) /\ s # <<>>
            /\ (j \in 1 .. Len(s) \/ j = Len(s) + 1)
      BY <2>1, <2>5
    <3>2. CASE j \in 1 .. Len(s)
      BY <1>6, <2>1, <2>5, <3>1, <3>2
    <3>3. CASE j = Len(s) + 1
      <4>1. i = Len(s)
        BY <2>1, <2>5, <3>1, <3>3
      <4> QED BY <2>1, <2>4, <3>1, <3>3, <4>1
    <3> QED BY <3>1, <3>2, <3>3
  <2>6. p[Len(p)].last = Lesser(end, to) - 1
    BY <1>1, <2>1
  <2>7. Grown(p, want, to)
    <3>1. p = <<>> <=> want.at >= to
      BY <1>1, <1>2, <2>1, <2>2
    <3> QED BY <2>1, <2>3, <2>4, <2>5, <2>6, <3>1 DEF Grown, end
  <2> QED BY <1>3, <1>7, <2>7 DEF p, c, to
<1>8. CASE ~(c.first <= c.last)
  <2>1. want.at >= to \/ from >= end
    BY <1>1, <1>2, <1>8 DEF Greater, Lesser
  <2>2. Grown(s, want, to)
    <3>1. CASE want.at >= to
      <4>1. s = <<>>
        BY <1>1, <1>2, <1>4, <3>1
      <4> QED BY <1>4, <3>1, <4>1 DEF Grown
    <3>2. CASE from >= end
      <4>1. s # <<>> /\ ~(want.at >= to)
        BY <1>1, <1>2, <1>4, <3>2
      <4>2. Lesser(end, from) = Lesser(end, to)
        BY <1>1, <1>2, <3>2 DEF Lesser
      <4> QED BY <1>4, <1>6, <4>1, <4>2 DEF Grown, end
    <3> QED BY <2>1, <3>1, <3>2
  <2> QED BY <1>3, <1>8, <2>2 DEF c, to
<1> QED BY <1>7, <1>8

(* The loop of raw_write and raw_read covers a range that is within the    *)
(* devices from its first byte to its last, without a gap and without      *)
(* taking a byte twice.                                                    *)
LEMMA ChunksChained ==
  ASSUME cap = Caps, NEW want \in Ranges, Covered(want)
  PROVE  /\ Chained(Chunks(want), want)
         /\ Head(Chunks(want)).first = want.at
PROOF
<1> DEFINE n == Len(Layout)
<1>1. n \in Nat /\ Devices = 1 .. n
  BY LayoutFacts
<1> HIDE DEF n
<1>2. PICK f : IsPlan(f, want, n) /\ Chunks(want) = f[n]
  <2>1. Chunks(want) = (CHOOSE f : IsPlan(f, want, n))[n]
    BY DEF Chunks, IsPlan, Joined, Meets, n
  <2> QED BY <1>1, <2>1, PlanExists
<1>3. \A k \in Nat : k <= n => Grown(f[k], want, SumTo(Caps, k))
  <2> DEFINE S == {k \in Nat : k <= n => Grown(f[k], want, SumTo(Caps, k))}
  <2>1. 0 \in S
    <3>1. f[0] = <<>> /\ SumTo(Caps, 0) = 0
      BY <1>1, <1>2, SumStep DEF IsPlan, Joined
    <3>2. want.at >= 0
      BY CallAssumption
    <3>3. Grown(<<>>, want, 0)
      BY <3>2 DEF Grown
    <3> QED BY <3>1, <3>3
  <2>2. ASSUME NEW k \in Nat, k \in S PROVE k + 1 \in S
    <3> SUFFICES ASSUME k + 1 <= n
                 PROVE  Grown(f[k + 1], want, SumTo(Caps, k + 1))
      OBVIOUS
    <3>1. k + 1 \in Devices /\ (k + 1) - 1 = k
            /\ Grown(f[k], want, SumTo(Caps, k))
      BY <1>1, <2>2
    <3>2. /\ f[k + 1] = IF Meets(want, k + 1)
                          THEN Append(f[k], Chunk(k + 1, want)) ELSE f[k]
      <4>1. k + 1 \in 0 .. n /\ k + 1 # 0
        BY <1>1
      <4>2. f[k + 1] = Joined(f, want, k + 1)
        BY <1>2, <4>1 DEF IsPlan
      <4> QED BY <3>1, <4>1, <4>2 DEF Joined
    <3>3. /\ Base(k + 1) = SumTo(Caps, k)
          /\ SumTo(Caps, k + 1) = Base(k + 1) + Caps[k + 1]
      BY <3>1, SumStep DEF Base
    <3> QED BY <3>1, <3>2, <3>3, GrownStep
  <2> HIDE DEF S
  <2>3. Nat \subseteq S
    BY <2>1, <2>2, SetInduction
  <2> QED BY <2>3 DEF S
<1>4. Grown(Chunks(want), want, Total)
  BY <1>1, <1>2, <1>3 DEF Total, n
<1>5. Total \in Nat
  <2>1. Len(Layout) \in 0 .. Len(Layout)
    BY LayoutFacts
  <2> QED BY <2>1, SumsBound DEF Total
<1>6. /\ want.at \in Nat /\ want.len \in Nat \ {0}
      /\ want.at + want.len <= Total
  BY CallAssumption DEF Covered, End, Total
<1> DEFINE p == Chunks(want)
<1> HIDE DEF p
<1>7. Lesser(want.at + want.len, Total) = want.at + want.len
  BY <1>5, <1>6 DEF Lesser
<1>8. p # <<>>
  <2>1. ~(want.at >= Total)
    BY <1>5, <1>6
  <2>2. p = <<>> <=> want.at >= Total
    BY <1>4 DEF Grown, p
  <2> QED BY <2>1, <2>2
<1>9. /\ p \in Seq(ChunkRecord)
      /\ \A i \in DOMAIN p : IsChunk(p[i], want)
      /\ \A i, j \in DOMAIN p : j = i + 1 => p[j].first = p[i].last + 1
      /\ p[1].first = want.at
      /\ p[Len(p)].last = Lesser(want.at + want.len, Total) - 1
  BY <1>4, <1>8 DEF Grown, p
<1>10. Head(p) = p[1]
  BY <1>8, <1>9
<1>11. p[Len(p)].last = want.at + want.len - 1
  BY <1>6, <1>7, <1>9
<1> QED BY <1>8, <1>9, <1>10, <1>11 DEF Chained, ChunkRecord, p

-----------------------------------------------------------------------------
(* A call under way and its next access. *)

(* Two offsets are in one slot as long as the second is below the end of   *)
(* the slot of the first.                                                  *)
LEMMA SameQuotient ==
  ASSUME NEW s \in Nat \ {0}, NEW m \in Nat, NEW n \in Nat, m <= n
  PROVE  n \div s = m \div s <=> n < (m \div s) * s + s
PROOF
<1> DEFINE q == m \div s
           k == n \div s
           x == q * s
           y == k * s
<1>1. q \in Nat /\ k \in Nat /\ x \in Int /\ y \in Int
  BY SMT
<1>2. m = x + (m % s) /\ n = y + (n % s)
  BY SMT
<1>3. m % s \in 0 .. (s - 1) /\ n % s \in 0 .. (s - 1)
  BY Z3
<1>4. k >= q + 1 => y >= x + s
  <2>1. ASSUME k >= q + 1 PROVE k * s >= (q + 1) * s
    <3> HIDE DEF q, k
    <3> QED BY <1>1, <2>1, SMT
  <2>2. (q + 1) * s = q * s + s
    <3> HIDE DEF q
    <3> QED BY <1>1, SMT
  <2> QED BY <2>1, <2>2
<1>5. q >= k + 1 => x >= y + s
  <2>1. ASSUME q >= k + 1 PROVE q * s >= (k + 1) * s
    <3> HIDE DEF q, k
    <3> QED BY <1>1, <2>1, SMT
  <2>2. (k + 1) * s = k * s + s
    <3> HIDE DEF k
    <3> QED BY <1>1, SMT
  <2> QED BY <2>1, <2>2
<1>6. k = q => y = x
  OBVIOUS
<1> HIDE DEF q, k, x, y
<1>7. k = q <=> n < x + s
  BY <1>1, <1>2, <1>3, <1>4, <1>5, <1>6
<1> QED BY <1>7 DEF q, k, x

(* How many numbers an interval has. *)
LEMMA IntervalSize ==
  ASSUME NEW m \in Int, NEW n \in Int, m <= n + 1
  PROVE  Cardinality(m .. n) = n + 1 - m
BY FS_Interval

(* The chunk that a call has under way is of one device, within it and     *)
(* within its range.                                                       *)
LEMMA BusyFacts ==
  ASSUME Calls, NEW t \in Tasks, call[t] # "none"
  PROVE  /\ Busy(t) /\ open /\ cap = Caps
         /\ Current(t) \in ChunkRecord /\ Dev(t) \in Devices
         /\ range[t].at \in Nat /\ range[t].len \in Nat \ {0}
         /\ Current(t).first \in Nat /\ Current(t).last \in Nat
         /\ range[t].at <= Current(t).first
         /\ Current(t).first <= Current(t).last
         /\ Current(t).last <= range[t].at + range[t].len - 1
         /\ Bytes(Current(t)) \subseteq Of(range[t]) \cap Span(Dev(t))
         /\ DOMAIN answer[t] = Replicas(Dev(t))
         /\ \A r \in DOMAIN answer[t] : Store(t, r) \in Stores
PROOF
<1>1. Busy(t) /\ open /\ cap = Caps
  BY DEF Calls, Busy
<1> DEFINE p == plan[t]
           want == range[t]
<1>2. /\ p \in Seq(ChunkRecord) /\ p # <<>> /\ want \in Ranges
      /\ \A i \in DOMAIN p : IsChunk(p[i], want)
  BY <1>1 DEF Busy, Chained, ChunkRecord
<1>3. Current(t) = p[1] /\ 1 \in DOMAIN p /\ p[1] \in ChunkRecord
  <2> HIDE DEF p
  <2>1. Head(p) = p[1] /\ 1 \in DOMAIN p /\ p[1] \in ChunkRecord
    BY <1>2
  <2> QED BY <2>1 DEF Current, p
<1>4. want.at \in Nat /\ want.len \in Nat \ {0}
  BY <1>2, CallAssumption
<1> DEFINE c == Current(t)
<1>5. c \in ChunkRecord /\ IsChunk(c, want)
  BY <1>2, <1>3
<1>6. c.dev \in Devices /\ c.first \in Int /\ c.last \in Int
  <2> HIDE DEF c
  <2> QED BY <1>5 DEF ChunkRecord
<1>7. Base(c.dev) \in Nat /\ Caps[c.dev] \in Nat
  BY <1>6, BaseFacts, CapsFacts
<1> HIDE DEF p, want, c
<1>8. /\ c.first = Greater(want.at, Base(c.dev)) /\ c.first <= c.last
      /\ c.last = Lesser(want.at + want.len, Base(c.dev) + Caps[c.dev]) - 1
  BY <1>5 DEF IsChunk
<1>9. /\ want.at <= c.first /\ Base(c.dev) <= c.first
      /\ c.last <= want.at + want.len - 1
      /\ c.last <= Base(c.dev) + Caps[c.dev] - 1
      /\ c.first \in Nat /\ c.last \in Nat
  BY <1>4, <1>6, <1>7, <1>8 DEF Greater, Lesser
<1>10. Bytes(c) \subseteq Of(want) \cap Span(c.dev)
  BY <1>4, <1>6, <1>7, <1>9 DEF Bytes, Of, Span
<1>11. DOMAIN answer[t] = Replicas(Dev(t))
  BY <1>1 DEF Busy
<1>12. \A r \in DOMAIN answer[t] : Store(t, r) \in Stores
  BY <1>6, <1>11, StoresFacts DEF Store, Dev, c
<1> QED BY <1>1, <1>4, <1>5, <1>6, <1>8, <1>9, <1>10, <1>11, <1>12
        DEF c, want, Dev

(* The rest of a plan goes on where its first chunk ends, and the last     *)
(* ends where the range does.                                              *)
LEMMA PlanFacts ==
  ASSUME Calls, NEW t \in Tasks, call[t] # "none"
  PROVE  /\ Tail(plan[t]) = <<>> =>
              Current(t).last = range[t].at + range[t].len - 1
         /\ Tail(plan[t]) # <<>> =>
              /\ Chained(Tail(plan[t]), range[t])
              /\ Head(Tail(plan[t])).first = Current(t).last + 1
PROOF
<1> DEFINE p == plan[t]
           want == range[t]
           q == Tail(p)
<1>1. Busy(t)
  BY DEF Calls
<1>2. Chained(p, want)
  BY <1>1 DEF Busy
<1>3. Current(t) = Head(p)
  BY DEF Current
<1> HIDE DEF p, want
<1>4. /\ p \in Seq(ChunkRecord) /\ p # <<>>
      /\ \A i \in DOMAIN p : IsChunk(p[i], want)
      /\ \A i, j \in DOMAIN p : j = i + 1 => p[j].first = p[i].last + 1
      /\ p[Len(p)].last = want.at + want.len - 1
  BY <1>2 DEF Chained, ChunkRecord
<1>5. /\ Len(p) \in Nat \ {0} /\ DOMAIN p = 1 .. Len(p) /\ Head(p) = p[1]
      /\ q \in Seq(ChunkRecord) /\ Len(q) = Len(p) - 1
      /\ DOMAIN q = 1 .. (Len(p) - 1)
      /\ \A i \in 1 .. (Len(p) - 1) : q[i] = p[i + 1]
  BY <1>4
<1> HIDE DEF q
<1>6. q = <<>> <=> Len(p) = 1
  BY <1>5
<1>7. ASSUME q # <<>>
      PROVE  Chained(q, want) /\ Head(q).first = Head(p).last + 1
  <2>1. Len(p) - 1 \in Nat \ {0} /\ Head(q) = q[1]
    BY <1>5, <1>6, <1>7
  <2>2. \A i \in DOMAIN q : IsChunk(q[i], want)
    BY <1>4, <1>5
  <2>3. ASSUME NEW i \in DOMAIN q, NEW j \in DOMAIN q, j = i + 1
        PROVE  q[j].first = q[i].last + 1
    <3>1. i + 1 \in DOMAIN p /\ j + 1 \in DOMAIN p /\ j + 1 = (i + 1) + 1
      BY <1>5, <2>3
    <3>2. p[j + 1].first = p[i + 1].last + 1
      BY <1>4, <3>1
    <3>3. q[i] = p[i + 1] /\ q[j] = p[j + 1]
      BY <1>5
    <3> QED BY <3>2, <3>3
  <2>4. q[Len(q)] = p[Len(p)]
    BY <1>5, <2>1
  <2>5. q[1] = p[2] /\ 1 \in DOMAIN p /\ 2 \in DOMAIN p
    BY <1>5, <2>1
  <2>6. p[2].first = p[1].last + 1
    BY <1>4, <2>5
  <2> QED BY <1>4, <1>5, <1>7, <2>1, <2>2, <2>3, <2>4, <2>5, <2>6
          DEF Chained, ChunkRecord
<1>8. q = <<>> => Head(p).last = want.at + want.len - 1
  BY <1>4, <1>5, <1>6
<1> QED BY <1>3, <1>7, <1>8 DEF p, want, q

(* An access takes the next addresses of its chunk, at least one, and to   *)
(* the end of a slot or of the chunk.                                      *)
LEMMA PartFacts ==
  ASSUME Shapes, Calls, NEW t \in Tasks, call[t] # "none",
         NEW r \in DOMAIN answer[t], answer[t][r] = "pending"
  PROVE  /\ pos[t][r] \in Nat /\ Current(t).first <= pos[t][r]
         /\ pos[t][r] <= Current(t).last
         /\ IsFile(Dev(t), r) => pos[t][r] = Current(t).first
         /\ \E e \in pos[t][r] .. Current(t).last :
              Part(t, r) = pos[t][r] .. e
PROOF
<1> DEFINE c == Current(t)
           p == pos[t][r]
           d == Dev(t)
           s == SlotSize(d, r)
           b == Base(d)
<1>1. /\ Busy(t) /\ cap = Caps /\ d \in Devices /\ c.first \in Nat
      /\ c.last \in Nat /\ c.first <= c.last /\ r \in Replicas(d)
      /\ Bytes(c) \subseteq Span(d)
  BY BusyFacts
<1>2. /\ p \in c.first .. (c.last + 1) /\ p <= c.last
      /\ IsFile(d, r) => p = c.first
  BY <1>1 DEF Busy
<1>3. p \in Nat /\ c.first <= p
  BY <1>1, <1>2
<1>4. CASE IsFile(d, r)
  <2>1. Part(t, r) = p .. c.last
    BY <1>2, <1>4 DEF Part, Bytes
  <2> QED BY <1>1, <1>2, <1>3, <1>4, <2>1
<1>5. CASE ~IsFile(d, r)
  <2>1. s \in Nat \ {0}
    BY <1>1, <1>5, LayoutFacts DEF IsFile
  <2>2. Start(d) = b /\ b \in Nat /\ Caps[d] \in Nat
    BY <1>1, OpenGeometry, BaseFacts, CapsFacts
  <2>3. b <= p
    <3>1. p \in Bytes(c)
      BY <1>1, <1>2, <1>3 DEF Bytes
    <3> QED BY <1>1, <2>2, <3>1 DEF Span
  <2> DEFINE m == p - b
             x == (m \div s) * s + s
             e == Lesser(c.last, b + x - 1)
  <2>4. m \in Nat /\ x \in Int /\ m < x
    <3>1. m \in Nat
      BY <1>3, <2>2, <2>3
    <3>2. x \in Int
      <4> HIDE DEF m
      <4> QED BY <2>1, <3>1, SMT
    <3>3. m < x
      <4> HIDE DEF m
      <4> QED BY <2>1, <3>1, SameQuotient
    <3> QED BY <3>1, <3>2, <3>3
  <2>5. ASSUME NEW a \in p .. c.last
        PROVE  Slot(d, r, Offset(d, a)) = SlotAt(t, r) <=> a <= e
    <3>1. a \in Int /\ a - b \in Nat /\ m <= a - b /\ a <= c.last
      BY <1>1, <1>3, <2>2, <2>3
    <3>2. (a - b) \div s = m \div s <=> a - b < x
      BY <2>1, <2>4, <3>1, SameQuotient
    <3>3. a - b < x <=> a <= e
      <4> HIDE DEF x, m, s, b, d, c
      <4> QED BY <1>1, <2>2, <2>4, <3>1 DEF Lesser
    <3>4. /\ Slot(d, r, Offset(d, a)) = (a - b) \div s
          /\ SlotAt(t, r) = m \div s
      BY <2>2 DEF Slot, SlotAt, Offset
    <3> HIDE DEF e, x, m, s, b
    <3> QED BY <3>2, <3>3, <3>4
  <2>6. e \in p .. c.last
    <3> HIDE DEF x, d, s
    <3> QED BY <1>1, <1>2, <1>3, <2>2, <2>4 DEF Lesser
  <2>7. Part(t, r) = {a \in p .. c.last : Slot(d, r, Offset(d,
          a)) = SlotAt(t, r)}
    BY <1>5 DEF Part
  <2> HIDE DEF e, m, x, s, b, d, c, p
  <2>8. Part(t, r) = {a \in p .. c.last : a <= e}
    BY <2>5, <2>7
  <2>9. {a \in p .. c.last : a <= e} = p .. e
    BY <1>1, <1>3, <2>6
  <2>10. Part(t, r) = p .. e
    BY <2>8, <2>9
  <2> QED BY <1>2, <1>3, <1>5, <2>6, <2>10 DEF c, p, d
<1> QED BY <1>4, <1>5

(* The access of replica r up to address e is done, and nothing else has   *)
(* moved.                                                                  *)
Moved(t, r, e) ==
  /\ pos'[t][r] = e + 1
  /\ answer'[t][r] = IF e = Current(t).last THEN "ok" ELSE "pending"
  /\ \A q \in DOMAIN answer[t] : q # r =>
       pos'[t][q] = pos[t][q] /\ answer'[t][q] = answer[t][q]
  /\ \A u \in Tasks : u # t => pos'[u] = pos[u] /\ answer'[u] = answer[u]
  /\ DOMAIN pos' = Tasks /\ DOMAIN answer' = Tasks
  /\ DOMAIN pos'[t] = DOMAIN pos[t] /\ DOMAIN answer'[t] = DOMAIN answer[t]

(* Advance moves the replica to the address after its part, and answers    *)
(* when that was the last of the chunk.                                    *)
LEMMA AdvanceFacts ==
  ASSUME Shapes, Calls, NEW t \in Tasks, call[t] # "none",
         NEW r \in DOMAIN answer[t], answer[t][r] = "pending", Advance(t, r)
  PROVE  \E e \in pos[t][r] .. Current(t).last :
            Part(t, r) = pos[t][r] .. e /\ Moved(t, r, e)
PROOF
<1>1. PICK e \in pos[t][r] .. Current(t).last : Part(t, r) = pos[t][r] .. e
  BY PartFacts
<1>2. pos[t][r] \in Nat /\ Current(t).last \in Nat
        /\ pos[t][r] <= Current(t).last
  BY PartFacts, BusyFacts
<1>3. Cardinality(Part(t, r)) = e + 1 - pos[t][r]
  <2> DEFINE p == pos[t][r]
             l == Current(t).last
  <2> HIDE DEF p, l
  <2>1. e \in p .. l /\ p \in Nat /\ l \in Nat /\ Part(t, r) = p .. e
    BY <1>1, <1>2 DEF p, l
  <2>2. Cardinality(p .. e) = e + 1 - p
    BY <2>1, IntervalSize
  <2> QED BY <2>1, <2>2 DEF p
<1>4. Current(t).last \in Part(t, r) <=> e = Current(t).last
  BY <1>1, <1>2
<1>5. pos' = [pos EXCEPT ![t][r] = @ + Cardinality(Part(t, r))]
  BY DEF Advance
<1>6. answer' = [answer EXCEPT ![t][r] =
                   IF Current(t).last \in Part(t, r) THEN "ok" ELSE "pending"]
  BY DEF Advance
<1>7. /\ DOMAIN pos = Tasks /\ DOMAIN answer = Tasks
      /\ DOMAIN pos[t] = DOMAIN answer[t]
  BY DEF Shapes
<1>8. pos'[t][r] = e + 1
  <2>1. pos'[t][r] = pos[t][r] + Cardinality(Part(t, r))
    BY <1>5, <1>7
  <2> QED BY <1>1, <1>2, <1>3, <2>1
<1>9. answer'[t][r] = IF e = Current(t).last THEN "ok" ELSE "pending"
  BY <1>4, <1>6, <1>7
<1>10. \A q \in DOMAIN answer[t] : q # r =>
         pos'[t][q] = pos[t][q] /\ answer'[t][q] = answer[t][q]
  BY <1>5, <1>6, <1>7
<1>11. \A u \in Tasks : u # t => pos'[u] = pos[u] /\ answer'[u] = answer[u]
  BY <1>5, <1>6, <1>7
<1>12. /\ DOMAIN pos' = Tasks /\ DOMAIN answer' = Tasks
       /\ DOMAIN pos'[t] = DOMAIN pos[t]
            /\ DOMAIN answer'[t] = DOMAIN answer[t]
  BY <1>5, <1>6, <1>7
<1>13. Moved(t, r, e)
  BY <1>8, <1>9, <1>10, <1>11, <1>12 DEF Moved
<1> QED BY <1>1, <1>13

(* Replica r of the chunk of t has the byte of t in part; every other      *)
(* byte, of every replica, is as it was or was lost to another write of    *)
(* its slot.                                                               *)
Changed(t, r, part) ==
  /\ DOMAIN store' = Stores
  /\ \A s \in Stores : store'[s] \in [0 .. (Size(s[1], s[2]) - 1) -> Raw]
  /\ \A s \in Stores : \A o \in 0 .. (Size(s[1], s[2]) - 1) :
       LET a == o + Base(s[1])
       IN  IF s = Store(t, r) /\ a \in part
             THEN store'[s][o] = Enciphered(value[t], a)
             ELSE store'[s][o] = store[s][o] \/ <<s, a>> \in raced

(* What put stores: the bytes of the part, and around them the slot as it  *)
(* was copied, which differs from what is there only where another write   *)
(* has stored since.                                                       *)
LEMMA PutFacts ==
  ASSUME Shapes, Calls, Values, Copies, NEW t \in Tasks, call[t] = "write",
         NEW r \in DOMAIN answer[t], NEW part,
         IF part = {} THEN UNCHANGED store ELSE Put(t, r, part)
  PROVE  Changed(t, r, part)
PROOF
<1>1. /\ cap = Caps /\ Dev(t) \in Devices /\ Store(t, r) \in Stores
      /\ DOMAIN answer[t] = Replicas(Dev(t))
  BY BusyFacts
<1>2. /\ DOMAIN store = Stores
      /\ \A s \in Stores : store[s] \in [0 .. (Size(s[1], s[2]) - 1) -> Raw]
  BY DEF Values
<1>3. CASE part = {}
  BY <1>2, <1>3 DEF Changed
<1>4. CASE part # {}
  <2> DEFINE s == Store(t, r)
             d == Dev(t)
             n == Size(d, r)
             w == With(store[s], d, part, value[t], buf[t][r])
  <2>1. s[1] = d /\ s[2] = r
    BY DEF Store
  <2>2. store' = [store EXCEPT ![s] = w]
    BY <1>4 DEF Put
  <2>3. Start(d) = Base(d) /\ Base(d) \in Nat
    BY <1>1, OpenGeometry, BaseFacts
  <2>4. DOMAIN store[s] = 0 .. (n - 1)
          /\ \A o \in 0 .. (n - 1) : store[s][o] \in Raw
    <3>1. store[s] \in [0 .. (Size(s[1], s[2]) - 1) -> Raw]
      BY <1>1, <1>2
    <3> HIDE DEF s, d, n
    <3>2. store[s] \in [0 .. (n - 1) -> Raw]
      BY <2>1, <3>1 DEF n
    <3> QED BY <3>2
  <2>5. value[t] \in 0 .. MaxWrites
    BY CallAssumption DEF Shapes, Values
  <2>6. ASSUME NEW o \in 0 .. (n - 1)
        PROVE  /\ w[o] \in Raw
               /\ IF o + Base(d) \in part
                    THEN w[o] = Enciphered(value[t], o + Base(d))
                    ELSE w[o] = store[s][o] \/ <<s, o + Base(d)>> \in raced
    <3>1. w[o] = IF o + Base(d) \in part THEN Enciphered(value[t], o + Base(d))
                 ELSE IF o \in DOMAIN buf[t][r] THEN buf[t][r][o] ELSE store[s][o]
      <4> HIDE DEF s, d, n
      <4> QED BY <2>3, <2>4 DEF With
    <3>2. CASE o + Base(d) \in part
      <4>1. o + Base(d) \in Int
        <5> HIDE DEF d, n
        <5> QED BY <2>3
      <4>2. Enciphered(value[t], o + Base(d)) \in Raw
        <5> HIDE DEF d
        <5> QED BY <2>5, <4>1 DEF Enciphered, Raw
      <4> QED BY <3>1, <3>2, <4>2
    <3>3. CASE o + Base(d) \notin part /\ o \in DOMAIN buf[t][r]
      <4>1. buf[t][r] # <<>>
        BY <3>3
      <4>2. buf[t][r][o] \in Raw /\ \/ buf[t][r][o] = store[s][o]
                                    \/ <<s, o + Base(d)>> \in raced
        BY <3>3, <4>1 DEF Copies, IsCopy
      <4> QED BY <3>1, <3>3, <4>2
    <3>4. CASE o + Base(d) \notin part /\ o \notin DOMAIN buf[t][r]
      BY <2>4, <3>1, <3>4
    <3> QED BY <3>2, <3>3, <3>4
  <2>7. w \in [0 .. (n - 1) -> Raw]
    <3>1. w = [o \in 0 .. (n - 1) |-> w[o]]
      <4> HIDE DEF n
      <4> QED BY <2>4 DEF With
    <3> HIDE DEF w, n
    <3> QED BY <2>6, <3>1
  <2> HIDE DEF w
  <2>8. DOMAIN store' = Stores /\ store'[s] = w
        /\ \A x \in Stores : x # s => store'[x] = store[x]
    <3> HIDE DEF s
    <3> QED BY <1>1, <1>2, <2>2 DEF s
  <2>9. ASSUME NEW x \in Stores
        PROVE  /\ store'[x] \in [0 .. (Size(x[1], x[2]) - 1) -> Raw]
               /\ \A o \in 0 .. (Size(x[1], x[2]) - 1) :
                    LET a == o + Base(x[1])
                    IN  IF x = s /\ a \in part
                          THEN store'[x][o] = Enciphered(value[t], a)
                          ELSE store'[x][o] = store[x][o] \/ <<x, a>> \in raced
    <3>1. CASE x = s
      <4>1. x[1] = d /\ Size(x[1], x[2]) = n /\ store'[x] = w
        BY <2>1, <2>8, <3>1
      <4> HIDE DEF s, d, n
      <4> QED BY <2>6, <2>7, <3>1, <4>1
    <3>2. CASE x # s
      <4> HIDE DEF s
      <4> QED BY <1>2, <2>8, <3>2
    <3> QED BY <3>1, <3>2
  <2> QED BY <2>8, <2>9 DEF Changed
<1> QED BY <1>3, <1>4

-----------------------------------------------------------------------------
(* An access of a write, and each part of the invariant after it. *)

(* A task whose plan is unchanged has the same chunk. *)
LEMMA SameChunk ==
  ASSUME NEW t, plan'[t] = plan[t]
  PROVE  /\ Current(t)' = Current(t) /\ Dev(t)' = Dev(t)
         /\ \A r : Store(t, r)' = Store(t, r)
BY DEF Current, Dev, Store

(* And is at the same slot, where its position is unchanged. *)
LEMMA SameSlot ==
  ASSUME NEW t, NEW r, plan'[t] = plan[t], cap' = cap, pos'[t][r] = pos[t][r]
  PROVE  SlotAt(t, r)' = SlotAt(t, r)
BY SameChunk DEF SlotAt, Offset, Start, Slot

(* Cells are pairs of a store and an address. *)
LEMMA CellsFacts ==
  ASSUME NEW s, NEW part
  PROVE  \A z, a : <<z, a>> \in Cells(s, part) <=> z = s /\ a \in part
BY DEF Cells

(* What a byte reads as after a change. *)
LEMMA ByteFacts ==
  ASSUME NEW t, NEW r, NEW part, Changed(t, r, part), NEW s \in Stores,
         NEW a \in Span(s[1])
  PROVE  IF s = Store(t, r) /\ a \in part THEN ByteAt(s, a)' = value[t]
         ELSE ByteAt(s, a)' = ByteAt(s, a) \/ <<s, a>> \in raced
PROOF
<1> DEFINE o == a - Base(s[1])
<1>1. o \in 0 .. (Size(s[1], s[2]) - 1) /\ o + Base(s[1]) = a /\ a # -1
  BY CellOffset
<1> HIDE DEF o
<1>2. IF s = Store(t, r) /\ a \in part
        THEN store'[s][o] = Enciphered(value[t], a)
        ELSE store'[s][o] = store[s][o] \/ <<s, a>> \in raced
  BY <1>1 DEF Changed
<1>3. /\ ByteAt(s, a) = Deciphered(store[s][o], a)
      /\ ByteAt(s, a)' = Deciphered(store'[s][o], a)
  BY DEF ByteAt, o
<1>4. Deciphered(Enciphered(value[t], a), a) = value[t]
  BY <1>1 DEF Deciphered, Enciphered, Blank
<1> QED BY <1>2, <1>3, <1>4

(* Only cells of part may change whether they are raced, and are when      *)
(* another write held a copy; only they may no longer be missed.           *)
Marked(t, r, part) ==
  LET cells == Cells(Store(t, r), part)
  IN  /\ raced \ cells \subseteq raced' /\ raced' \subseteq raced \cup cells
      /\ CopyTaken(t, r) => cells \subseteq raced'
      /\ missed \ cells \subseteq missed' /\ missed' \subseteq Cell
(* Other replicas of t, and other tasks, do not move. *)
Elsewhere(t, r) ==
  /\ DOMAIN pos' = Tasks /\ DOMAIN answer' = Tasks /\ DOMAIN buf' = Tasks
  /\ DOMAIN pos'[t] = DOMAIN pos[t] /\ DOMAIN answer'[t] = DOMAIN answer[t]
  /\ DOMAIN buf'[t] = DOMAIN buf[t]
  /\ buf'[t][r] = <<>>
  /\ \A q \in DOMAIN answer[t] : q # r =>
       /\ pos'[t][q] = pos[t][q] /\ answer'[t][q] = answer[t][q]
       /\ buf'[t][q] = buf[t][q]
  /\ \A u \in Tasks : u # t =>
       pos'[u] = pos[u] /\ answer'[u] = answer[u] /\ buf'[u] = buf[u]
(* The access has the bytes of its whole part, or it fails and the replica *)
(* has missed the whole chunk.                                             *)
Outcome(t, r, part) ==
  \/ \E e \in pos[t][r] .. Current(t).last :
       /\ part = Part(t, r) /\ part = pos[t][r] .. e
       /\ pos'[t][r] = e + 1
       /\ answer'[t][r] = IF e = Current(t).last THEN "ok" ELSE "pending"
  \/ /\ Cells(Store(t, r), Bytes(Current(t))) \subseteq missed'
     /\ pos'[t][r] = pos[t][r] /\ answer'[t][r] = "failed"
(* An access of a write of t to its replica r, which changes the bytes of  *)
(* part: all that it is about, or some of them where it fails.             *)
Access(t, r, part) ==
  /\ call[t] = "write" /\ r \in DOMAIN answer[t] /\ answer[t][r] = "pending"
  /\ part \subseteq Part(t, r)
  /\ buf[t][r] = <<>> => part = {} \/ IsFile(Dev(t), r)
  /\ Changed(t, r, part) /\ Marked(t, r, part) /\ Elsewhere(t, r)
  /\ Outcome(t, r, part)
  /\ UNCHANGED <<open, cap, call, range, value, plan, got, held, seen, excused,
                 writes, crashes>>
  /\ faults' \in 0 .. MaxFaults

(* Such an access is within the chunk, the range and the device of the     *)
(* write.                                                                  *)
LEMMA PartInRange ==
  ASSUME Shapes, Calls, NEW t \in Tasks, NEW r, NEW part, Access(t, r, part)
  PROVE  /\ part \subseteq Bytes(Current(t)) /\ part \subseteq Of(range[t])
         /\ part \subseteq Span(Dev(t))
         /\ Cells(Store(t, r), part) \subseteq Cell
PROOF
<1>1. /\ call[t] # "none" /\ r \in DOMAIN answer[t] /\ answer[t][r] = "pending"
      /\ part \subseteq Part(t, r)
  BY DEF Access
<1>2. Part(t, r) \subseteq Bytes(Current(t))
  <2> DEFINE p == pos[t][r]
             c == Current(t)
  <2>1. p \in Nat /\ c.first \in Nat /\ c.last \in Nat /\ c.first <= p
    BY <1>1, PartFacts, BusyFacts
  <2>2. PICK e \in p .. c.last : Part(t, r) = p .. e
    BY <1>1, PartFacts
  <2> HIDE DEF p, c
  <2>3. p .. e \subseteq c.first .. c.last
    BY <2>1, <2>2
  <2> QED BY <2>2, <2>3 DEF Bytes, c
<1>3. /\ Bytes(Current(t)) \subseteq Of(range[t])
      /\ Bytes(Current(t)) \subseteq Span(Dev(t))
      /\ Store(t, r) \in Stores
  BY <1>1, BusyFacts
<1>4. Cells(Store(t, r), part) \subseteq Cell
  <2>1. Store(t, r)[1] = Dev(t)
    BY DEF Store
  <2>2. \A a \in part : <<Store(t, r), a>> \in Cell
    BY <1>1, <1>2, <1>3, <2>1, CellFacts
  <2> QED BY <2>2 DEF Cells
<1> QED BY <1>1, <1>2, <1>3, <1>4

(* Took, Settled and UnderWay of the state after a step, where the value   *)
(* of the write is that before it.                                         *)
TookNext(s, a, x) ==
  <<s, a>> \in raced' \/ Deciphered(store'[s][a - Base(s[1])], a) = x
(* Settled of the state after a step. *)
SettledNext(a, d, x) ==
  /\ \A r \in Replicas(d) :
       TookNext(<<d, r>>, a, x) \/ <<<<d, r>>, a>> \in missed'
  /\ \E r \in Replicas(d) : TookNext(<<d, r>>, a, x)
(* UnderWay of the state after a step. *)
UnderWayNext(t, a) ==
  \A r \in DOMAIN answer'[t] :
    /\ answer'[t][r] = "ok" \/ (answer'[t][r] = "pending" /\ a < pos'[t][r]) =>
         TookNext(Store(t, r), a, value[t])
    /\ answer'[t][r] = "failed" => <<Store(t, r), a>> \in missed'

(* They are what they are named for. *)
LEMMA NextFacts ==
  ASSUME NEW t, value'[t] = value[t], NEW a, NEW d
  PROVE  /\ SettledNext(a, d, value[t]) => Settled(t, a, d)'
         /\ plan'[t] = plan[t] /\ UnderWayNext(t, a) => UnderWay(t, a)'
PROOF
<1>1. \A s : Took(s, a, value[t])' <=> TookNext(s, a, value[t])
  BY DEF Took, TookNext, ByteAt
<1>2. SettledNext(a, d, value[t]) => Settled(t, a, d)'
  BY <1>1 DEF SettledNext, Settled
<1>3. ASSUME plan'[t] = plan[t], UnderWayNext(t, a) PROVE UnderWay(t, a)'
  <2>1. \A r : Store(t, r)' = Store(t, r)
    BY <1>3, SameChunk
  <2>2. \A r : Took(Store(t, r), a, value[t])'
          <=> TookNext(Store(t, r), a, value[t])
    BY <2>1 DEF Took, TookNext, ByteAt
  <2> QED BY <1>3, <2>1, <2>2 DEF UnderWayNext, UnderWay
<1> QED BY <1>2, <1>3

(* After an access a byte of its part reads as the value written, and any  *)
(* other that read as x, or was missed, does so still.                     *)
LEMMA TookKept ==
  ASSUME Shapes, Calls, NEW t \in Tasks, NEW r, NEW part, Access(t, r, part),
         NEW s \in Stores, NEW a \in Span(s[1]), NEW x
  PROVE  /\ s = Store(t, r) /\ a \in part => TookNext(s, a, value[t])
         /\ ~(s = Store(t, r) /\ a \in part) =>
              /\ Took(s, a, x) => TookNext(s, a, x)
              /\ <<s, a>> \in missed => <<s, a>> \in missed'
PROOF
<1>1. Changed(t, r, part) /\ Marked(t, r, part) /\ value' = value
  BY DEF Access
<1>2. IF s = Store(t, r) /\ a \in part THEN ByteAt(s, a)' = value[t]
      ELSE ByteAt(s, a)' = ByteAt(s, a) \/ <<s, a>> \in raced
  BY <1>1, ByteFacts
<1>3. ~(s = Store(t, r) /\ a \in part) =>
        /\ <<s, a>> \in raced => <<s, a>> \in raced'
        /\ <<s, a>> \in missed => <<s, a>> \in missed'
  BY <1>1, CellsFacts DEF Marked
<1>4. s = Store(t, r) /\ a \in part => TookNext(s, a, value[t])
  BY <1>1, <1>2 DEF Took, TookNext, ByteAt
<1>5. ~(s = Store(t, r) /\ a \in part) /\ Took(s, a, x) => TookNext(s, a, x)
  BY <1>2, <1>3 DEF Took, TookNext, ByteAt
<1> QED BY <1>3, <1>4, <1>5

(* An access leaves every task its variables. *)
LEMMA AccessShapes ==
  ASSUME Shapes, NEW t \in Tasks, NEW r, NEW part, Access(t, r, part)
  PROVE  Shapes'
PROOF
<1>1. /\ Elsewhere(t, r)
      /\ UNCHANGED <<open, cap, call, range, value, plan, got, held, seen,
                     excused, writes, crashes>>
  BY DEF Access
<1>2. \A u \in Tasks : /\ DOMAIN pos'[u] = DOMAIN answer'[u]
                       /\ DOMAIN buf'[u] = DOMAIN answer'[u]
  BY <1>1 DEF Shapes, Elsewhere
<1> QED BY <1>1, <1>2 DEF Shapes, Elsewhere

(* The access of replica r went on, was the last, or failed. *)
Ended(t, r) ==
  \/ \E e \in pos[t][r] .. Current(t).last :
       /\ Part(t, r) = pos[t][r] .. e
       /\ pos'[t][r] = e + 1
       /\ answer'[t][r] = IF e = Current(t).last THEN "ok" ELSE "pending"
  \/ pos'[t][r] = pos[t][r] /\ answer'[t][r] = "failed"

(* However an access ends, no replica passes the end of the chunk. *)
LEMMA EndedCalls ==
  ASSUME Shapes, Calls, NEW t \in Tasks, NEW r \in DOMAIN answer[t],
         call[t] # "none", answer[t][r] = "pending",
         Elsewhere(t, r), Ended(t, r),
         UNCHANGED <<open, cap, call, range, value, plan>>,
         \A u \in Tasks : u # t => got'[u] = got[u]
  PROVE  Calls'
PROOF
<1>1. /\ Elsewhere(t, r) /\ Ended(t, r)
      /\ call[t] # "none" /\ r \in DOMAIN answer[t] /\ answer[t][r] = "pending"
      /\ UNCHANGED <<open, cap, call, range, value, plan>>
      /\ \A u \in Tasks : u # t => got'[u] = got[u]
  OBVIOUS
<1>2. \A u \in Tasks : Current(u)' = Current(u) /\ Dev(u)' = Dev(u)
  BY <1>1, SameChunk
<1>3. ASSUME NEW u \in Tasks, u # t
      PROVE  IF call'[u] = "none" THEN Idle(u)' ELSE Busy(u)'
  <2>1. pos'[u] = pos[u] /\ answer'[u] = answer[u]
    BY <1>1, <1>3 DEF Elsewhere
  <2>2. IF call[u] = "none" THEN Idle(u) ELSE Busy(u)
    BY DEF Calls
  <2> QED BY <1>1, <1>2, <2>1, <2>2 DEF Idle, Busy
<1>4. Busy(t)'
  <2> DEFINE c == Current(t)
  <2>1. /\ Busy(t) /\ c.first \in Nat /\ c.last \in Nat /\ c.first <= c.last
        /\ pos[t][r] \in Nat /\ c.first <= pos[t][r] /\ pos[t][r] <= c.last
        /\ IsFile(Dev(t), r) => pos[t][r] = c.first
    BY <1>1, BusyFacts, PartFacts
  <2>2. /\ answer'[t][r] \in {"pending", "ok", "failed"}
        /\ pos'[t][r] \in c.first .. (c.last + 1)
        /\ answer'[t][r] = "pending" =>
             pos'[t][r] <= c.last /\ ~IsFile(Dev(t), r)
    <3>1. CASE \E e \in pos[t][r] .. c.last :
                 /\ Part(t, r) = pos[t][r] .. e
                 /\ pos'[t][r] = e + 1
                 /\ answer'[t][r] = IF e = c.last THEN "ok" ELSE "pending"
      <4>1. PICK e \in pos[t][r] .. c.last :
                 /\ Part(t, r) = pos[t][r] .. e
                 /\ pos'[t][r] = e + 1
                 /\ answer'[t][r] = IF e = c.last THEN "ok" ELSE "pending"
        BY <3>1
      <4>2. IsFile(Dev(t), r) => e = c.last
        <5>1. IsFile(Dev(t), r) => Part(t, r) = c.first .. c.last
          BY DEF Part, Bytes
        <5>2. c.last \in c.first .. c.last
          BY <2>1
        <5> HIDE DEF c
        <5> QED BY <2>1, <4>1, <5>1, <5>2
      <4> HIDE DEF c
      <4> QED BY <2>1, <4>1, <4>2
    <3>2. CASE pos'[t][r] = pos[t][r] /\ answer'[t][r] = "failed"
      <4> HIDE DEF c
      <4> QED BY <2>1, <3>2
    <3> QED BY <1>1, <3>1, <3>2 DEF Ended
  <2>3. ASSUME NEW q \in DOMAIN answer'[t]
        PROVE  /\ answer'[t][q] \in {"pending", "ok", "failed"}
               /\ pos'[t][q] \in c.first .. (c.last + 1)
               /\ answer'[t][q] = "pending" =>
                    /\ pos'[t][q] <= c.last
                    /\ IsFile(Dev(t), q) => pos'[t][q] = c.first
    <3>1. CASE q = r
      BY <2>2, <3>1
    <3>2. CASE q # r
      <4>1. /\ q \in DOMAIN answer[t] /\ pos'[t][q] = pos[t][q]
            /\ answer'[t][q] = answer[t][q]
        BY <1>1, <3>2 DEF Elsewhere
      <4> QED BY <2>1, <4>1 DEF Busy
    <3> QED BY <3>1, <3>2
  <2>4. DOMAIN answer'[t] = Replicas(Dev(t))
    BY <1>1, <2>1 DEF Elsewhere, Busy
  <2>5. /\ open' /\ range'[t] \in Ranges
          /\ range'[t].at + range'[t].len <= Total
        /\ Chained(plan'[t], range'[t])
    BY <1>1, <2>1 DEF Busy
  <2> QED BY <1>2, <2>3, <2>4, <2>5 DEF Busy
<1>5. \A u \in Tasks : IF call'[u] = "none" THEN Idle(u)' ELSE Busy(u)'
  BY <1>1, <1>3, <1>4
<1> QED BY <1>1, <1>5 DEF Calls
(* After an access of a write every call is within its plan. *)
LEMMA AccessCalls ==
  ASSUME Shapes, Calls, NEW t \in Tasks, NEW r, NEW part, Access(t, r, part)
  PROVE  Calls'
PROOF
<1>1. /\ Elsewhere(t, r) /\ Outcome(t, r, part)
      /\ call[t] = "write" /\ r \in DOMAIN answer[t]
           /\ answer[t][r] = "pending"
      /\ UNCHANGED <<open, cap, call, range, value, plan, got, held, seen,
                     excused, writes, crashes>>
  BY DEF Access
<1>2. Ended(t, r)
  BY <1>1 DEF Outcome, Ended
<1> QED BY <1>1, <1>2, EndedCalls

(* After an access every byte of every replica is a byte. *)
LEMMA AccessValues ==
  ASSUME Shapes, Calls, Values, NEW t \in Tasks, NEW r, NEW part,
         Access(t, r, part)
  PROVE  Values'
PROOF
<1>1. /\ Changed(t, r, part) /\ Marked(t, r, part)
        /\ faults' \in 0 .. MaxFaults
      /\ UNCHANGED <<open, cap, call, range, value, plan, got, held, seen,
                     excused, writes, crashes>>
  BY DEF Access
<1>2. Cells(Store(t, r), part) \subseteq Cell
  BY PartInRange
<1>3. missed' \subseteq Cell /\ raced' \subseteq Cell
  BY <1>1, <1>2 DEF Marked, Values
<1> QED BY <1>1, <1>3 DEF Values, Changed

(* After an access to a slot that another write holds a copy of, the copy  *)
(* differs from the slot only in cells that are raced.                     *)
LEMMA AccessCopies ==
  ASSUME Shapes, Calls, Copies, NEW t \in Tasks, NEW r, NEW part,
         Access(t, r, part)
  PROVE  Copies'
PROOF
<1>1. /\ Changed(t, r, part) /\ Marked(t, r, part) /\ Elsewhere(t, r)
      /\ call[t] = "write" /\ r \in DOMAIN answer[t]
           /\ answer[t][r] = "pending"
      /\ part \subseteq Part(t, r)
      /\ buf[t][r] = <<>> => part = {} \/ IsFile(Dev(t), r)
      /\ UNCHANGED <<open, cap, call, range, value, plan, got, held, seen,
                     excused, writes, crashes>>
  BY DEF Access
<1>2. SUFFICES ASSUME NEW u \in Tasks, NEW q \in DOMAIN answer'[u],
                      buf'[u][q] # <<>>
               PROVE  IsCopy(u, q)'
  BY DEF Copies
<1>3. <<u, q>> # <<t, r>>
  BY <1>1, <1>2 DEF Elsewhere
<1>4. /\ q \in DOMAIN answer[u] /\ answer'[u][q] = answer[u][q]
      /\ buf'[u][q] = buf[u][q] /\ pos'[u][q] = pos[u][q]
  BY <1>1, <1>2, <1>3 DEF Elsewhere
<1>5. SlotAt(u, q)' = SlotAt(u, q)
  BY <1>1, <1>4, SameSlot
<1> DEFINE s == Store(u, q)
<1>6. /\ call[u] = "write" /\ answer[u][q] = "pending" /\ ~IsFile(Dev(u), q)
      /\ \A o \in DOMAIN buf[u][q] :
           /\ o \in 0 .. (Size(Dev(u), q) - 1)
           /\ Slot(Dev(u), q, o) = SlotAt(u, q)
           /\ buf[u][q][o] \in Raw
           /\ buf[u][q][o] = store[s][o] \/ <<s, o + Base(Dev(u))>> \in raced
  BY <1>2, <1>4 DEF Copies, IsCopy
<1>7. s \in Stores /\ s[1] = Dev(u) /\ s[2] = q
  BY <1>4, <1>6, BusyFacts DEF Store
<1>8. ASSUME NEW o \in DOMAIN buf[u][q]
      PROVE  \/ buf[u][q][o] = store'[s][o]
             \/ <<s, o + Base(Dev(u))>> \in raced'
  <2> DEFINE a == o + Base(Dev(u))
  <2>1. CASE s = Store(t, r) /\ a \in part
    <3>1. Dev(u) = Dev(t) /\ q = r
      BY <2>1 DEF Store
    <3>2. u # t
      BY <1>3, <3>1
    <3>3. part # {} /\ ~IsFile(Dev(t), r)
      BY <1>6, <2>1, <3>1
    <3>4. buf[t][r] # <<>> /\ buf[u][r] # <<>>
      BY <1>1, <1>2, <1>4, <3>1, <3>3
    <3>5. Slot(Dev(t), r, Offset(Dev(t), a)) = SlotAt(t, r)
      BY <1>1, <2>1, <3>3 DEF Part
    <3>6. Offset(Dev(t), a) = o
      <4>1. cap = Caps /\ Dev(t) \in Devices
        BY <1>1, BusyFacts
      <4>2. Start(Dev(t)) = Base(Dev(u)) /\ Base(Dev(u)) \in Nat
        BY <3>1, <4>1, OpenGeometry, BaseFacts
      <4>3. o \in 0 .. (Size(Dev(u), q) - 1) /\ Size(Dev(u), q) \in Int
        <5>1. q \in Replicas(Dev(u)) /\ Dev(u) \in Devices
          BY <1>7, StoresFacts
        <5>2. Size(Dev(u), q) \in Nat
          BY <5>1, LayoutFacts
        <5>3. o \in 0 .. (Size(Dev(u), q) - 1)
          BY <1>6
        <5> QED BY <5>2, <5>3
      <4> QED BY <4>2, <4>3 DEF Offset
    <3>7. SlotAt(u, r) = SlotAt(t, r)
      BY <1>6, <3>1, <3>5, <3>6
    <3>8. CopyTaken(t, r)
      BY <1>6, <3>1, <3>2, <3>4, <3>7 DEF CopyTaken
    <3>9. <<s, a>> \in Cells(Store(t, r), part)
      BY <2>1, CellsFacts
    <3> QED BY <1>1, <3>8, <3>9 DEF Marked
  <2>2. CASE ~(s = Store(t, r) /\ a \in part)
    <3>1. store'[s][o] = store[s][o] \/ <<s, a>> \in raced
      <4>1. o \in 0 .. (Size(s[1], s[2]) - 1)
        BY <1>6, <1>7
      <4> QED BY <1>1, <1>7, <2>2, <4>1 DEF Changed
    <3>2. <<s, a>> \in raced => <<s, a>> \in raced'
      BY <1>1, <2>2, CellsFacts DEF Marked
    <3> QED BY <1>6, <3>1, <3>2
  <2> QED BY <2>1, <2>2
<1>9. /\ Dev(u)' = Dev(u) /\ Store(u, q)' = s
  BY <1>1, SameChunk
<1> HIDE DEF s
<1>10. \A o \in DOMAIN buf'[u][q] :
         /\ o \in 0 .. (Size(Dev(u), q) - 1)
         /\ Slot(Dev(u), q, o) = SlotAt(u, q)'
         /\ buf'[u][q][o] \in Raw
         /\ buf'[u][q][o] = store'[s][o] \/ <<s, o + Base(Dev(u))>> \in raced'
  BY <1>4, <1>5, <1>6, <1>8
<1>11. call'[u] = "write" /\ answer'[u][q] = "pending" /\ ~IsFile(Dev(u), q)
  BY <1>1, <1>4, <1>6
<1> QED BY <1>9, <1>10, <1>11 DEF IsCopy

(* An access does not change which byte a write writes. *)
LEMMA AccessWriters ==
  ASSUME Writers, NEW t \in Tasks, NEW r, NEW part, Access(t, r, part)
  PROVE  Writers'
BY DEF Access, Writers, IsWriter

(* A byte that a write is about may have the value written, and is not     *)
(* known to have any one value; no other write is about it.                *)
LEMMA WriterFacts ==
  ASSUME Writers, NEW t \in Tasks, call[t] = "write"
  PROVE  /\ \A a \in Of(range[t]) : value[t] \in held[a]
         /\ \A a \in Of(range[t]) : \A x : held[a] # {x}
         /\ \A u \in Tasks : u # t /\ call[u] = "write" =>
              \A a \in Of(range[u]) : a \notin Of(range[t])
PROOF
<1>1. \A a \in Of(range[t]) :
        value[t] \in held[a] /\ \E x \in held[a] : x # value[t]
  BY DEF Writers, IsWriter
<1>2. \A u \in Tasks : u # t /\ call[u] = "write" =>
        Of(range[u]) \cap Of(range[t]) = {}
  BY DEF Writers
<1> QED BY <1>1, <1>2

(* After an access every replica has what a read may return, where it      *)
(* missed and lost nothing.                                                *)
LEMMA AccessAgreed ==
  ASSUME Shapes, Calls, Writers, Agreed, NEW t \in Tasks, NEW r, NEW part,
         Access(t, r, part)
  PROVE  Agreed'
PROOF
<1>1. /\ Changed(t, r, part) /\ Marked(t, r, part)
      /\ call[t] = "write" /\ held' = held
  BY DEF Access
<1>2. part \subseteq Of(range[t])
  BY PartInRange
<1>3. ASSUME NEW c \in Cell, c \notin missed', c \notin raced'
      PROVE  ByteAt(c[1], c[2])' \in held[c[2]]
  <2>0. PICK s \in Stores : \E a \in Span(s[1]) : c = <<s, a>>
    BY DEF Cell
  <2>1. PICK a \in Span(s[1]) : c = <<s, a>>
    BY <2>0
  <2>2. CASE s = Store(t, r) /\ a \in part
    <3>1. ByteAt(s, a)' = value[t]
      BY <1>1, <2>2, ByteFacts
    <3>2. value[t] \in held[a]
      BY <1>1, <1>2, <2>2, WriterFacts
    <3> QED BY <2>1, <3>1, <3>2
  <2>3. CASE ~(s = Store(t, r) /\ a \in part)
    <3>1. ByteAt(s, a)' = ByteAt(s, a) \/ <<s, a>> \in raced
      BY <1>1, <2>3, ByteFacts
    <3>2. c \notin Cells(Store(t, r), part)
      BY <2>1, <2>3, CellsFacts
    <3>3. c \notin missed /\ c \notin raced
      BY <1>1, <1>3, <3>2 DEF Marked
    <3>4. ByteAt(s, a) \in held[a]
      BY <2>1, <3>3 DEF Agreed
    <3> QED BY <2>1, <3>1, <3>3, <3>4
  <2> QED BY <2>2, <2>3
<1> QED BY <1>1, <1>3 DEF Agreed

(* After an access the last accepted byte is still on some replica: a      *)
(* write touches only bytes it may change.                                 *)
LEMMA AccessKept ==
  ASSUME Shapes, Calls, Writers, Kept, NEW t \in Tasks, NEW r, NEW part,
         Access(t, r, part)
  PROVE  Kept'
PROOF
<1>1. call[t] = "write" /\ held' = held
  BY DEF Access
<1>2. part \subseteq Of(range[t])
  BY PartInRange
<1>3. ASSUME NEW d \in Devices, NEW a \in Span(d), NEW x \in held[a],
               held[a] = {x}
      PROVE  \E q \in Replicas(d) : Took(<<d, q>>, a, x)'
  <2>1. a \notin part
    BY <1>1, <1>2, <1>3, WriterFacts
  <2>2. PICK q \in Replicas(d) : Took(<<d, q>>, a, x)
    BY <1>3 DEF Kept
  <2>3. <<d, q>> \in Stores /\ <<d, q>>[1] = d
    BY StoresFacts
  <2>4. TookNext(<<d, q>>, a, x)
    BY <2>1, <2>2, <2>3, TookKept
  <2>5. Took(<<d, q>>, a, x)'
    BY <2>4 DEF TookNext, Took, ByteAt
  <2> QED BY <2>5
<1> QED BY <1>1, <1>3 DEF Kept

(* What a step leaves alone of a read. *)
LEMMA SameRead ==
  ASSUME NEW u, plan'[u] = plan[u], pos'[u] = pos[u], answer'[u] = answer[u]
  PROVE  /\ Pending(u)' = Pending(u) /\ Current(u)' = Current(u)
         /\ \A x : Answered(u, x)' = Answered(u, x)
BY SameChunk DEF Pending, Answered

(* A read that a step leaves alone has what it had. *)
LEMMA SameGathered ==
  ASSUME NEW u, plan'[u] = plan[u], pos'[u] = pos[u], answer'[u] = answer[u],
         got'[u] = got[u], range'[u] = range[u],
         \A a \in Of(range[u]) : held'[a] \subseteq held[a]
                                \/ held'[a] \subseteq seen'[u][a],
         \A a \in Of(range[u]) : seen[u][a] \subseteq seen'[u][a],
         Gathered(u)
  PROVE  Gathered(u)'
PROOF
<1>1. /\ Pending(u)' = Pending(u) /\ Current(u)' = Current(u)
      /\ \A x : Answered(u, x)' = Answered(u, x)
  BY SameRead
<1>2. \A a \in Of(range'[u]) : held'[a] \subseteq seen'[u][a]
  BY DEF Gathered
<1>3. got'[u] \in Seq(Raw)
  BY DEF Gathered
<1>4. \A r \in DOMAIN answer'[u] : answer'[u][r] = "ok" =>
        Len(got'[u]) = Current(u)'.last + 1 - range'[u].at
  BY <1>1 DEF Gathered
<1>5. Answered(u, "ok")' = {} =>
        IF Pending(u)' = {} THEN Len(got'[u])
          = Current(u)'.first - range'[u].at
        ELSE \A r \in Pending(u)' :
               IF \A q \in Pending(u)' : r <= q
                 THEN Len(got'[u]) = pos'[u][r] - range'[u].at
                 ELSE pos'[u][r] = Current(u)'.first
  BY <1>1 DEF Gathered
<1> QED BY <1>2, <1>3, <1>4, <1>5 DEF Gathered

(* An access of a write leaves every read what it has. *)
LEMMA AccessCollected ==
  ASSUME Calls, Collected, NEW t \in Tasks, NEW r, NEW part, Access(t, r, part)
  PROVE  Collected'
PROOF
<1>1. /\ Elsewhere(t, r) /\ call[t] = "write"
      /\ UNCHANGED <<open, cap, call, range, value, plan, got, held, seen,
                     excused, writes, crashes>>
  BY DEF Access
<1> SUFFICES ASSUME NEW u \in Tasks, call[u] = "read" PROVE Gathered(u)'
  BY <1>1 DEF Collected
<1>2. u # t
  BY <1>1
<1>3. pos'[u] = pos[u] /\ answer'[u] = answer[u]
  BY <1>1, <1>2 DEF Elsewhere
<1>4. Gathered(u)
  BY DEF Collected
<1> QED BY <1>1, <1>3, <1>4, SameGathered

(* And that is as fresh as before. *)
LEMMA AccessFresh ==
  ASSUME ReadsAreFresh, NEW t \in Tasks, NEW r, NEW part, Access(t, r, part)
  PROVE  ReadsAreFresh'
BY DEF Access, ReadsAreFresh

(* After an access of a write, every replica that is past a byte has it,   *)
(* or has missed it; and so for the chunks done before, of this write and  *)
(* of the others.                                                          *)
LEMMA AccessWritten ==
  ASSUME Shapes, Calls, Writers, Written, NEW t \in Tasks, NEW r, NEW part,
         Access(t, r, part)
  PROVE  Written'
PROOF
<1>1. /\ Elsewhere(t, r) /\ Outcome(t, r, part) /\ Marked(t, r, part)
      /\ call[t] = "write" /\ r \in DOMAIN answer[t]
           /\ answer[t][r] = "pending"
      /\ UNCHANGED <<open, cap, call, range, value, plan, got, held, seen,
                     excused, writes, crashes>>
  BY DEF Access
<1>2. part \subseteq Bytes(Current(t)) /\ part \subseteq Of(range[t])
  BY PartInRange
<1>3. \A u \in Tasks : Current(u)' = Current(u) /\ Dev(u)' = Dev(u)
  BY <1>1, SameChunk
<1>4. ASSUME NEW u \in Tasks, call[u] = "write", NEW d \in Devices,
             NEW a \in Span(d), a \in Of(range[u]), a \notin part,
             Settled(u, a, d)
      PROVE  Settled(u, a, d)'
  <2>1. ASSUME NEW q \in Replicas(d)
        PROVE  /\ Took(<<d, q>>, a, value[u])
                 => TookNext(<<d, q>>, a, value[u])
               /\ <<<<d, q>>, a>> \in missed => <<<<d, q>>, a>> \in missed'
    <3>1. <<d, q>> \in Stores /\ <<d, q>>[1] = d
      BY StoresFacts
    <3>2. a \in Span(<<d, q>>[1])
      BY <3>1
    <3> QED BY <1>4, <3>1, <3>2, TookKept
  <2>2. SettledNext(a, d, value[u])
    BY <1>4, <2>1 DEF Settled, SettledNext
  <2> QED BY <1>1, <2>2, NextFacts
<1>5. ASSUME NEW u \in Tasks, call[u] = "write", NEW a \in Bytes(Current(u))
      PROVE  /\ Dev(u) \in Devices /\ a \in Span(Dev(u)) /\ a \in Of(range[u])
             /\ \A q \in DOMAIN answer[u] : /\ Store(u, q) \in Stores
                                            /\ a \in Span(Store(u, q)[1])
  <2>1. /\ Dev(u) \in Devices
          /\ Bytes(Current(u)) \subseteq Of(range[u]) \cap Span(Dev(u))
        /\ \A q \in DOMAIN answer[u] : Store(u, q) \in Stores
    BY <1>5, BusyFacts
  <2>2. \A q : Store(u, q)[1] = Dev(u)
    BY DEF Store
  <2> QED BY <2>1, <2>2
<1>6. ASSUME NEW u \in Tasks, call[u] = "write", NEW a \in Bytes(Current(u)),
             NEW q \in DOMAIN answer[u], ~(Store(u, q) = Store(t, r)
               /\ a \in part)
      PROVE  /\ Took(Store(u, q), a, value[u])
               => TookNext(Store(u, q), a, value[u])
             /\ <<Store(u, q), a>> \in missed => <<Store(u, q), a>> \in missed'
  <2>1. Store(u, q) \in Stores /\ a \in Span(Store(u, q)[1])
    BY <1>5, <1>6
  <2> QED BY <1>6, <2>1, TookKept
<1>7. ASSUME NEW u \in Tasks, call[u] = "write", NEW a \in Bytes(Current(u)),
             UnderWay(u, a)
      PROVE  UnderWay(u, a)'
  <2>1. CASE u # t
    <3>1. a \notin part
      BY <1>1, <1>2, <1>5, <1>7, <2>1, WriterFacts
    <3>2. pos'[u] = pos[u] /\ answer'[u] = answer[u]
      BY <1>1, <2>1 DEF Elsewhere
    <3>3. UnderWayNext(u, a)
      BY <1>6, <1>7, <3>1, <3>2 DEF UnderWay, UnderWayNext
    <3> QED BY <1>1, <3>3, NextFacts
  <2>2. CASE u = t
    <3>1. ASSUME NEW q \in DOMAIN answer[t], q # r
          PROVE  /\ answer'[t][q] = "ok" \/ (answer'[t][q] = "pending"
                   /\ a < pos'[t][q]) =>
                      TookNext(Store(t, q), a, value[t])
                 /\ answer'[t][q] = "failed" => <<Store(t, q), a>> \in missed'
      <4>1. pos'[t][q] = pos[t][q] /\ answer'[t][q] = answer[t][q]
        BY <1>1, <3>1 DEF Elsewhere
      <4>2. Store(t, q) # Store(t, r)
        BY <3>1 DEF Store
      <4> QED BY <1>1, <1>6, <1>7, <2>2, <3>1, <4>1, <4>2 DEF UnderWay
    <3>2. answer'[t][r] = "failed" => <<Store(t, r), a>> \in missed'
      <4>1. CASE Cells(Store(t, r), Bytes(Current(t))) \subseteq missed'
        BY <1>7, <2>2, <4>1, CellsFacts
      <4>2. CASE answer'[t][r] \in {"ok", "pending"}
        BY <4>2
      <4> QED BY <1>1, <4>1, <4>2 DEF Outcome
    <3>3. ASSUME answer'[t][r] = "ok" \/ (answer'[t][r] = "pending"
                   /\ a < pos'[t][r])
          PROVE  TookNext(Store(t, r), a, value[t])
      <4>1. PICK e \in pos[t][r] .. Current(t).last :
              /\ part = Part(t, r) /\ part = pos[t][r] .. e
              /\ pos'[t][r] = e + 1
              /\ answer'[t][r] = IF e
                   = Current(t).last THEN "ok" ELSE "pending"
        BY <1>1, <3>3 DEF Outcome
      <4> DEFINE p == pos[t][r]
                 c == Current(t)
      <4>2. p \in Nat /\ c.first \in Nat /\ c.last \in Nat
              /\ a \in c.first .. c.last
        BY <1>1, <1>7, <2>2, PartFacts, BusyFacts DEF Bytes
      <4>3. a <= e
        <5> HIDE DEF p, c
        <5> QED BY <3>3, <4>1, <4>2 DEF c, p
      <4>4. CASE a \in part
        <5>1. Store(t, r) \in Stores /\ a \in Span(Store(t, r)[1])
          BY <1>1, <1>5, <1>7, <2>2
        <5> QED BY <4>4, <5>1, TookKept
      <4>5. CASE a \notin part
        <5>1. a < p
          <6> HIDE DEF p, c
          <6> QED BY <4>1, <4>2, <4>3, <4>5 DEF c, p
        <5>2. Took(Store(t, r), a, value[t])
          BY <1>1, <1>7, <2>2, <5>1 DEF UnderWay
        <5> QED BY <1>1, <1>6, <1>7, <2>2, <4>5, <5>2
      <4> QED BY <4>4, <4>5
    <3>4. DOMAIN answer'[t] = DOMAIN answer[t]
      BY <1>1 DEF Elsewhere
    <3>5. UnderWayNext(t, a)
      BY <3>1, <3>2, <3>3, <3>4 DEF UnderWayNext
    <3> QED BY <1>1, <2>2, <3>5, NextFacts
  <2> QED BY <2>1, <2>2
<1>8. ASSUME NEW u \in Tasks, call[u] = "write", NEW d \in Devices,
             NEW a \in Span(d), a \in Of(range[u]), a < Current(u).first
      PROVE  Settled(u, a, d)'
  <2>1. a \notin part
    <3>1. CASE u = t
      <4>1. a \notin Bytes(Current(t))
        <5>1. Current(t).first \in Nat
          BY <1>1, BusyFacts
        <5> QED BY <1>8, <3>1, <5>1 DEF Bytes
      <4> QED BY <1>2, <4>1
    <3>2. CASE u # t
      BY <1>1, <1>2, <1>8, <3>2, WriterFacts
    <3> QED BY <3>1, <3>2
  <2>2. Settled(u, a, d)
    BY <1>8 DEF Written
  <2> QED BY <1>4, <1>8, <2>1, <2>2
<1>9. ASSUME NEW u \in Tasks, call[u] = "write", NEW d \in Devices,
             NEW a \in Span(d), a \in Of(range[u]), a \in Bytes(Current(u))
      PROVE  UnderWay(u, a)'
  <2>1. UnderWay(u, a)
    BY <1>9 DEF Written
  <2> QED BY <1>7, <1>9, <2>1
<1>10. ASSUME NEW u \in Tasks, call'[u] = "write", NEW d \in Devices,
              NEW a \in Span(d) \cap Of(range'[u])
       PROVE  /\ a < Current(u)'.first => Settled(u, a, d)'
              /\ a \in Bytes(Current(u))' => UnderWay(u, a)'
  <2>1. /\ call[u] = "write" /\ range'[u] = range[u]
          /\ Current(u)' = Current(u)
        /\ Bytes(Current(u))' = Bytes(Current(u))
    BY <1>1, <1>3, <1>10 DEF Bytes
  <2> QED BY <1>8, <1>9, <1>10, <2>1
<1> QED BY <1>10 DEF Written

-----------------------------------------------------------------------------
(* The actions that are such accesses. *)

(* A replica in flight has not answered, and a read has only the first     *)
(* such in flight.                                                         *)
LEMMA InFlightFacts ==
  ASSUME NEW t, NEW r \in InFlight(t)
  PROVE  /\ r \in DOMAIN answer[t] /\ answer[t][r] = "pending"
         /\ call[t] = "read" =>
              Answered(t, "ok") = {} /\ \A q \in Pending(t) : r <= q
BY DEF InFlight, Pending

(* The bytes of a chunk are of its device. *)
LEMMA ChunkCells ==
  ASSUME Calls, NEW t \in Tasks, call[t] # "none", NEW r \in DOMAIN answer[t]
  PROVE  Cells(Store(t, r), Bytes(Current(t))) \subseteq Cell
PROOF
<1>1. /\ Bytes(Current(t)) \subseteq Span(Dev(t)) /\ Store(t, r) \in Stores
  BY BusyFacts
<1>2. Store(t, r)[1] = Dev(t)
  BY DEF Store
<1>3. \A a \in Bytes(Current(t)) : <<Store(t, r), a>> \in Cell
  BY <1>1, <1>2, CellFacts
<1> QED BY <1>3 DEF Cells

(* FsDevice::write is such an access: the whole chunk at once. *)
LEMMA WriteFileAccess ==
  ASSUME Shapes, Calls, Values, Copies, NEW t \in Tasks, NEW r, WriteFile(t, r)
  PROVE  Access(t, r, Part(t, r))
PROOF
<1> DEFINE part == Part(t, r)
<1>1. /\ call[t] = "write" /\ IsFile(Dev(t), r) /\ Put(t, r, part)
      /\ Advance(t, r) /\ missed' = missed \ Cells(Store(t, r), part)
      /\ UNCHANGED <<open, cap, call, range, value, plan, buf, got, held, seen,
                     excused, raced, bounds>>
  BY DEF WriteFile
<1>2. r \in DOMAIN answer[t] /\ answer[t][r] = "pending"
  BY InFlightFacts DEF WriteFile
<1>3. buf[t][r] = <<>>
  BY <1>1, <1>2 DEF Copies, IsCopy
<1>4. PICK e \in pos[t][r] .. Current(t).last :
        part = pos[t][r] .. e /\ Moved(t, r, e)
  BY <1>1, <1>2, AdvanceFacts
<1>5. part # {}
  BY <1>1, <1>2, <1>4, PartFacts
<1>6. Changed(t, r, part)
  <2> HIDE DEF part
  <2> QED BY <1>1, <1>2, <1>5, PutFacts
<1>7. Marked(t, r, part)
  <2> HIDE DEF part
  <2>1. ~CopyTaken(t, r)
    BY <1>3 DEF CopyTaken
  <2> QED BY <1>1, <2>1 DEF Marked, Values
<1>8. Elsewhere(t, r)
  BY <1>1, <1>3, <1>4 DEF Elsewhere, Moved, Shapes
<1>9. Outcome(t, r, part)
  BY <1>4 DEF Outcome, Moved
<1>10. faults' \in 0 .. MaxFaults /\ writes' = writes /\ crashes' = crashes
  BY <1>1 DEF Values, bounds
<1> HIDE DEF part
<1>11. Access(t, r, part)
  <2>1. part \subseteq Part(t, r)
    BY DEF part
  <2> QED BY <1>1, <1>2, <1>6, <1>7, <1>8, <1>9, <1>10, <2>1 DEF Access
<1> QED BY <1>11 DEF part

(* The end of KVDevice::write of a slot is such an access. *)
LEMMA SetSlotAccess ==
  ASSUME Shapes, Calls, Values, Copies, NEW t \in Tasks, NEW r, SetSlot(t, r)
  PROVE  Access(t, r, Part(t, r))
PROOF
<1> DEFINE part == Part(t, r)
           cells == Cells(Store(t, r), part)
<1>1. /\ call[t] = "write" /\ buf[t][r] # <<>> /\ Put(t, r, part)
      /\ Advance(t, r) /\ missed' = missed \ cells
      /\ buf' = [buf EXCEPT ![t][r] = <<>>]
      /\ raced' = IF CopyTaken(t, r) THEN raced \cup cells ELSE raced \ cells
      /\ UNCHANGED <<open, cap, call, range, value, plan, got, held, seen,
                     excused, bounds>>
  BY DEF SetSlot
<1>2. r \in DOMAIN answer[t] /\ answer[t][r] = "pending"
  BY InFlightFacts DEF SetSlot
<1>4. PICK e \in pos[t][r] .. Current(t).last :
        part = pos[t][r] .. e /\ Moved(t, r, e)
  BY <1>1, <1>2, AdvanceFacts
<1>5. part # {}
  BY <1>1, <1>2, <1>4, PartFacts
<1>6. Changed(t, r, part)
  <2> HIDE DEF part
  <2> QED BY <1>1, <1>2, <1>5, PutFacts
<1>7. Marked(t, r, part)
  <2>1. missed' \subseteq Cell
    BY <1>1 DEF Values
  <2>2. /\ raced \ cells \subseteq raced' /\ raced' \subseteq raced \cup cells
        /\ CopyTaken(t, r) => cells \subseteq raced'
        /\ missed \ cells \subseteq missed'
    <3> HIDE DEF cells
    <3> QED BY <1>1
  <2> QED BY <2>1, <2>2 DEF Marked
<1>8. Elsewhere(t, r)
  <2>1. DOMAIN buf = Tasks /\ r \in DOMAIN buf[t]
          /\ DOMAIN buf[t] = DOMAIN answer[t]
    BY <1>2 DEF Shapes
  <2>2. /\ DOMAIN buf' = Tasks /\ DOMAIN buf'[t] = DOMAIN buf[t]
        /\ buf'[t][r] = <<>>
        /\ \A q \in DOMAIN answer[t] : q # r => buf'[t][q] = buf[t][q]
        /\ \A u \in Tasks : u # t => buf'[u] = buf[u]
    BY <1>1, <2>1
  <2> QED BY <1>4, <2>2 DEF Elsewhere, Moved
<1>9. Outcome(t, r, part)
  BY <1>4 DEF Outcome, Moved
<1>10. faults' \in 0 .. MaxFaults /\ writes' = writes /\ crashes' = crashes
  BY <1>1 DEF Values, bounds
<1> HIDE DEF part
<1>11. Access(t, r, part)
  <2>1. part \subseteq Part(t, r)
    BY DEF part
  <2> QED BY <1>1, <1>2, <1>6, <1>7, <1>8, <1>9, <1>10, <2>1 DEF Access
<1> QED BY <1>11 DEF part

(* A write that fails is such an access, to the part it has changed. *)
LEMMA FailAccess ==
  ASSUME Shapes, Calls, Values, Copies, NEW t \in Tasks, NEW r, Fail(t, r),
         call[t] = "write"
  PROVE  \E part : Access(t, r, part)
PROOF
<1>1. PICK part \in Partial(t, r) :
        /\ IF part = {} THEN UNCHANGED store ELSE Put(t, r, part)
        /\ raced' = IF CopyTaken(t, r) THEN raced \cup Cells(Store(t, r), part)
                    ELSE raced
  BY DEF Fail
<1>2. /\ answer' = [answer EXCEPT ![t][r] = "failed"]
      /\ buf' = [buf EXCEPT ![t][r] = <<>>]
      /\ missed' = missed \cup Cells(Store(t, r), Bytes(Current(t)))
      /\ faults < MaxFaults /\ faults' = faults + 1
      /\ UNCHANGED <<open, cap, call, range, value, plan, pos, got, held, seen,
                     excused, writes, crashes>>
  BY DEF Fail
<1>3. r \in DOMAIN answer[t] /\ answer[t][r] = "pending"
  BY InFlightFacts DEF Fail
<1>4. /\ part \subseteq Part(t, r)
      /\ buf[t][r] = <<>> => part = {} \/ IsFile(Dev(t), r)
  <2>1. CASE IsFile(Dev(t), r)
    <3> DEFINE c == Current(t)
    <3>1. c.first \in Nat /\ c.last \in Nat
      BY BusyFacts
    <3>2. PICK a \in (c.first - 1) .. c.last : part = c.first .. a
      BY <1>1, <2>1 DEF Partial
    <3>3. Part(t, r) = c.first .. c.last
      BY <2>1 DEF Part, Bytes
    <3> HIDE DEF c
    <3> QED BY <2>1, <3>1, <3>2, <3>3
  <2>2. CASE ~IsFile(Dev(t), r)
    BY <1>1, <2>2 DEF Partial
  <2> QED BY <2>1, <2>2
<1>5. Changed(t, r, part)
  BY <1>1, <1>3, PutFacts
<1>6. Marked(t, r, part)
  <2>1. Cells(Store(t, r), Bytes(Current(t))) \subseteq Cell
    BY <1>3, ChunkCells
  <2>2. missed' \subseteq Cell
    BY <1>2, <2>1 DEF Values
  <2>3. missed \subseteq missed'
    BY <1>2
  <2> DEFINE cells == Cells(Store(t, r), part)
  <2>4. /\ raced \ cells \subseteq raced' /\ raced' \subseteq raced \cup cells
        /\ CopyTaken(t, r) => cells \subseteq raced'
        /\ missed \ cells \subseteq missed'
    <3> HIDE DEF cells
    <3> QED BY <1>1, <2>3 DEF cells
  <2> QED BY <2>2, <2>4 DEF Marked
<1>7. Elsewhere(t, r) /\ pos'[t][r] = pos[t][r] /\ answer'[t][r] = "failed"
  <2>1. /\ DOMAIN buf = Tasks /\ DOMAIN answer = Tasks /\ DOMAIN pos = Tasks
        /\ r \in DOMAIN buf[t] /\ DOMAIN buf[t] = DOMAIN answer[t]
    BY <1>3 DEF Shapes
  <2>2. /\ DOMAIN buf' = Tasks /\ DOMAIN buf'[t] = DOMAIN buf[t]
        /\ buf'[t][r] = <<>>
        /\ \A q \in DOMAIN answer[t] : q # r => buf'[t][q] = buf[t][q]
        /\ \A u \in Tasks : u # t => buf'[u] = buf[u]
    BY <1>2, <2>1
  <2>3. /\ DOMAIN answer' = Tasks /\ DOMAIN answer'[t] = DOMAIN answer[t]
        /\ answer'[t][r] = "failed"
        /\ \A q \in DOMAIN answer[t] : q # r => answer'[t][q] = answer[t][q]
        /\ \A u \in Tasks : u # t => answer'[u] = answer[u]
    BY <1>2, <1>3, <2>1
  <2> QED BY <1>2, <2>1, <2>2, <2>3 DEF Elsewhere
<1>8. Outcome(t, r, part)
  <2>1. Cells(Store(t, r), Bytes(Current(t))) \subseteq missed'
    BY <1>2
  <2> QED BY <1>7, <2>1 DEF Outcome
<1>9. faults' \in 0 .. MaxFaults
  BY <1>2, CallAssumption DEF Values
<1>10. Access(t, r, part)
  BY <1>2, <1>3, <1>4, <1>5, <1>6, <1>7, <1>8, <1>9 DEF Access
<1> QED BY <1>10

(* An access of a write keeps the invariant. *)
LEMMA AccessKeeps ==
  ASSUME DevicesInv, NEW t \in Tasks, NEW r, NEW part, Access(t, r, part)
  PROVE  DevicesInv'
PROOF
<1>1. /\ Shapes /\ Calls /\ Values /\ Copies /\ Writers /\ Written /\ Collected
      /\ Agreed /\ Kept /\ ReadsAreFresh
  BY DEF DevicesInv
<1>2. Shapes' /\ Calls' /\ Values' /\ Copies'
  BY <1>1, AccessShapes, AccessCalls, AccessValues, AccessCopies
<1>3. Writers' /\ Written' /\ Collected'
  BY <1>1, AccessWriters, AccessWritten, AccessCollected
<1>4. Agreed' /\ Kept' /\ ReadsAreFresh'
  BY <1>1, AccessAgreed, AccessKept, AccessFresh
<1> QED BY <1>2, <1>3, <1>4 DEF DevicesInv

-----------------------------------------------------------------------------
(* A read-modify-write takes its copy. *)

(* Where no byte and no promise about it changes, replicas agree and keep  *)
(* as before.                                                              *)
LEMMA SameBytes ==
  ASSUME UNCHANGED <<store, held, missed, raced>>
  PROVE  (Agreed => Agreed') /\ (Kept => Kept')
PROOF
<1>1. \A s, a : ByteAt(s, a)' = ByteAt(s, a)
  BY DEF ByteAt
<1>2. \A s, a, x : Took(s, a, x)' <=> Took(s, a, x)
  BY <1>1 DEF Took
<1> QED BY <1>1, <1>2 DEF Agreed, Kept

(* A write that a step does not touch stays as it is. *)
LEMMA SameWrite ==
  ASSUME NEW u, UNCHANGED <<store, missed, raced>>, range'[u] = range[u],
         value'[u] = value[u], plan'[u] = plan[u], pos'[u] = pos[u],
         answer'[u] = answer[u]
  PROVE  \A d, a :
           /\ Settled(u, a, d) => Settled(u, a, d)'
           /\ UnderWay(u, a) => UnderWay(u, a)'
           /\ Current(u)' = Current(u)
PROOF
<1>1. \A s, a, x : Took(s, a, x) <=> TookNext(s, a, x)
  BY DEF Took, TookNext, ByteAt
<1>2. \A a, d : Settled(u, a, d) => SettledNext(a, d, value[u])
  BY <1>1 DEF Settled, SettledNext
<1>3. \A a : UnderWay(u, a) => UnderWayNext(u, a)
  BY <1>1 DEF UnderWay, UnderWayNext
<1>4. ASSUME NEW a, NEW d
      PROVE  /\ Settled(u, a, d) => Settled(u, a, d)'
             /\ UnderWay(u, a) => UnderWay(u, a)'
  BY <1>2, <1>3, NextFacts
<1> QED BY <1>4, SameChunk

(* A copy that a step does not touch stays as it is. *)
LEMMA SameCopy ==
  ASSUME NEW u, UNCHANGED <<store, raced, cap>>, call'[u] = call[u], NEW r,
         plan'[u] = plan[u], pos'[u][r] = pos[u][r],
         answer'[u][r] = answer[u][r], buf'[u][r] = buf[u][r], IsCopy(u, r)
  PROVE  IsCopy(u, r)'
PROOF
<1>1. /\ Dev(u)' = Dev(u) /\ Store(u, r)' = Store(u, r)
      /\ SlotAt(u, r)' = SlotAt(u, r)
  BY SameChunk, SameSlot
<1> QED BY <1>1 DEF IsCopy

(* The bytes that a read has are fresh. *)
FreshRead(t) ==
  \A i \in DOMAIN got[t] :
    LET a == range[t].at + i - 1
    IN  a \in excused[t] \/ Deciphered(got[t][i], a) \in seen[t][a]

(* KVDevice::write takes its copy of a slot: the copy has the bytes of the *)
(* slot.                                                                   *)
LEMMA GetSlotKeeps ==
  ASSUME DevicesInv, NEW t \in Tasks, NEW r, GetSlot(t, r)
  PROVE  DevicesInv'
PROOF
<1>1. /\ Shapes /\ Calls /\ Values /\ Copies /\ Writers /\ Written /\ Collected
      /\ Agreed /\ Kept /\ ReadsAreFresh
  BY DEF DevicesInv
<1>2. /\ call[t] = "write" /\ ~IsFile(Dev(t), r)
      /\ buf' = [buf EXCEPT ![t][r] =
               [o \in {o \in DOMAIN store[Store(t, r)] :
                         Slot(Dev(t), r, o) = SlotAt(t, r)} |->
                  store[Store(t, r)][o]]]
      /\ UNCHANGED <<store, open, cap, call, range, value, plan, answer,
           pos, got,
                     tracks, bounds>>
  BY DEF GetSlot
<1>3. /\ UNCHANGED <<held, seen, excused, missed, raced>>
      /\ UNCHANGED <<writes, faults, crashes>>
  BY <1>2 DEF tracks, bounds
<1>4. r \in DOMAIN answer[t] /\ answer[t][r] = "pending"
  BY InFlightFacts DEF GetSlot
<1>5. /\ DOMAIN buf = Tasks /\ DOMAIN buf[t] = DOMAIN answer[t]
  BY <1>1 DEF Shapes
<1> DEFINE b == [o \in {o \in DOMAIN store[Store(t, r)] :
                         Slot(Dev(t), r, o) = SlotAt(t, r)} |->
                  store[Store(t, r)][o]]
<1>6. /\ DOMAIN buf' = Tasks /\ DOMAIN buf'[t] = DOMAIN buf[t]
      /\ buf'[t][r] = b
      /\ \A u \in Tasks : \A q \in DOMAIN answer[u] :
           <<u, q>> # <<t, r>> => buf'[u][q] = buf[u][q]
      /\ \A u \in Tasks : u # t => buf'[u] = buf[u]
  <2> HIDE DEF b
  <2>1. buf' = [buf EXCEPT ![t][r] = b]
    BY <1>2 DEF b
  <2> QED BY <1>4, <1>5, <2>1
<1>7. IsCopy(t, r)'
  <2>1. Store(t, r) \in Stores /\ Store(t, r)[1] = Dev(t) /\ Store(t, r)[2] = r
    BY <1>1, <1>2, <1>4, BusyFacts DEF Store
  <2> DEFINE s == Store(t, r)
  <2>2. store[s] \in [0 .. (Size(Dev(t), r) - 1) -> Raw]
    BY <1>1, <2>1 DEF Values
  <2>3. \A o \in DOMAIN b :
          /\ o \in 0 .. (Size(Dev(t), r) - 1) /\ b[o] = store[s][o]
          /\ b[o] \in Raw /\ Slot(Dev(t), r, o) = SlotAt(t, r)
    <3> DEFINE n == Size(Dev(t), r)
    <3> HIDE DEF n, s
    <3>1. DOMAIN store[s] = 0 .. (n - 1)
            /\ \A o \in 0 .. (n - 1) : store[s][o] \in Raw
      BY <2>2 DEF n
    <3> QED BY <3>1 DEF s, n
  <2>4. Dev(t)' = Dev(t) /\ Store(t, r)' = s /\ SlotAt(t, r)' = SlotAt(t, r)
    BY <1>2, SameChunk, SameSlot
  <2> HIDE DEF b, s
  <2> QED BY <1>2, <1>4, <1>6, <2>3, <2>4 DEF IsCopy
<1>8. Copies'
  <2>1. ASSUME NEW u \in Tasks, NEW q \in DOMAIN answer'[u], buf'[u][q] # <<>>
        PROVE  IsCopy(u, q)'
    <3>1. CASE <<u, q>> = <<t, r>>
      BY <1>7, <3>1
    <3>2. CASE <<u, q>> # <<t, r>>
      <4>1. q \in DOMAIN answer[u] /\ buf'[u][q] = buf[u][q]
        BY <1>2, <1>6, <2>1, <3>2
      <4>2. IsCopy(u, q)
        BY <1>1, <2>1, <4>1 DEF Copies
      <4> QED BY <1>2, <1>3, <4>1, <4>2, SameCopy
    <3> QED BY <3>1, <3>2
  <2> QED BY <2>1 DEF Copies
<1>9. Shapes'
  <2>1. \A u \in Tasks : DOMAIN buf'[u] = DOMAIN buf[u]
    BY <1>6
  <2> QED BY <1>1, <1>2, <1>3, <1>6, <2>1 DEF Shapes
<1>10. \A u \in Tasks : /\ Current(u)' = Current(u) /\ Dev(u)' = Dev(u)
                        /\ Pending(u)' = Pending(u)
                        /\ \A x : Answered(u, x)' = Answered(u, x)
  BY <1>2, SameRead, SameChunk
<1>11. Calls'
  <2>1. \A u \in Tasks : (Idle(u) => Idle(u)') /\ (Busy(u) => Busy(u)')
    BY <1>2, <1>10 DEF Idle, Busy
  <2> QED BY <1>1, <1>2, <2>1 DEF Calls
<1>12. Values' /\ Writers'
  BY <1>1, <1>2, <1>3 DEF Values, Writers, IsWriter
<1>13. Written'
  <2>1. \A u \in Tasks : \A d, a :
           /\ Settled(u, a, d) => Settled(u, a, d)'
           /\ UnderWay(u, a) => UnderWay(u, a)'
    BY <1>2, <1>3, SameWrite
  <2>2. \A u \in Tasks : Bytes(Current(u))' = Bytes(Current(u))
    BY <1>10 DEF Bytes
  <2> QED BY <1>1, <1>2, <1>10, <2>1, <2>2 DEF Written
<1>14. Collected'
  BY <1>1, <1>2, <1>3, <1>10 DEF Collected, Gathered
<1>15. Agreed' /\ Kept'
  BY <1>1, <1>2, <1>3, SameBytes
<1>16. ReadsAreFresh'
  BY <1>1, <1>2, <1>3 DEF ReadsAreFresh
<1> QED BY <1>8, <1>9, <1>11, <1>12, <1>13, <1>14, <1>15, <1>16 DEF DevicesInv

-----------------------------------------------------------------------------
(* An access of a read. *)

(* An access of a read of t to its replica r, which adds the bytes of its  *)
(* part to those read, or fails and drops what this replica had added.     *)
Reading(t, r) ==
  /\ call[t] = "read" /\ r \in DOMAIN answer[t] /\ answer[t][r] = "pending"
  /\ Answered(t, "ok") = {} /\ \A q \in Pending(t) : r <= q
  /\ Elsewhere(t, r)
  /\ DOMAIN got' = Tasks /\ DOMAIN excused' = Tasks
  /\ \A u \in Tasks : u # t => got'[u] = got[u] /\ excused'[u] = excused[u]
  /\ excused'[t] \subseteq Addresses
  /\ UNCHANGED <<store, open, cap, call, range, value, plan, held, seen,
       missed,
                 raced, writes, crashes>>
  /\ faults' \in 0 .. MaxFaults
  /\ got'[t] \in Seq(Raw)
  /\ \/ \E e \in pos[t][r] .. Current(t).last :
          /\ Part(t, r) = pos[t][r] .. e
          /\ pos'[t][r] = e + 1
          /\ answer'[t][r] = IF e = Current(t).last THEN "ok" ELSE "pending"
          /\ Len(got'[t]) = Len(got[t]) + (e + 1 - pos[t][r])
     \/ /\ pos'[t][r] = pos[t][r] /\ answer'[t][r] = "failed"
        /\ Len(got'[t]) = Current(t).first - range[t].at
  /\ FreshRead(t)'

(* After an access of a read, it has as many bytes as it is past. *)
LEMMA ReadingGathered ==
  ASSUME Shapes, Calls, NEW t \in Tasks, NEW r, Gathered(t), Reading(t, r)
  PROVE  Gathered(t)'
PROOF
<1> DEFINE c == Current(t)
           p == pos[t][r]
           at == range[t].at
           n == Len(got[t])
<1>1. /\ call[t] = "read" /\ r \in DOMAIN answer[t] /\ answer[t][r] = "pending"
      /\ Answered(t, "ok") = {} /\ (\A q \in Pending(t) : r <= q)
      /\ Elsewhere(t, r) /\ got'[t] \in Seq(Raw)
      /\ UNCHANGED <<range, plan, held, seen>>
  BY DEF Reading
<1>2. /\ c.first \in Nat /\ c.last \in Nat /\ at \in Nat /\ at <= c.first
      /\ c.first <= c.last /\ p \in Nat /\ c.first <= p /\ p <= c.last
  BY <1>1, BusyFacts, PartFacts
<1>3. \A q \in DOMAIN answer[t] : q \in Nat
  <2>1. DOMAIN answer[t] = Replicas(Dev(t)) /\ Dev(t) \in Devices
    BY <1>1, BusyFacts
  <2> QED BY <2>1, LayoutFacts
<1>4. r \in Pending(t) /\ \A q \in Pending(t) : q \in DOMAIN answer[t]
  BY <1>1 DEF Pending
<1>5. n = p - at
  BY <1>1, <1>4 DEF Gathered
<1>6. \A q \in Pending(t) : q # r => pos[t][q] = c.first
  <2>1. ASSUME NEW q \in Pending(t), q # r PROVE ~(q <= r)
    <3>1. q \in Nat /\ r \in Nat /\ r <= q
      BY <1>1, <1>3, <1>4
    <3> QED BY <2>1, <3>1
  <2> QED BY <1>1, <1>4, <2>1 DEF Gathered
<1>7. /\ Current(t)' = c /\ DOMAIN answer'[t] = DOMAIN answer[t]
      /\ \A q \in DOMAIN answer[t] : q # r =>
           answer'[t][q] = answer[t][q] /\ pos'[t][q] = pos[t][q]
  BY <1>1, SameChunk DEF Elsewhere
<1>8. \A q \in DOMAIN answer[t] : answer[t][q] # "ok"
  BY <1>1 DEF Answered
<1>9. \A a \in Of(range'[t]) : held'[a] \subseteq seen'[t][a]
  BY <1>1 DEF Gathered
<1>10. /\ Pending(t)' = {q \in DOMAIN answer[t] : answer'[t][q] = "pending"}
       /\ Answered(t, "ok")' = {q \in DOMAIN answer[t] : answer'[t][q] = "ok"}
  BY <1>7 DEF Pending, Answered
<1> DEFINE m == Len(got'[t])
<1>11. (\E e \in p .. c.last :
          /\ pos'[t][r] = e + 1
          /\ answer'[t][r] = IF e = c.last THEN "ok" ELSE "pending"
          /\ m = n + (e + 1 - p))
       \/ (/\ pos'[t][r] = p /\ answer'[t][r] = "failed"
           /\ m = c.first - at)
  BY DEF Reading
<1>12. CASE \E e \in p .. c.last :
          /\ pos'[t][r] = e + 1
          /\ answer'[t][r] = IF e = c.last THEN "ok" ELSE "pending"
          /\ m = n + (e + 1 - p)
  <2>1. PICK e \in p .. c.last :
          /\ pos'[t][r] = e + 1
          /\ answer'[t][r] = IF e = c.last THEN "ok" ELSE "pending"
          /\ m = n + (e + 1 - p)
    BY <1>12
  <2>2. m = e + 1 - at
    <3> HIDE DEF m, n, p, c, at
    <3> QED BY <1>2, <1>5, <2>1
  <2>3. m = pos'[t][r] - at
    <3> HIDE DEF m, n, p, c, at
    <3> QED BY <1>2, <2>1, <2>2
  <2>4. CASE e = c.last
    <3>1. \A q \in DOMAIN answer'[t] : answer'[t][q] = "ok" =>
            m = Current(t)'.last + 1 - range'[t].at
      BY <1>1, <1>7, <2>2, <2>4
    <3>2. r \in Answered(t, "ok")'
      BY <1>1, <1>10, <2>1, <2>4
    <3> QED BY <1>1, <1>9, <3>1, <3>2 DEF Gathered
  <2>5. CASE e # c.last
    <3>1. answer'[t][r] = "pending"
      BY <2>1, <2>5
    <3>2. \A q \in DOMAIN answer[t] : answer'[t][q] = answer[t][q]
      BY <1>1, <1>7, <3>1
    <3>3. Answered(t, "ok")' = {} /\ Pending(t)' = Pending(t)
      BY <1>8, <1>10, <3>2 DEF Pending
    <3>4. ASSUME NEW q \in Pending(t)
          PROVE  IF \A z \in Pending(t) : q <= z
                   THEN m = pos'[t][q] - at ELSE pos'[t][q] = c.first
      <4>1. CASE q = r
        <5>1. m = pos'[t][r] - at
          BY <2>3
        <5> HIDE DEF m
        <5> QED BY <1>1, <4>1, <5>1
      <4>2. CASE q # r
        <5>1. ~(q <= r)
          <6>1. q \in Nat /\ r \in Nat /\ r <= q
            BY <1>1, <1>3, <1>4
          <6> QED BY <4>2, <6>1
        <5>2. pos'[t][q] = c.first
          BY <1>4, <1>6, <1>7, <4>2
        <5> QED BY <1>4, <5>1, <5>2
      <4> QED BY <4>1, <4>2
    <3>5. Pending(t) # {} /\ range'[t] = range[t]
      BY <1>1, <1>4
    <3>6. \A q \in DOMAIN answer'[t] : answer'[t][q] # "ok"
      BY <1>7, <1>8, <3>2
    <3>7. Answered(t, "ok")' = {} =>
            IF Pending(t)' = {} THEN m = Current(t)'.first - range'[t].at
            ELSE \A q \in Pending(t)' :
                   IF \A z \in Pending(t)' : q <= z
                     THEN m = pos'[t][q] - range'[t].at
                     ELSE pos'[t][q] = Current(t)'.first
      <4> HIDE DEF m
      <4> QED BY <1>7, <3>3, <3>4, <3>5
    <3> QED BY <1>1, <1>9, <3>6, <3>7 DEF Gathered
  <2> QED BY <2>4, <2>5
<1>13. CASE pos'[t][r] = p /\ answer'[t][r] = "failed" /\ m = c.first - at
  <2>1. Answered(t, "ok")' = {} /\ Pending(t)' = Pending(t) \ {r}
    BY <1>4, <1>7, <1>8, <1>10, <1>13 DEF Pending
  <2>2. \A q \in Pending(t)' : pos'[t][q] = c.first
    BY <1>4, <1>6, <1>7, <2>1
  <2>3. \A q \in DOMAIN answer'[t] : answer'[t][q] # "ok"
    BY <1>7, <1>8, <1>13
  <2>4. IF Pending(t)' = {} THEN m = Current(t)'.first - range'[t].at
        ELSE \A q \in Pending(t)' :
               IF \A z \in Pending(t)' : q <= z
                 THEN m = pos'[t][q] - range'[t].at
                 ELSE pos'[t][q] = Current(t)'.first
    <3> HIDE DEF m
    <3> QED BY <1>1, <1>7, <1>13, <2>2
  <2> QED BY <1>1, <1>9, <2>3, <2>4 DEF Gathered
<1> QED BY <1>11, <1>12, <1>13

(* An access of a read keeps the invariant. *)
LEMMA ReadingKeeps ==
  ASSUME DevicesInv, NEW t \in Tasks, NEW r, Reading(t, r)
  PROVE  DevicesInv'
PROOF
<1>1. /\ Shapes /\ Calls /\ Values /\ Copies /\ Writers /\ Written /\ Collected
      /\ Agreed /\ Kept /\ ReadsAreFresh
  BY DEF DevicesInv
<1>2. /\ call[t] = "read" /\ r \in DOMAIN answer[t] /\ answer[t][r] = "pending"
      /\ Elsewhere(t, r)
      /\ DOMAIN got' = Tasks /\ DOMAIN excused' = Tasks
      /\ \A u \in Tasks : u # t => got'[u] = got[u] /\ excused'[u] = excused[u]
      /\ excused'[t] \subseteq Addresses
      /\ UNCHANGED <<store, open, cap, call, range, value, plan, held, seen,
                     missed, raced, writes, crashes>>
      /\ faults' \in 0 .. MaxFaults
  BY DEF Reading
<1>3. \A u \in Tasks : u # t =>
        pos'[u] = pos[u] /\ answer'[u] = answer[u] /\ buf'[u] = buf[u]
  BY <1>2 DEF Elsewhere
<1>4. Shapes'
  <2>1. \A u \in Tasks : /\ DOMAIN pos'[u] = DOMAIN answer'[u]
                         /\ DOMAIN buf'[u] = DOMAIN answer'[u]
    BY <1>1, <1>2 DEF Shapes, Elsewhere
  <2>2. \A u \in Tasks : excused'[u] \subseteq Addresses
    BY <1>1, <1>2 DEF Shapes
  <2> QED BY <1>1, <1>2, <2>1, <2>2 DEF Shapes, Elsewhere
<1>5. Calls'
  <2>1. Ended(t, r)
    BY DEF Reading, Ended
  <2> QED BY <1>1, <1>2, <2>1, EndedCalls
<1>6. Values' /\ Writers'
  <2>1. Writers'
    <3>1. \A u \in Tasks : call[u] = "write" => IsWriter(u)'
      BY <1>1, <1>2 DEF Writers, IsWriter
    <3> QED BY <1>1, <1>2, <3>1 DEF Writers
  <2> QED BY <1>1, <1>2, <2>1 DEF Values
<1>7. Copies'
  <2>1. ASSUME NEW u \in Tasks, NEW q \in DOMAIN answer'[u], buf'[u][q] # <<>>
        PROVE  IsCopy(u, q)'
    <3>1. <<u, q>> # <<t, r>>
      BY <1>2, <2>1 DEF Elsewhere
    <3>2. /\ q \in DOMAIN answer[u] /\ answer'[u][q] = answer[u][q]
          /\ pos'[u][q] = pos[u][q] /\ buf'[u][q] = buf[u][q]
      BY <1>2, <2>1, <3>1 DEF Elsewhere
    <3>3. IsCopy(u, q)
      BY <1>1, <2>1, <3>2 DEF Copies
    <3> QED BY <1>2, <3>2, <3>3, SameCopy
  <2> QED BY <2>1 DEF Copies
<1>8. Written'
  <2>1. ASSUME NEW u \in Tasks, call'[u] = "write", NEW d \in Devices,
               NEW a \in Span(d) \cap Of(range'[u])
        PROVE  /\ a < Current(u)'.first => Settled(u, a, d)'
               /\ a \in Bytes(Current(u))' => UnderWay(u, a)'
    <3>1. u # t /\ call[u] = "write" /\ range'[u] = range[u]
      BY <1>2, <2>1
    <3>2. /\ Settled(u, a, d) => Settled(u, a, d)'
          /\ UnderWay(u, a) => UnderWay(u, a)'
          /\ Current(u)' = Current(u)
      BY <1>2, <1>3, <3>1, SameWrite
    <3>3. Bytes(Current(u))' = Bytes(Current(u))
      BY <3>2 DEF Bytes
    <3> QED BY <1>1, <2>1, <3>1, <3>2, <3>3 DEF Written
  <2> QED BY <2>1 DEF Written
<1>9. Collected'
  <2>1. ASSUME NEW u \in Tasks, call[u] = "read" PROVE Gathered(u)'
    <3>1. Gathered(u)
      BY <1>1, <2>1 DEF Collected
    <3>2. CASE u = t
      BY <1>1, <3>1, <3>2, ReadingGathered
    <3>3. CASE u # t
      BY <1>2, <1>3, <3>1, <3>3, SameGathered
    <3> QED BY <3>2, <3>3
  <2> QED BY <1>2, <2>1 DEF Collected
<1>10. Agreed' /\ Kept'
  BY <1>1, <1>2, SameBytes
<1>11. ReadsAreFresh'
  <2>1. \A u \in Tasks : FreshRead(u)'
    <3>1. FreshRead(t)'
      BY DEF Reading
    <3>2. \A u \in Tasks : u # t => FreshRead(u)'
      BY <1>1, <1>2 DEF FreshRead, ReadsAreFresh
    <3> QED BY <3>1, <3>2
  <2> QED BY <2>1 DEF FreshRead, ReadsAreFresh
<1> QED BY <1>4, <1>5, <1>6, <1>7, <1>8, <1>9, <1>10, <1>11 DEF DevicesInv

(* What one sequence after another has. *)
LEMMA Joining ==
  ASSUME NEW S, NEW g \in Seq(S), NEW h \in Seq(S)
  PROVE  /\ g \o h \in Seq(S) /\ Len(g \o h) = Len(g) + Len(h)
         /\ \A i \in 1 .. Len(g) : (g \o h)[i] = g[i]
         /\ \A i \in 1 .. Len(h) : (g \o h)[Len(g) + i] = h[i]
         /\ DOMAIN (g \o h) = 1 .. (Len(g) + Len(h))
         /\ Len(g) \in Nat /\ DOMAIN g = 1 .. Len(g)
PROOF
<1>1. /\ g \o h \in Seq(S) /\ Len(g \o h) = Len(g) + Len(h)
      /\ Len(g) \in Nat /\ Len(h) \in Nat /\ DOMAIN g = 1 .. Len(g)
      /\ DOMAIN (g \o h) = 1 .. (Len(g) + Len(h))
  OBVIOUS
<1>2. \A i \in 1 .. (Len(g) + Len(h)) :
        (g \o h)[i] = IF i <= Len(g) THEN g[i] ELSE h[i - Len(g)]
  OBVIOUS
<1>3. \A i \in 1 .. Len(g) : (g \o h)[i] = g[i]
  BY <1>1, <1>2
<1>4. ASSUME NEW i \in 1 .. Len(h) PROVE (g \o h)[Len(g) + i] = h[i]
  <2>1. /\ Len(g) + i \in 1 .. (Len(g) + Len(h)) /\ ~(Len(g) + i <= Len(g))
        /\ (Len(g) + i) - Len(g) = i
    BY <1>1
  <2> QED BY <1>2, <2>1
<1> QED BY <1>1, <1>3, <1>4

(* A read of a file or of a slot is such an access, and what it adds is    *)
(* fresh: it is what the replica holds, which is one of the values that    *)
(* may be read unless the replica has missed or lost them.                 *)
LEMMA ReadPartReading ==
  ASSUME DevicesInv, NEW t \in Tasks, NEW r, ReadPart(t, r)
  PROVE  Reading(t, r)
PROOF
<1> DEFINE c == Current(t)
           p == pos[t][r]
           at == range[t].at
           n == Len(got[t])
           part == Part(t, r)
           s == Store(t, r)
           d == Dev(t)
           read == [i \in 1 .. Cardinality(part) |->
                      store[s][Offset(d, p + i - 1)]]
<1>1. /\ Shapes /\ Calls /\ Values /\ Copies /\ Collected /\ Agreed
      /\ ReadsAreFresh
  BY DEF DevicesInv
<1>2. /\ call[t] = "read" /\ Advance(t, r)
      /\ got' = [got EXCEPT ![t] = got[t] \o read]
      /\ excused' = [excused EXCEPT ![t] = excused[t] \cup
                       {a \in part : <<s, a>> \in missed \cup raced}]
      /\ UNCHANGED <<store, open, cap, call, range, value, plan, buf, held,
                     seen, missed, raced, bounds>>
  BY DEF ReadPart
<1>3. /\ r \in DOMAIN answer[t] /\ answer[t][r] = "pending"
      /\ Answered(t, "ok") = {} /\ \A q \in Pending(t) : r <= q
  BY <1>2, InFlightFacts DEF ReadPart
<1>4. PICK e \in p .. c.last : part = p .. e /\ Moved(t, r, e)
  BY <1>1, <1>2, <1>3, AdvanceFacts
<1>5. /\ p \in Nat /\ c.last \in Nat /\ c.first \in Nat /\ at \in Nat
      /\ c.first <= p /\ s \in Stores /\ d \in Devices /\ cap = Caps
      /\ Bytes(c) \subseteq Of(range[t]) \cap Span(d)
  BY <1>1, <1>2, <1>3, BusyFacts, PartFacts
<1>6. s[1] = d
  BY DEF Store
<1>7. Gathered(t)
  BY <1>1, <1>2 DEF Collected
<1>8. n = p - at /\ got[t] \in Seq(Raw)
  <2>1. r \in Pending(t)
    BY <1>3 DEF Pending
  <2> QED BY <1>3, <1>7, <2>1 DEF Gathered
<1>9. Cardinality(part) = e + 1 - p
  <2> HIDE DEF p, c, part
  <2>1. Cardinality(p .. e) = e + 1 - p
    BY <1>4, <1>5, IntervalSize
  <2> QED BY <1>4, <2>1
<1>10. \A a \in part : a \in Of(range[t]) /\ a \in Span(d)
  <2>1. part \subseteq c.first .. c.last
    <3> HIDE DEF p, c, part
    <3> QED BY <1>4, <1>5
  <2> HIDE DEF part
  <2> QED BY <1>5, <2>1 DEF Bytes
<1>11. \A a \in part : a - Base(d) = Offset(d, a)
  BY <1>5, OpenGeometry DEF Offset
<1>12. ASSUME NEW i \in 1 .. Cardinality(part)
       PROVE  /\ p + i - 1 \in part
              /\ read[i] = store[s][(p + i - 1) - Base(d)] /\ read[i] \in Raw
  <2> DEFINE a == p + i - 1
  <2>1. a \in part
    <3>1. i \in 1 .. (e + 1 - p)
      BY <1>9
    <3> HIDE DEF p, c, part
    <3> QED BY <1>4, <1>5, <3>1 DEF a
  <2>2. read[i] = store[s][Offset(d, a)]
    OBVIOUS
  <2>3. Offset(d, a) = a - Base(d)
    <3> HIDE DEF a, part
    <3> QED BY <1>11, <2>1
  <2>4. store[s] \in [0 .. (Size(s[1], s[2]) - 1) -> Raw]
    BY <1>1, <1>5 DEF Values
  <2>5. a - Base(s[1]) \in 0 .. (Size(s[1], s[2]) - 1)
    <3> HIDE DEF a, part, s, d
    <3> QED BY <1>5, <1>6, <1>10, <2>1, CellOffset
  <2>6. store[s][a - Base(d)] \in Raw
    <3> HIDE DEF a, s, d
    <3> QED BY <1>6, <2>4, <2>5
  <2> HIDE DEF read, a, part, s, d, p
  <2>7. read[i] = store[s][a - Base(d)] /\ read[i] \in Raw
    BY <2>2, <2>3, <2>6
  <2>8. a \in part
    BY <2>1
  <2> QED BY <2>7, <2>8 DEF a
<1>13. read \in Seq(Raw) /\ Len(read) = e + 1 - p
  <2> DEFINE k == Cardinality(part)
  <2>1. k \in Nat /\ k = e + 1 - p
    <3> HIDE DEF p, c, part
    <3> QED BY <1>4, <1>5, <1>9
  <2> HIDE DEF k
  <2>2. read = [i \in 1 .. k |-> read[i]]
    BY DEF k
  <2>3. \A i \in 1 .. k : read[i] \in Raw
    BY <1>12 DEF k
  <2> HIDE DEF read
  <2> QED BY <2>1, <2>2, <2>3
<1>14. got'[t] = got[t] \o read /\ DOMAIN got' = Tasks
       /\ \A u \in Tasks : u # t => got'[u] = got[u]
  <2> HIDE DEF read
  <2> QED BY <1>1, <1>2 DEF Shapes
<1>15. /\ DOMAIN excused' = Tasks
       /\ \A u \in Tasks : u # t => excused'[u] = excused[u]
       /\ excused'[t] = excused[t] \cup
                          {a \in part : <<s, a>> \in missed \cup raced}
  <2> HIDE DEF part, s
  <2> QED BY <1>1, <1>2 DEF Shapes
<1>16. excused'[t] \subseteq Addresses
  <2>1. Span(d) \subseteq Addresses
    BY <1>5, BaseFacts
  <2>2. excused[t] \subseteq Addresses
    BY <1>1 DEF Shapes
  <2> HIDE DEF part, s, d
  <2> QED BY <1>10, <1>15, <2>1, <2>2
<1> HIDE DEF read
<1>17. /\ got'[t] \in Seq(Raw) /\ Len(got'[t]) = n + (e + 1 - p)
       /\ \A i \in 1 .. n : got'[t][i] = got[t][i]
       /\ \A i \in 1 .. (e + 1 - p) : got'[t][n + i] = read[i]
       /\ DOMAIN got'[t] = 1 .. (n + (e + 1 - p)) /\ n \in Nat
       /\ DOMAIN got[t] = 1 .. n
  <2> DEFINE k == e + 1 - p
             g == got[t]
  <2>1. g \in Seq(Raw) /\ read \in Seq(Raw) /\ Len(read) = k /\ n = Len(g)
    BY <1>8, <1>13
  <2> HIDE DEF n, g, k
  <2>2. /\ g \o read \in Seq(Raw) /\ Len(g \o read) = n + k
        /\ \A i \in 1 .. n : (g \o read)[i] = g[i]
        /\ \A i \in 1 .. k : (g \o read)[n + i] = read[i]
        /\ DOMAIN (g \o read) = 1 .. (n + k) /\ n \in Nat /\ DOMAIN g = 1 .. n
    <3>1. /\ g \o read \in Seq(Raw) /\ Len(g \o read) = Len(g) + Len(read)
          /\ \A i \in 1 .. Len(g) : (g \o read)[i] = g[i]
          /\ \A i \in 1 .. Len(read) : (g \o read)[Len(g) + i] = read[i]
          /\ DOMAIN (g \o read) = 1 .. (Len(g) + Len(read))
          /\ Len(g) \in Nat /\ DOMAIN g = 1 .. Len(g)
      BY <2>1, Joining
    <3>2. Len(g) = n /\ Len(read) = k
      BY <2>1
    <3> QED BY <3>1, <3>2
  <2>3. got'[t] = g \o read
    BY <1>14 DEF g
  <2> HIDE DEF p
  <2> QED BY <2>2, <2>3 DEF g, k
<1>18. FreshRead(t)'
  <2> SUFFICES ASSUME NEW i \in DOMAIN got'[t]
               PROVE  \/ at + i - 1 \in excused'[t]
                      \/ Deciphered(got'[t][i],
                           at + i - 1) \in seen[t][at + i - 1]
    BY <1>2 DEF FreshRead
  <2>1. CASE i \in 1 .. n
    <3>1. \/ at + i - 1 \in excused[t]
          \/ Deciphered(got[t][i], at + i - 1) \in seen[t][at + i - 1]
      BY <1>1, <1>17, <2>1 DEF ReadsAreFresh
    <3> HIDE DEF n
    <3> QED BY <1>15, <1>17, <2>1, <3>1
  <2>2. CASE i \notin 1 .. n
    <3> DEFINE j == i - n
               a == p + j - 1
    <3>1. j \in 1 .. (e + 1 - p) /\ n + j = i /\ a = at + i - 1
      <4>1. i \in 1 .. (n + (e + 1 - p))
        BY <1>17
      <4>2. n \in Nat /\ e \in p .. c.last
        BY <1>17
      <4>3. p \in Nat /\ at \in Nat /\ n = p - at /\ e \in Int
        BY <1>5, <1>8
      <4>4. n < i /\ i \in Int /\ i <= n + (e + 1 - p)
        <5> HIDE DEF n, p, at
        <5> QED BY <2>2, <4>1, <4>2, <4>3
      <4> HIDE DEF n, p, at
      <4> QED BY <4>2, <4>3, <4>4
    <3>2. a \in part /\ read[j] = store[s][a - Base(d)]
      <4>1. j \in 1 .. Cardinality(part)
        BY <1>9, <3>1
      <4> HIDE DEF j, n, p, c, part, s, d
      <4> QED BY <1>12, <4>1
    <3>3. got'[t][i] = read[j]
      <4> HIDE DEF j, n, p
      <4> QED BY <1>17, <3>1
    <3>4. CASE <<s, a>> \in missed \cup raced
      <4>1. a \in excused'[t]
        <5> HIDE DEF a, part, s
        <5> QED BY <1>15, <3>2, <3>4
      <4> QED BY <3>1, <4>1
    <3>5. CASE <<s, a>> \notin missed \cup raced
      <4>1. a \in Span(d) /\ a \in Of(range[t])
        <5> HIDE DEF a, part
        <5> QED BY <1>10, <3>2
      <4>2. <<s, a>> \in Cell
        <5> HIDE DEF a, s, d
        <5> QED BY <1>5, <1>6, <4>1, CellFacts
      <4>3. ByteAt(s, a) \in held[a]
        <5> HIDE DEF a, s
        <5>1. <<s, a>>[1] = s /\ <<s, a>>[2] = a
          OBVIOUS
        <5> QED BY <1>1, <3>5, <4>2, <5>1 DEF Agreed
      <4>4. held[a] \subseteq seen[t][a]
        <5> HIDE DEF a
        <5> QED BY <1>7, <4>1 DEF Gathered
      <4>5. ByteAt(s, a) = Deciphered(got'[t][i], a)
        BY <1>6, <3>2, <3>3 DEF ByteAt
      <4> HIDE DEF a, s, at
      <4> QED BY <3>1, <4>3, <4>4, <4>5
    <3> QED BY <3>4, <3>5
  <2> QED BY <2>1, <2>2
<1>19. Elsewhere(t, r)
  <2>1. \A q \in DOMAIN answer[t] : buf[t][q] = <<>>
    BY <1>1, <1>2 DEF Copies, IsCopy
  <2> QED BY <1>1, <1>2, <1>3, <1>4, <2>1 DEF Elsewhere, Moved, Shapes
<1>20. faults' \in 0 .. MaxFaults /\ writes' = writes /\ crashes' = crashes
  BY <1>1, <1>2 DEF Values, bounds
<1>21. \E f \in pos[t][r] .. Current(t).last :
          /\ Part(t, r) = pos[t][r] .. f
          /\ pos'[t][r] = f + 1
          /\ answer'[t][r] = IF f = Current(t).last THEN "ok" ELSE "pending"
          /\ Len(got'[t]) = Len(got[t]) + (f + 1 - pos[t][r])
  BY <1>4, <1>17 DEF Moved
<1> HIDE DEF c, p, at, n, part, s, d
<1> QED BY <1>2, <1>3, <1>14, <1>15, <1>16, <1>17, <1>18, <1>19, <1>20, <1>21
        DEF Reading

(* A read that fails is such an access, and what it keeps was fresh. *)
LEMMA FailReading ==
  ASSUME DevicesInv, NEW t \in Tasks, NEW r, Fail(t, r), call[t] = "read"
  PROVE  Reading(t, r)
PROOF
<1> DEFINE c == Current(t)
           p == pos[t][r]
           at == range[t].at
           n == Len(got[t])
           k == c.first - at
<1>1. /\ Shapes /\ Calls /\ Values /\ Copies /\ Collected /\ ReadsAreFresh
  BY DEF DevicesInv
<1>2. /\ answer' = [answer EXCEPT ![t][r] = "failed"]
      /\ buf' = [buf EXCEPT ![t][r] = <<>>]
      /\ got' = [got EXCEPT ![t] = KeepOthers(t)] /\ missed' = missed
      /\ faults < MaxFaults /\ faults' = faults + 1
      /\ UNCHANGED <<open, cap, call, range, value, plan, pos, held, seen,
                     excused, writes, crashes>>
  BY DEF Fail
<1>3. /\ r \in DOMAIN answer[t] /\ answer[t][r] = "pending"
      /\ Answered(t, "ok") = {} /\ \A q \in Pending(t) : r <= q
  BY InFlightFacts DEF Fail
<1>4. store' = store /\ raced' = raced
  <2>1. PICK part \in Partial(t, r) :
          /\ IF part = {} THEN UNCHANGED store ELSE Put(t, r, part)
          /\ raced' = IF CopyTaken(t, r) THEN raced \cup Cells(Store(t, r),
               part)
                      ELSE raced
    BY DEF Fail
  <2>2. part = {}
    BY <2>1 DEF Partial
  <2>3. Cells(Store(t, r), part) = {}
    BY <2>2 DEF Cells
  <2> QED BY <2>1, <2>2, <2>3
<1>5. /\ p \in Nat /\ c.last \in Nat /\ c.first \in Nat /\ at \in Nat
      /\ c.first <= p /\ at <= c.first
  BY <1>1, <1>3, BusyFacts, PartFacts
<1>6. n = p - at /\ got[t] \in Seq(Raw)
  <2>1. r \in Pending(t)
    BY <1>3 DEF Pending
  <2>2. Gathered(t)
    BY <1>1 DEF Collected
  <2> QED BY <1>3, <2>1, <2>2 DEF Gathered
<1>7. k \in Nat /\ k <= n /\ n \in Nat
  <2> HIDE DEF n, c, p, at
  <2> QED BY <1>5, <1>6
<1>8. /\ got'[t] = SubSeq(got[t], 1, k) /\ DOMAIN got' = Tasks
      /\ \A u \in Tasks : u # t => got'[u] = got[u]
  BY <1>1, <1>2 DEF Shapes, KeepOthers
<1>9. /\ got'[t] \in Seq(Raw) /\ Len(got'[t]) = k
      /\ DOMAIN got'[t] = 1 .. k /\ DOMAIN got[t] = 1 .. n
      /\ \A i \in 1 .. k : got'[t][i] = got[t][i]
  <2> DEFINE g == got[t]
  <2>1. g \in Seq(Raw) /\ n = Len(g) /\ got'[t] = SubSeq(g, 1, k)
    BY <1>6, <1>8
  <2> HIDE DEF n, k, g
  <2> QED BY <1>7, <2>1 DEF g
<1>10. FreshRead(t)'
  <2> SUFFICES ASSUME NEW i \in DOMAIN got'[t]
               PROVE  \/ at + i - 1 \in excused[t]
                      \/ Deciphered(got'[t][i],
                           at + i - 1) \in seen[t][at + i - 1]
    BY <1>2 DEF FreshRead
  <2>1. i \in DOMAIN got[t] /\ got'[t][i] = got[t][i]
    <3> HIDE DEF n, k
    <3> QED BY <1>7, <1>9
  <2> QED BY <1>1, <2>1 DEF ReadsAreFresh
<1>11. Elsewhere(t, r) /\ pos'[t][r] = pos[t][r] /\ answer'[t][r] = "failed"
  <2>1. /\ DOMAIN buf = Tasks /\ DOMAIN answer = Tasks /\ DOMAIN pos = Tasks
        /\ r \in DOMAIN buf[t] /\ DOMAIN buf[t] = DOMAIN answer[t]
    BY <1>1, <1>3 DEF Shapes
  <2>2. /\ DOMAIN buf' = Tasks /\ DOMAIN buf'[t] = DOMAIN buf[t]
        /\ buf'[t][r] = <<>>
        /\ \A q \in DOMAIN answer[t] : q # r => buf'[t][q] = buf[t][q]
        /\ \A u \in Tasks : u # t => buf'[u] = buf[u]
    BY <1>2, <2>1
  <2>3. /\ DOMAIN answer' = Tasks /\ DOMAIN answer'[t] = DOMAIN answer[t]
        /\ answer'[t][r] = "failed"
        /\ \A q \in DOMAIN answer[t] : q # r => answer'[t][q] = answer[t][q]
        /\ \A u \in Tasks : u # t => answer'[u] = answer[u]
    BY <1>2, <1>3, <2>1
  <2> QED BY <1>2, <2>1, <2>2, <2>3 DEF Elsewhere
<1>12. faults' \in 0 .. MaxFaults
  BY <1>1, <1>2, CallAssumption DEF Values
<1>13. DOMAIN excused = Tasks /\ excused[t] \subseteq Addresses
  BY <1>1 DEF Shapes
<1>14. Len(got'[t]) = Current(t).first - range[t].at
  BY <1>9
<1> HIDE DEF c, p, at, n, k
<1> QED BY <1>2, <1>3, <1>4, <1>8, <1>9, <1>10, <1>11, <1>12, <1>13, <1>14
        DEF Reading

-----------------------------------------------------------------------------
(* A step that leaves every device alone, and the other tasks too. *)

(* Task t has the chunks, and no replica of the first has been accessed. *)
Entered(t, chunks) ==
  /\ DOMAIN plan' = Tasks /\ DOMAIN answer' = Tasks /\ DOMAIN pos' = Tasks
  /\ DOMAIN buf' = Tasks
  /\ \A u \in Tasks : u # t =>
       /\ plan'[u] = plan[u] /\ answer'[u] = answer[u] /\ pos'[u] = pos[u]
       /\ buf'[u] = buf[u]
  /\ plan'[t] = chunks
  /\ DOMAIN pos'[t] = DOMAIN answer'[t] /\ DOMAIN buf'[t] = DOMAIN answer'[t]
  /\ DOMAIN answer'[t] =
       IF chunks = <<>> THEN {} ELSE Replicas(Head(chunks).dev)
  /\ \A r \in DOMAIN answer'[t] :
       /\ answer'[t][r] = "pending" /\ pos'[t][r] = Head(chunks).first
       /\ buf'[t][r] = <<>>

(* Enter does that. *)
LEMMA EnterFacts ==
  ASSUME Shapes, NEW t \in Tasks, NEW chunks, Enter(t, chunks)
  PROVE  Entered(t, chunks)
PROOF
<1> DEFINE R == IF chunks = <<>> THEN {} ELSE Replicas(Head(chunks).dev)
<1>1. /\ plan' = [plan EXCEPT ![t] = chunks]
      /\ answer' = [answer EXCEPT ![t] = [r \in R |-> "pending"]]
      /\ pos' = [pos EXCEPT ![t] = [r \in R |-> Head(chunks).first]]
      /\ buf' = [buf EXCEPT ![t] = [r \in R |-> <<>>]]
  BY DEF Enter
<1>2. /\ DOMAIN plan = Tasks /\ DOMAIN answer = Tasks /\ DOMAIN pos = Tasks
      /\ DOMAIN buf = Tasks
  BY DEF Shapes
<1> HIDE DEF R
<1>3. /\ plan'[t] = chunks /\ answer'[t] = [r \in R |-> "pending"]
      /\ pos'[t] = [r \in R |-> Head(chunks).first]
      /\ buf'[t] = [r \in R |-> <<>>]
  BY <1>1, <1>2
<1>4. /\ DOMAIN plan' = Tasks /\ DOMAIN answer' = Tasks /\ DOMAIN pos' = Tasks
      /\ DOMAIN buf' = Tasks
      /\ \A u \in Tasks : u # t =>
           /\ plan'[u] = plan[u] /\ answer'[u] = answer[u] /\ pos'[u] = pos[u]
           /\ buf'[u] = buf[u]
  BY <1>1, <1>2
<1>5. /\ DOMAIN answer'[t] = R /\ DOMAIN pos'[t] = R /\ DOMAIN buf'[t] = R
      /\ \A r \in R : /\ answer'[t][r] = "pending" /\ buf'[t][r] = <<>>
                      /\ pos'[t][r] = Head(chunks).first
  BY <1>3
<1> QED BY <1>3, <1>4, <1>5 DEF Entered, R

(* The first chunk of a plan. *)
LEMMA ChainedFacts ==
  ASSUME NEW p, NEW want \in Ranges, Chained(p, want)
  PROVE  /\ p # <<>> /\ Head(p) = p[1] /\ Head(p).dev \in Devices
         /\ Head(p).first \in Int /\ Head(p).last \in Int
         /\ Head(p).first <= Head(p).last
PROOF
<1>1. p \in Seq(ChunkRecord) /\ p # <<>>
        /\ \A i \in DOMAIN p : IsChunk(p[i], want)
  BY DEF Chained, ChunkRecord
<1>2. Head(p) = p[1] /\ 1 \in DOMAIN p /\ p[1] \in ChunkRecord
  BY <1>1
<1>3. IsChunk(p[1], want)
  BY <1>1, <1>2
<1> QED BY <1>1, <1>2, <1>3 DEF ChunkRecord, IsChunk

(* A call that enters a plan of its range is within it. *)
LEMMA EnteredBusy ==
  ASSUME NEW t \in Tasks, NEW chunks, Entered(t, chunks),
         NEW want \in Ranges, Chained(chunks, want),
         range'[t] = want, want.at + want.len <= Total, open'
  PROVE  Busy(t)' /\ Current(t)' = Head(chunks)
PROOF
<1>1. Current(t)' = Head(chunks) /\ Dev(t)' = Head(chunks).dev
  BY DEF Entered, Current, Dev
<1>2. /\ chunks # <<>> /\ Head(chunks).first \in Int
        /\ Head(chunks).last \in Int
      /\ Head(chunks).first <= Head(chunks).last
  BY ChainedFacts
<1>3. \A r \in DOMAIN answer'[t] :
        /\ answer'[t][r] \in {"pending", "ok", "failed"}
        /\ pos'[t][r] \in Head(chunks).first .. (Head(chunks).last + 1)
        /\ answer'[t][r] = "pending" =>
             /\ pos'[t][r] <= Head(chunks).last
             /\ IsFile(Dev(t)', r) => pos'[t][r] = Head(chunks).first
  BY <1>2 DEF Entered
<1>4. DOMAIN answer'[t] = Replicas(Dev(t)')
  BY <1>1, <1>2 DEF Entered
<1>5. plan'[t] = chunks
  BY DEF Entered
<1> QED BY <1>1, <1>3, <1>4, <1>5 DEF Busy, IsFile, SlotSize, Replicas

(* A step of t that leaves the other tasks and every device alone. *)
Aside(t) ==
  /\ DOMAIN call' = Tasks /\ DOMAIN range' = Tasks /\ DOMAIN value' = Tasks
  /\ DOMAIN got' = Tasks /\ DOMAIN seen' = Tasks /\ DOMAIN excused' = Tasks
  /\ \A u \in Tasks : u # t =>
       /\ call'[u] = call[u] /\ range'[u] = range[u] /\ value'[u] = value[u]
       /\ got'[u] = got[u] /\ excused'[u] = excused[u]
  /\ UNCHANGED <<store, open, cap, missed, raced>>

(* Such a step leaves every task its variables. *)
LEMMA AsideShapes ==
  ASSUME Shapes, Values, NEW t \in Tasks, Aside(t), NEW chunks, Entered(t,
           chunks),
         call'[t] \in {"none", "read", "write"},
         writes' \in Nat, writes <= writes', value'[t] \in 0 .. writes',
         excused'[t] \subseteq Addresses
  PROVE  Shapes'
PROOF
<1>1. writes \in Nat
  BY DEF Values
<1>2. ASSUME NEW u \in Tasks
      PROVE  /\ call'[u] \in {"none", "read", "write"}
             /\ DOMAIN pos'[u] = DOMAIN answer'[u]
                  /\ DOMAIN buf'[u] = DOMAIN answer'[u]
             /\ value'[u] \in 0 .. writes' /\ excused'[u] \subseteq Addresses
  <2>1. CASE u = t
    BY <2>1 DEF Entered
  <2>2. CASE u # t
    <3>1. value[u] \in 0 .. writes
      BY DEF Shapes
    <3>2. value'[u] \in 0 .. writes'
      BY <1>1, <2>2, <3>1 DEF Aside
    <3> QED BY <2>2, <3>2 DEF Shapes, Aside, Entered
  <2> QED BY <2>1, <2>2
<1> QED BY <1>2 DEF Shapes, Aside, Entered

(* And every other call within its plan. *)
LEMMA AsideCalls ==
  ASSUME Calls, NEW t \in Tasks, Aside(t), NEW chunks, Entered(t, chunks),
         IF call'[t] = "none" THEN Idle(t)' ELSE Busy(t)'
  PROVE  Calls'
PROOF
<1>1. ASSUME NEW u \in Tasks, u # t
      PROVE  IF call'[u] = "none" THEN Idle(u)' ELSE Busy(u)'
  <2>1. /\ plan'[u] = plan[u] /\ answer'[u] = answer[u] /\ pos'[u] = pos[u]
        /\ call'[u] = call[u] /\ range'[u] = range[u] /\ value'[u] = value[u]
        /\ got'[u] = got[u] /\ open' = open
    BY <1>1 DEF Entered, Aside
  <2>2. Current(u)' = Current(u) /\ Dev(u)' = Dev(u)
    BY <2>1, SameChunk
  <2>3. IF call[u] = "none" THEN Idle(u) ELSE Busy(u)
    BY DEF Calls
  <2> QED BY <2>1, <2>2, <2>3 DEF Idle, Busy
<1>2. open' = open /\ cap' = cap
  BY DEF Aside
<1> QED BY <1>1, <1>2 DEF Calls

(* And every copy, since t holds none after it. *)
LEMMA AsideCopies ==
  ASSUME Copies, NEW t \in Tasks, Aside(t), NEW chunks, Entered(t, chunks)
  PROVE  Copies'
PROOF
<1>1. ASSUME NEW u \in Tasks, NEW q \in DOMAIN answer'[u], buf'[u][q] # <<>>
      PROVE  IsCopy(u, q)'
  <2>1. u # t
    BY <1>1 DEF Entered
  <2>2. /\ plan'[u] = plan[u] /\ answer'[u] = answer[u] /\ pos'[u] = pos[u]
        /\ buf'[u] = buf[u]
        /\ call'[u] = call[u] /\ UNCHANGED <<store, raced, cap>>
    BY <2>1 DEF Entered, Aside
  <2>3. IsCopy(u, q)
    BY <1>1, <2>2 DEF Copies
  <2> QED BY <2>2, <2>3, SameCopy
<1> QED BY <1>1 DEF Copies

(* And every other write as far as it was. *)
LEMMA AsideWritten ==
  ASSUME Written, NEW t \in Tasks, Aside(t), NEW chunks, Entered(t, chunks),
         call'[t] = "write" =>
           \A d \in Devices : \A a \in Span(d) \cap Of(range'[t]) :
             /\ a < Current(t)'.first => Settled(t, a, d)'
             /\ a \in Bytes(Current(t))' => UnderWay(t, a)'
  PROVE  Written'
PROOF
<1>1. ASSUME NEW u \in Tasks, u # t, call'[u] = "write", NEW d \in Devices,
             NEW a \in Span(d) \cap Of(range'[u])
      PROVE  /\ a < Current(u)'.first => Settled(u, a, d)'
             /\ a \in Bytes(Current(u))' => UnderWay(u, a)'
  <2>1. /\ plan'[u] = plan[u] /\ answer'[u] = answer[u] /\ pos'[u] = pos[u]
        /\ call'[u] = call[u] /\ range'[u] = range[u] /\ value'[u] = value[u]
        /\ UNCHANGED <<store, missed, raced>>
    BY <1>1 DEF Entered, Aside
  <2>2. /\ Settled(u, a, d) => Settled(u, a, d)'
        /\ UnderWay(u, a) => UnderWay(u, a)'
        /\ Current(u)' = Current(u)
    BY <2>1, SameWrite
  <2>3. Bytes(Current(u))' = Bytes(Current(u))
    BY <2>2 DEF Bytes
  <2> QED BY <1>1, <2>1, <2>2, <2>3 DEF Written
<1>2. ASSUME NEW u \in Tasks, call'[u] = "write", NEW d \in Devices,
             NEW a \in Span(d) \cap Of(range'[u])
      PROVE  /\ a < Current(u)'.first => Settled(u, a, d)'
             /\ a \in Bytes(Current(u))' => UnderWay(u, a)'
  <2>1. CASE u = t
    BY <1>2, <2>1
  <2>2. CASE u # t
    BY <1>1, <1>2, <2>2
  <2> QED BY <2>1, <2>2
<1> QED BY <1>2 DEF Written

(* And every other read what it has. *)
LEMMA AsideCollected ==
  ASSUME Collected, NEW t \in Tasks, Aside(t), NEW chunks, Entered(t, chunks),
         call'[t] = "read" => Gathered(t)',
         \A u \in Tasks : u # t /\ call[u] = "read" =>
           \A a \in Of(range[u]) :
             /\ held'[a] \subseteq held[a] \/ held'[a] \subseteq seen'[u][a]
             /\ seen[u][a] \subseteq seen'[u][a]
  PROVE  Collected'
PROOF
<1>1. ASSUME NEW u \in Tasks, u # t, call'[u] = "read"
      PROVE  Gathered(u)'
  <2>1. /\ plan'[u] = plan[u] /\ answer'[u] = answer[u] /\ pos'[u] = pos[u]
        /\ call'[u] = call[u] /\ range'[u] = range[u] /\ got'[u] = got[u]
    BY <1>1 DEF Entered, Aside
  <2>2. Gathered(u)
    BY <1>1, <2>1 DEF Collected
  <2> QED BY <1>1, <2>1, <2>2, SameGathered
<1>2. ASSUME NEW u \in Tasks, call'[u] = "read" PROVE Gathered(u)'
  BY <1>1, <1>2
<1> QED BY <1>2 DEF Collected

(* The range of a call is of addresses. *)
LEMMA RangeFacts ==
  ASSUME Calls, NEW t \in Tasks, call[t] # "none"
  PROVE  Of(range[t]) \subseteq Addresses
PROOF
<1>1. /\ range[t].at \in Nat /\ range[t].len \in Nat
      /\ range[t].at + range[t].len <= Total
  BY BusyFacts DEF Busy
<1>2. Len(Layout) \in 0 .. Len(Layout)
  BY LayoutFacts
<1> DEFINE n == SumTo([d \in Devices |-> Size(d, 1)], Len(Layout))
<1>3. Total \in Nat /\ n \in Nat /\ Total <= n
  BY <1>2, SumsBound DEF Total
<1>4. Addresses = 0 .. (n - 1)
  BY DEF Addresses
<1> HIDE DEF n
<1> QED BY <1>1, <1>3, <1>4 DEF Of

(* A read has no more bytes than it was asked for. *)
LEMMA GotFacts ==
  ASSUME Calls, NEW t \in Tasks, call[t] = "read", Gathered(t)
  PROVE  /\ Len(got[t]) \in Nat /\ Len(got[t]) <= range[t].len
         /\ \A i \in DOMAIN got[t] : (range[t].at + i) - 1 \in Of(range[t])
PROOF
<1> DEFINE c == Current(t)
           at == range[t].at
           n == Len(got[t])
           last == at + range[t].len - 1
<1>1. /\ c.first \in Nat /\ c.last \in Nat /\ at \in Nat /\ at <= c.first
      /\ c.first <= c.last /\ c.last <= last /\ range[t].len \in Nat
      /\ Busy(t) /\ DOMAIN answer[t] = Replicas(Dev(t)) /\ Dev(t) \in Devices
  BY BusyFacts
<1>2. \/ n = c.last + 1 - at \/ n = c.first - at
      \/ \E r \in DOMAIN answer[t] : n = pos[t][r] - at
  <2>1. CASE Answered(t, "ok") # {}
    BY <2>1 DEF Gathered, Answered
  <2>2. CASE Answered(t, "ok") = {} /\ Pending(t) = {}
    BY <2>2 DEF Gathered
  <2>3. CASE Answered(t, "ok") = {} /\ Pending(t) # {}
    <3>1. Pending(t) \in SUBSET Nat
      BY <1>1, LayoutFacts DEF Pending
    <3>2. PICK r \in Pending(t) : \A q \in Pending(t) : r <= q
      BY <2>3, <3>1, LeastExists
    <3>3. n = pos[t][r] - at
      BY <2>3, <3>2 DEF Gathered
    <3> QED BY <3>3 DEF Pending
  <2> QED BY <2>1, <2>2, <2>3
<1>3. \A r \in DOMAIN answer[t] : pos[t][r] \in c.first .. (c.last + 1)
  BY <1>1 DEF Busy
<1>4. got[t] \in Seq(Raw)
  BY DEF Gathered
<1>5. n \in Nat /\ DOMAIN got[t] = 1 .. n
  <2> DEFINE g == got[t]
  <2> HIDE DEF g
  <2>1. g \in Seq(Raw)
    BY <1>4 DEF g
  <2>2. Len(g) \in Nat /\ DOMAIN g = 1 .. Len(g)
    BY <2>1
  <2> QED BY <2>2 DEF g
<1>6. n <= range[t].len
  <2> HIDE DEF n, c, at
  <2> QED BY <1>1, <1>2, <1>3 DEF last
<1> HIDE DEF n
<1>7. \A i \in 1 .. n : (at + i) - 1 \in Of(range[t])
  <2> DEFINE m == range[t].len
  <2>1. Of(range[t]) = at .. (at + m - 1)
    BY DEF Of
  <2>2. at \in Nat /\ m \in Nat /\ n <= m
    BY <1>1, <1>6
  <2> HIDE DEF at, m
  <2> QED BY <1>5, <2>1, <2>2
<1> QED BY <1>5, <1>6, <1>7 DEF n

(* And what it has is as fresh as before, where nothing it may return is   *)
(* taken away.                                                             *)
LEMMA AsideFresh ==
  ASSUME Shapes, Calls, Writers, Collected, ReadsAreFresh,
         NEW t \in Tasks, Aside(t), FreshRead(t)',
         \A u \in Tasks : u # t /\ call[u] = "read" =>
           \A a \in Of(range[u]) : seen[u][a] \subseteq seen'[u][a]
  PROVE  ReadsAreFresh'
PROOF
<1>1. ASSUME NEW u \in Tasks PROVE FreshRead(u)'
  <2>1. CASE u = t
    BY <2>1
  <2>2. CASE u # t
    <3>1. got'[u] = got[u] /\ excused'[u] = excused[u] /\ range'[u] = range[u]
      BY <2>2 DEF Aside
    <3>2. FreshRead(u)
      BY DEF FreshRead, ReadsAreFresh
    <3>3. CASE call[u] = "read"
      <4>1. \A i \in DOMAIN got[u] : (range[u].at + i) - 1 \in Of(range[u])
        BY <3>3, GotFacts DEF Collected
      <4>2. \A i \in DOMAIN got[u] : range[u].at + i - 1 \in Of(range[u])
        <5>1. range[u].at \in Nat /\ \A i \in DOMAIN got[u] : i \in Nat
          <6>1. Gathered(u)
            BY <3>3 DEF Collected
          <6> DEFINE g == got[u]
          <6>2. g \in Seq(Raw)
            BY <6>1 DEF Gathered
          <6> HIDE DEF g
          <6>3. \A i \in DOMAIN g : i \in Nat
            BY <6>2
          <6>4. range[u].at \in Nat
            BY <3>3, BusyFacts
          <6> QED BY <6>3, <6>4 DEF g
        <5> QED BY <4>1, <5>1
      <4> QED BY <2>2, <3>1, <3>2, <3>3, <4>2 DEF FreshRead
    <3>4. CASE call[u] # "read"
      <4>1. got[u] = <<>>
        <5>1. call[u] = "write" => got[u] = <<>>
          BY DEF Writers, IsWriter
        <5>2. call[u] = "none" => got[u] = <<>>
          BY DEF Calls, Idle
        <5>3. call[u] \in {"none", "read", "write"}
          BY DEF Shapes
        <5> QED BY <3>4, <5>1, <5>2, <5>3
      <4> QED BY <3>1, <4>1 DEF FreshRead
    <3> QED BY <3>3, <3>4
  <2> QED BY <2>1, <2>2
<1> QED BY <1>1 DEF FreshRead, ReadsAreFresh

-----------------------------------------------------------------------------
(* A call starts, goes on, returns. *)

(* A call that starts is within the devices. *)
LEMMA StartFacts ==
  ASSUME Calls, open, NEW want \in Ranges, Covered(want)
  PROVE  /\ cap = Caps /\ Chained(Chunks(want), want)
         /\ Head(Chunks(want)).first = want.at
         /\ want.at + want.len <= Total
         /\ want.at \in Nat /\ want.len \in Nat \ {0}
         /\ Of(want) \subseteq Addresses
PROOF
<1>1. cap = Caps
  BY DEF Calls
<1>2. /\ Chained(Chunks(want), want) /\ Head(Chunks(want)).first = want.at
  BY <1>1, ChunksChained
<1>3. want.at \in Nat /\ want.len \in Nat \ {0}
  BY CallAssumption
<1>4. want.at + want.len <= Total
  BY <1>1 DEF Covered, End, Total
<1> DEFINE n == SumTo([d \in Devices |-> Size(d, 1)], Len(Layout))
<1>5. Total \in Nat /\ n \in Nat /\ Total <= n
  <2>1. Len(Layout) \in 0 .. Len(Layout)
    BY LayoutFacts
  <2> QED BY <2>1, SumsBound DEF Total
<1>6. Addresses = 0 .. (n - 1)
  BY DEF Addresses
<1> HIDE DEF n
<1>7. Of(want) \subseteq Addresses
  BY <1>3, <1>4, <1>5, <1>6 DEF Of
<1> QED BY <1>1, <1>2, <1>3, <1>4, <1>7

(* Where a byte may have one value more, replicas agree and keep as        *)
(* before.                                                                 *)
LEMMA HeldGrows ==
  ASSUME UNCHANGED <<store, missed, raced>>,
         \A a \in Addresses : held[a] \subseteq held'[a],
         \A a \in Addresses : \A x : held'[a] = {x} => held[a] = {x}
  PROVE  (Agreed => Agreed') /\ (Kept => Kept')
PROOF
<1>1. \A s, a : ByteAt(s, a)' = ByteAt(s, a)
  BY DEF ByteAt
<1>2. \A s, a, x : Took(s, a, x)' <=> Took(s, a, x)
  BY <1>1 DEF Took
<1>3. \A c \in Cell : c[2] \in Addresses
  <2>1. ASSUME NEW c \in Cell PROVE c[2] \in Addresses
    <3>1. PICK s \in Stores : \E a \in Span(s[1]) : c = <<s, a>>
      BY DEF Cell
    <3>2. PICK a \in Span(s[1]) : c = <<s, a>>
      BY <3>1
    <3> QED BY <3>2, CellOffset
  <2> QED BY <2>1
<1>4. \A d \in Devices : \A a \in Span(d) : a \in Addresses
  BY BaseFacts
<1>5. Agreed => Agreed'
  BY <1>1, <1>3 DEF Agreed
<1>6. ASSUME Kept, NEW d \in Devices, NEW a \in Span(d), NEW x \in held'[a],
             held'[a] = {x}
      PROVE  \E r \in Replicas(d) : Took(<<d, r>>, a, x)'
  <2>1. held[a] = {x} /\ x \in held[a]
    BY <1>4, <1>6
  <2>2. PICK r \in Replicas(d) : Took(<<d, r>>, a, x)
    BY <1>6, <2>1 DEF Kept
  <2> QED BY <1>2, <2>2
<1> QED BY <1>5, <1>6 DEF Kept

(* Controller::write starts: its bytes may have one value more, for the    *)
(* reads under way too.                                                    *)
LEMMA StartWriteKeeps ==
  ASSUME DevicesInv, NEW t \in Tasks, NEW want \in Ranges, StartWrite(t, want)
  PROVE  DevicesInv'
PROOF
<1> DEFINE n == writes + 1
           chunks == Chunks(want)
<1>1. /\ Shapes /\ Calls /\ Values /\ Copies /\ Writers /\ Written /\ Collected
      /\ Agreed /\ Kept /\ ReadsAreFresh
  BY DEF DevicesInv
<1>2. /\ open /\ call[t] = "none" /\ writes < MaxWrites /\ Covered(want)
      /\ \A a \in Of(want) : ~BeingWritten(a)
      /\ call' = [call EXCEPT ![t] = "write"]
      /\ range' = [range EXCEPT ![t] = want]
      /\ value' = [value EXCEPT ![t] = n]
      /\ Enter(t, chunks)
      /\ held' = [a \in Addresses |->
                    IF a \in Of(want) THEN held[a] \cup {n} ELSE held[a]]
      /\ seen' = [u \in Tasks |-> [a \in Addresses |->
                    IF a \in Of(want) /\ call[u] = "read" /\ a \in Of(range[u])
                      THEN seen[u][a] \cup {n} ELSE seen[u][a]]]
      /\ writes' = n
      /\ UNCHANGED <<store, open, cap, got, excused, missed, raced, faults,
           crashes>>
  BY DEF StartWrite
<1>3. Entered(t, chunks)
  BY <1>1, <1>2, EnterFacts
<1>4. /\ cap = Caps /\ Chained(chunks, want) /\ Head(chunks).first = want.at
      /\ want.at + want.len <= Total /\ want.at \in Nat
           /\ want.len \in Nat \ {0}
      /\ Of(want) \subseteq Addresses
  BY <1>1, <1>2, StartFacts
<1>5. got[t] = <<>>
  BY <1>1, <1>2 DEF Calls, Idle
<1>6. writes \in Nat /\ n \in Nat /\ n \in 1 .. n /\ n <= MaxWrites
        /\ writes <= n
      /\ n \notin 0 .. writes
  BY <1>1, <1>2, CallAssumption DEF Values
<1> HIDE DEF n, chunks
<1>7. /\ Aside(t) /\ call'[t] = "write" /\ range'[t] = want /\ value'[t] = n
      /\ got'[t] = <<>>
  BY <1>1, <1>2, <1>5 DEF Aside, Shapes
<1>8. /\ \A a \in Of(want) : held'[a] = held[a] \cup {n}
      /\ \A a \in Addresses : a \notin Of(want) => held'[a] = held[a]
      /\ \A a \in Addresses : held[a] \subseteq held'[a]
  BY <1>2, <1>4
<1>9. Shapes'
  <2>1. excused'[t] \subseteq Addresses
    BY <1>1, <1>2 DEF Shapes
  <2>2. value'[t] \in 0 .. writes'
    BY <1>2, <1>6, <1>7
  <2> QED BY <1>1, <1>2, <1>3, <1>6, <1>7, <2>1, <2>2, AsideShapes
<1>10. Busy(t)' /\ Current(t)' = Head(chunks)
  BY <1>2, <1>3, <1>4, <1>7, EnteredBusy
<1>11. Calls'
  BY <1>1, <1>3, <1>7, <1>10, AsideCalls
<1>12. \A a \in Addresses : held[a] \in SUBSET (0 .. writes) /\ held[a] # {}
  <2>1. held \in [Addresses -> SUBSET (0 .. writes)]
    BY <1>1 DEF Values
  <2> QED BY <1>1, <2>1 DEF Values
<1>13. Values'
  <2>1. held' \in [Addresses -> SUBSET (0 .. n)]
          /\ \A a \in Addresses : held'[a] # {}
    <3>1. \A a \in Addresses : held'[a] \in SUBSET (0 .. n) /\ held'[a] # {}
      <4>1. 0 .. writes \subseteq 0 .. n /\ n \in 0 .. n
        BY <1>6
      <4> QED BY <1>8, <1>12, <4>1
    <3>2. held' = [a \in Addresses |-> held'[a]]
      BY <1>2
    <3> QED BY <3>1, <3>2
  <2>2. n \in 0 .. MaxWrites
    BY <1>6, CallAssumption
  <2> QED BY <1>1, <1>2, <2>1, <2>2 DEF Values
<1>14. Copies'
  BY <1>1, <1>3, <1>7, AsideCopies
<1>15. Writers'
  <2>1. IsWriter(t)'
    <3>1. \A a \in Of(want) : n \in held'[a] /\ \E x \in held'[a] : x # n
      BY <1>4, <1>6, <1>8, <1>12
    <3> QED BY <1>2, <1>6, <1>7, <3>1 DEF IsWriter
  <2>2. ASSUME NEW u \in Tasks, u # t, call'[u] = "write"
        PROVE  /\ IsWriter(u)' /\ call[u] = "write" /\ range'[u] = range[u]
               /\ Of(range[u]) \cap Of(want) = {}
    <3>1. /\ call[u] = "write" /\ range'[u] = range[u] /\ value'[u] = value[u]
          /\ got'[u] = got[u]
      BY <1>7, <2>2 DEF Aside
    <3>2. IsWriter(u)
      BY <1>1, <3>1 DEF Writers
    <3>3. Of(range[u]) \subseteq Addresses
      BY <1>1, <3>1, RangeFacts
    <3>4. value[u] \in 1 .. n
      BY <1>6, <3>2 DEF IsWriter
    <3>5. IsWriter(u)'
      BY <1>2, <1>8, <3>1, <3>2, <3>3, <3>4 DEF IsWriter
    <3>6. Of(range[u]) \cap Of(want) = {}
      BY <1>2, <3>1 DEF BeingWritten
    <3> QED BY <3>1, <3>5, <3>6
  <2>3. \A u \in Tasks : call'[u] = "write" => IsWriter(u)'
    BY <2>1, <2>2
  <2>4. ASSUME NEW u \in Tasks, NEW v \in Tasks, u # v, call'[u] = "write",
               call'[v] = "write"
        PROVE  Of(range'[u]) \cap Of(range'[v]) = {}
    <3>1. CASE u = t
      BY <1>7, <2>2, <2>4, <3>1
    <3>2. CASE v = t
      BY <1>7, <2>2, <2>4, <3>2
    <3>3. CASE u # t /\ v # t
      BY <1>1, <2>2, <2>4, <3>3 DEF Writers
    <3> QED BY <3>1, <3>2, <3>3
  <2> QED BY <2>3, <2>4 DEF Writers
<1>16. Written'
  <2>1. ASSUME NEW d \in Devices, NEW a \in Span(d) \cap Of(range'[t])
        PROVE  /\ a < Current(t)'.first => Settled(t, a, d)'
               /\ a \in Bytes(Current(t))' => UnderWay(t, a)'
    <3>1. ~(a < Current(t)'.first)
      <4>1. Of(want) = want.at .. (want.at + want.len - 1)
        BY DEF Of
      <4>2. a \in Of(want) /\ Current(t)'.first = want.at
        BY <1>4, <1>7, <1>10
      <4> QED BY <1>4, <4>1, <4>2
    <3>2. \A r \in DOMAIN answer'[t] :
            answer'[t][r] = "pending" /\ ~(a < pos'[t][r])
      BY <1>3, <1>10, <3>1 DEF Entered
    <3>3. UnderWay(t, a)'
      BY <3>2 DEF UnderWay
    <3> QED BY <3>1, <3>3
  <2> QED BY <1>1, <1>3, <1>7, <2>1, AsideWritten
<1>17. ASSUME NEW u \in Tasks, u # t, call[u] = "read"
       PROVE  \A a \in Of(range[u]) :
                /\ held'[a] \subseteq held[a] \/ held'[a] \subseteq seen'[u][a]
                /\ seen[u][a] \subseteq seen'[u][a]
  <2>1. Of(range[u]) \subseteq Addresses
    BY <1>1, <1>17, RangeFacts
  <2>2. \A a \in Of(range[u]) : held[a] \subseteq seen[u][a]
    BY <1>1, <1>17 DEF Collected, Gathered
  <2>3. \A a \in Of(range[u]) :
          seen'[u][a]
            = IF a \in Of(want) THEN seen[u][a] \cup {n} ELSE seen[u][a]
    BY <1>2, <1>17, <2>1
  <2> QED BY <1>8, <2>1, <2>2, <2>3
<1>18. Collected'
  BY <1>1, <1>3, <1>7, <1>17, AsideCollected
<1>19. Agreed' /\ Kept'
  <2>1. \A a \in Addresses : \A x : held'[a] = {x} => held[a] = {x}
    <3>1. \A a \in Of(want) : \A x : held'[a] # {x}
      BY <1>4, <1>6, <1>8, <1>12
    <3> QED BY <1>8, <3>1
  <2> QED BY <1>1, <1>2, <1>8, <2>1, HeldGrows
<1>20. ReadsAreFresh'
  <2>1. FreshRead(t)'
    BY <1>7 DEF FreshRead
  <2> QED BY <1>1, <1>7, <1>17, <2>1, AsideFresh
<1> QED BY <1>9, <1>11, <1>13, <1>14, <1>15, <1>16, <1>18, <1>19, <1>20
        DEF DevicesInv

(* Controller::read starts: what it may return is what may be read now. *)
LEMMA StartReadKeeps ==
  ASSUME DevicesInv, NEW t \in Tasks, NEW want \in Ranges, StartRead(t, want)
  PROVE  DevicesInv'
PROOF
<1> DEFINE chunks == Chunks(want)
<1>1. /\ Shapes /\ Calls /\ Values /\ Copies /\ Writers /\ Written /\ Collected
      /\ Agreed /\ Kept /\ ReadsAreFresh
  BY DEF DevicesInv
<1>2. /\ open /\ call[t] = "none" /\ Covered(want)
      /\ call' = [call EXCEPT ![t] = "read"]
      /\ range' = [range EXCEPT ![t] = want]
      /\ Enter(t, chunks)
      /\ seen' = [seen EXCEPT ![t] =
                    [a \in Addresses |-> IF a \in Of(want) THEN held[a] ELSE {}]]
      /\ UNCHANGED <<store, open, cap, value, got, held, excused, missed,
           raced>>
      /\ UNCHANGED <<writes, faults, crashes>>
  BY DEF StartRead, bounds
<1>3. Entered(t, chunks)
  BY <1>1, <1>2, EnterFacts
<1>4. /\ cap = Caps /\ Chained(chunks, want) /\ Head(chunks).first = want.at
      /\ want.at + want.len <= Total /\ want.at \in Nat
           /\ want.len \in Nat \ {0}
      /\ Of(want) \subseteq Addresses
  BY <1>1, <1>2, StartFacts
<1>5. got[t] = <<>>
  BY <1>1, <1>2 DEF Calls, Idle
<1> HIDE DEF chunks
<1>6. /\ Aside(t) /\ call'[t] = "read" /\ range'[t] = want /\ got'[t] = <<>>
      /\ \A a \in Of(want) : seen'[t][a] = held[a]
      /\ \A u \in Tasks : u # t => seen'[u] = seen[u]
  BY <1>1, <1>2, <1>4, <1>5 DEF Aside, Shapes
<1>7. Shapes'
  <2>1. excused'[t] \subseteq Addresses /\ value'[t] \in 0 .. writes'
    BY <1>1, <1>2 DEF Shapes
  <2>2. writes' \in Nat /\ writes <= writes'
    BY <1>1, <1>2 DEF Values
  <2> QED BY <1>1, <1>3, <1>6, <2>1, <2>2, AsideShapes
<1>8. Busy(t)' /\ Current(t)' = Head(chunks)
  BY <1>2, <1>3, <1>4, <1>6, EnteredBusy
<1>9. Calls'
  BY <1>1, <1>3, <1>6, <1>8, AsideCalls
<1>10. Values' /\ Copies'
  <2>1. Copies'
    BY <1>1, <1>3, <1>6, AsideCopies
  <2> QED BY <1>1, <1>2, <2>1 DEF Values
<1>11. Writers'
  <2>1. ASSUME NEW u \in Tasks, call'[u] = "write"
        PROVE  IsWriter(u)' /\ call[u] = "write" /\ range'[u] = range[u]
    <3>1. u # t
      BY <1>6, <2>1
    <3>2. /\ call[u] = "write" /\ range'[u] = range[u] /\ value'[u] = value[u]
          /\ got'[u] = got[u]
      BY <1>6, <2>1, <3>1 DEF Aside
    <3>3. IsWriter(u)
      BY <1>1, <3>2 DEF Writers
    <3> QED BY <1>2, <3>2, <3>3 DEF IsWriter
  <2>2. \A u, v \in Tasks : u # v /\ call'[u] = "write"
          /\ call'[v] = "write" =>
          Of(range'[u]) \cap Of(range'[v]) = {}
    BY <1>1, <2>1 DEF Writers
  <2> QED BY <2>1, <2>2 DEF Writers
<1>12. Written'
  BY <1>1, <1>3, <1>6, AsideWritten
<1>13. Collected'
  <2>1. Gathered(t)'
    <3>1. /\ Current(t)'.first = want.at /\ range'[t] = want
            /\ Len(got'[t]) = 0
          /\ got'[t] \in Seq(Raw)
      BY <1>4, <1>6, <1>8
    <3>2. \A a \in Of(range'[t]) : held'[a] \subseteq seen'[t][a]
      BY <1>2, <1>6
    <3>3. \A r \in DOMAIN answer'[t] :
            answer'[t][r] = "pending" /\ pos'[t][r] = want.at
      BY <1>3, <1>4 DEF Entered
    <3>4. want.at - want.at = 0
      BY <1>4
    <3>5. \A r \in Pending(t)' : r \in DOMAIN answer'[t]
      BY DEF Pending
    <3>6. IF Pending(t)' = {} THEN Len(got'[t])
            = Current(t)'.first - range'[t].at
          ELSE \A r \in Pending(t)' :
                 IF \A q \in Pending(t)' : r <= q
                   THEN Len(got'[t]) = pos'[t][r] - range'[t].at
                   ELSE pos'[t][r] = Current(t)'.first
      BY <3>1, <3>3, <3>4, <3>5
    <3>7. \A r \in DOMAIN answer'[t] : answer'[t][r] # "ok"
      BY <3>3
    <3> QED BY <3>1, <3>2, <3>6, <3>7 DEF Gathered
  <2>2. \A u \in Tasks : u # t /\ call[u] = "read" =>
           \A a \in Of(range[u]) :
             /\ held'[a] \subseteq held[a] \/ held'[a] \subseteq seen'[u][a]
             /\ seen[u][a] \subseteq seen'[u][a]
    BY <1>2, <1>6
  <2> QED BY <1>1, <1>3, <1>6, <2>1, <2>2, AsideCollected
<1>14. Agreed' /\ Kept'
  BY <1>1, <1>2, SameBytes
<1>15. ReadsAreFresh'
  <2>1. FreshRead(t)'
    BY <1>6 DEF FreshRead
  <2>2. \A u \in Tasks : u # t /\ call[u] = "read" =>
           \A a \in Of(range[u]) : seen[u][a] \subseteq seen'[u][a]
    BY <1>6
  <2> QED BY <1>1, <1>6, <2>1, <2>2, AsideFresh
<1> QED BY <1>7, <1>9, <1>10, <1>11, <1>12, <1>13, <1>14, <1>15 DEF DevicesInv

(* A byte that is settled stays so while no byte changes. *)
LEMMA SettledStays ==
  ASSUME NEW u, UNCHANGED <<store, missed, raced>>, value'[u] = value[u],
         NEW a, NEW d, Settled(u, a, d)
  PROVE  Settled(u, a, d)'
PROOF
<1>1. \A s, x : Took(s, a, x) <=> TookNext(s, a, x)
  BY DEF Took, TookNext, ByteAt
<1>2. SettledNext(a, d, value[u])
  BY <1>1 DEF Settled, SettledNext
<1> QED BY <1>2, NextFacts

(* When every replica has answered and not all have failed                 *)
(* (LogicalDevice::write), the bytes of the chunk are settled: each        *)
(* replica has them or has missed them, and one has them.                  *)
LEMMA ThroughSettles ==
  ASSUME Calls, Written, NEW t \in Tasks, call[t] = "write", Through(t)
  PROVE  \A d \in Devices : \A a \in Span(d) \cap Of(range[t]) :
           a <= Current(t).last => Settled(t, a, d)
PROOF
<1> SUFFICES ASSUME NEW d \in Devices, NEW a \in Span(d) \cap Of(range[t]),
                    a <= Current(t).last
             PROVE  Settled(t, a, d)
  OBVIOUS
<1> DEFINE c == Current(t)
<1>1. /\ c.first \in Nat /\ c.last \in Nat /\ Dev(t) \in Devices
      /\ Bytes(c) \subseteq Of(range[t]) \cap Span(Dev(t))
      /\ DOMAIN answer[t] = Replicas(Dev(t)) /\ Busy(t)
  BY BusyFacts
<1>2. a \in Nat
  BY BaseFacts
<1>3. CASE a < c.first
  BY <1>3 DEF Written
<1>4. CASE ~(a < c.first)
  <2>1. a \in Bytes(c)
    <3> HIDE DEF c
    <3> QED BY <1>1, <1>2, <1>4 DEF Bytes, c
  <2>2. d = Dev(t)
    BY <1>1, <2>1, SpansApart
  <2>3. UnderWay(t, a)
    BY <2>1 DEF Written
  <2>4. \A r \in Replicas(d) : answer[t][r] \in {"ok", "failed"}
    BY <1>1, <2>2 DEF Through, AllAnswered, Pending, Busy
  <2>5. PICK r \in Replicas(d) : answer[t][r] = "ok"
    BY <1>1, <2>2, <2>4 DEF Through, AllFailed, Answered
  <2>6. \A q : Store(t, q) = <<d, q>>
    BY <2>2 DEF Store
  <2>7. \A q \in Replicas(d) :
          Took(<<d, q>>, a, value[t]) \/ <<<<d, q>>, a>> \in missed
    BY <1>1, <2>2, <2>3, <2>4, <2>6 DEF UnderWay
  <2>8. Took(<<d, r>>, a, value[t])
    BY <1>1, <2>2, <2>3, <2>5, <2>6 DEF UnderWay
  <2> QED BY <2>7, <2>8 DEF Settled
<1> QED BY <1>3, <1>4

(* A call goes on to its next chunk. *)
LEMMA NextChunkKeeps ==
  ASSUME DevicesInv, NEW t \in Tasks, NextChunk(t)
  PROVE  DevicesInv'
PROOF
<1> DEFINE rest == Tail(plan[t])
           c == Current(t)
           want == range[t]
<1>1. /\ Shapes /\ Calls /\ Values /\ Copies /\ Writers /\ Written /\ Collected
      /\ Agreed /\ Kept /\ ReadsAreFresh
  BY DEF DevicesInv
<1>2. /\ call[t] # "none" /\ Through(t) /\ rest # <<>> /\ Enter(t, rest)
      /\ UNCHANGED <<store, open, cap, call, range, value, got, held, seen,
                     excused, missed, raced, writes, faults, crashes>>
  BY DEF NextChunk, tracks, bounds
<1>3. /\ Chained(rest, want) /\ Head(rest).first = c.last + 1
  BY <1>1, <1>2, PlanFacts
<1>4. /\ c.first \in Nat /\ c.last \in Nat /\ open /\ Busy(t)
      /\ want \in Ranges /\ want.at + want.len <= Total /\ want.at \in Nat
  BY <1>1, <1>2, BusyFacts DEF Busy
<1>5. Entered(t, rest)
  BY <1>1, <1>2, EnterFacts
<1> HIDE DEF rest, c, want
<1>6. Aside(t)
  BY <1>1, <1>2 DEF Aside, Shapes
<1>7. Shapes'
  <2>1. /\ call'[t] \in {"none", "read", "write"} /\ writes' \in Nat
        /\ writes <= writes' /\ value'[t] \in 0 .. writes'
        /\ excused'[t] \subseteq Addresses
    BY <1>1, <1>2 DEF Shapes, Values
  <2> QED BY <1>1, <1>5, <1>6, <2>1, AsideShapes
<1>8. Busy(t)' /\ Current(t)' = Head(rest)
  <2>1. range'[t] = want /\ open'
    BY <1>2, <1>4 DEF want
  <2> QED BY <1>3, <1>4, <1>5, <2>1, EnteredBusy
<1>9. Calls'
  BY <1>1, <1>2, <1>5, <1>6, <1>8, AsideCalls
<1>10. Values' /\ Writers' /\ Copies'
  <2>1. Copies'
    BY <1>1, <1>5, <1>6, AsideCopies
  <2> QED BY <1>1, <1>2, <2>1 DEF Values, Writers, IsWriter
<1>11. Written'
  <2>1. ASSUME call'[t] = "write", NEW d \in Devices,
               NEW a \in Span(d) \cap Of(range'[t])
        PROVE  /\ a < Current(t)'.first => Settled(t, a, d)'
               /\ a \in Bytes(Current(t))' => UnderWay(t, a)'
    <3>1. call[t] = "write" /\ a \in Of(range[t]) /\ a \in Nat
      BY <1>2, <2>1, BaseFacts
    <3>2. ASSUME a < Current(t)'.first PROVE Settled(t, a, d)'
      <4>1. a <= c.last
        BY <1>3, <1>4, <1>8, <3>1, <3>2
      <4>2. Settled(t, a, d)
        BY <1>1, <1>2, <2>1, <3>1, <4>1, ThroughSettles DEF c
      <4> QED BY <1>2, <4>2, SettledStays
    <3>3. ASSUME a \in Bytes(Current(t))' PROVE UnderWay(t, a)'
      <4>1. ~(a < Head(rest).first)
        <5>1. a \in Head(rest).first .. Head(rest).last
          BY <1>8, <3>3 DEF Bytes
        <5> QED BY <1>3, <1>4, <3>1, <5>1
      <4>2. \A r \in DOMAIN answer'[t] :
              answer'[t][r] = "pending" /\ ~(a < pos'[t][r])
        BY <1>5, <4>1 DEF Entered
      <4> QED BY <4>2 DEF UnderWay
    <3> QED BY <3>2, <3>3
  <2> QED BY <1>1, <1>5, <1>6, <2>1, AsideWritten
<1>12. Collected'
  <2>1. ASSUME call'[t] = "read" PROVE Gathered(t)'
    <3>1. call[t] = "read" /\ Gathered(t)
      BY <1>1, <1>2, <2>1 DEF Collected
    <3>2. PICK r \in DOMAIN answer[t] : answer[t][r] = "ok"
      BY <1>2, <3>1 DEF Through, Answered
    <3>3. Len(got[t]) = c.last + 1 - want.at
      BY <3>1, <3>2 DEF Gathered, c, want
    <3>4. /\ Len(got'[t]) = Current(t)'.first - range'[t].at
      BY <1>2, <1>3, <1>4, <1>8, <3>3 DEF want
    <3>5. \A q \in DOMAIN answer'[t] :
            answer'[t][q] = "pending" /\ pos'[t][q] = Current(t)'.first
      BY <1>5, <1>8 DEF Entered
    <3>6. /\ got'[t] \in Seq(Raw)
          /\ \A a \in Of(range'[t]) : held'[a] \subseteq seen'[t][a]
      BY <1>2, <3>1 DEF Gathered
    <3>7. \A q \in Pending(t)' : q \in DOMAIN answer'[t]
      BY DEF Pending
    <3>8. IF Pending(t)' = {} THEN Len(got'[t])
            = Current(t)'.first - range'[t].at
          ELSE \A q \in Pending(t)' :
                 IF \A z \in Pending(t)' : q <= z
                   THEN Len(got'[t]) = pos'[t][q] - range'[t].at
                   ELSE pos'[t][q] = Current(t)'.first
      BY <3>4, <3>5, <3>7
    <3>9. \A q \in DOMAIN answer'[t] : answer'[t][q] # "ok"
      BY <3>5
    <3> QED BY <3>6, <3>8, <3>9 DEF Gathered
  <2>2. \A u \in Tasks : u # t /\ call[u] = "read" =>
           \A a \in Of(range[u]) :
             /\ held'[a] \subseteq held[a] \/ held'[a] \subseteq seen'[u][a]
             /\ seen[u][a] \subseteq seen'[u][a]
    BY <1>2
  <2> QED BY <1>1, <1>5, <1>6, <2>1, <2>2, AsideCollected
<1>13. Agreed' /\ Kept'
  BY <1>1, <1>2, SameBytes
<1>14. ReadsAreFresh'
  BY <1>1, <1>2 DEF ReadsAreFresh
<1> QED BY <1>7, <1>9, <1>10, <1>11, <1>12, <1>13, <1>14 DEF DevicesInv

(* A call returns: what it leaves to be read may be fewer values than      *)
(* before, if the replicas have them.                                      *)
LEMMA LeaveKeeps ==
  ASSUME DevicesInv, NEW t \in Tasks, Leave(t),
         UNCHANGED <<store, open, cap, missed, raced, writes, faults,
           crashes>>,
         held' \in [Addresses -> SUBSET (0 .. writes)],
         \A a \in Addresses : held'[a] # {} /\ held'[a] \subseteq held[a],
         \A u \in Tasks : u # t /\ call[u] = "write" =>
           \A a \in Of(range[u]) : held'[a] = held[a],
         Agreed', Kept'
  PROVE  DevicesInv'
PROOF
<1>1. /\ Shapes /\ Calls /\ Values /\ Copies /\ Writers /\ Written /\ Collected
      /\ Agreed /\ Kept /\ ReadsAreFresh
  BY DEF DevicesInv
<1>2. /\ call' = [call EXCEPT ![t] = "none"]
      /\ range' = [range EXCEPT ![t] = [at |-> 0, len |-> 0]]
      /\ value' = [value EXCEPT ![t] = 0]
      /\ Enter(t, <<>>)
      /\ got' = [got EXCEPT ![t] = <<>>]
      /\ seen' = [seen EXCEPT ![t] = [a \in Addresses |-> {}]]
      /\ excused' = [excused EXCEPT ![t] = {}]
  BY DEF Leave
<1>3. Entered(t, <<>>)
  BY <1>1, <1>2, EnterFacts
<1>4. /\ call'[t] = "none" /\ range'[t] = [at |-> 0, len |-> 0]
        /\ value'[t] = 0
      /\ got'[t] = <<>> /\ excused'[t] = {}
      /\ \A u \in Tasks : u # t => seen'[u] = seen[u]
  BY <1>1, <1>2 DEF Shapes
<1>5. Aside(t)
  BY <1>1, <1>2 DEF Aside, Shapes
<1>6. Shapes'
  <2>1. writes \in Nat
    BY <1>1 DEF Values
  <2>2. /\ call'[t] \in {"none", "read", "write"} /\ writes' \in Nat
        /\ writes <= writes' /\ value'[t] \in 0 .. writes'
        /\ excused'[t] \subseteq Addresses
    BY <1>4, <2>1
  <2> QED BY <1>1, <1>3, <1>5, <2>2, AsideShapes
<1>7. Calls'
  <2>1. Idle(t)'
    BY <1>3, <1>4 DEF Idle, Entered
  <2> QED BY <1>1, <1>3, <1>4, <1>5, <2>1, AsideCalls
<1>8. Values'
  BY <1>1 DEF Values
<1>9. Copies'
  BY <1>1, <1>3, <1>5, AsideCopies
<1>10. Writers'
  <2>1. ASSUME NEW u \in Tasks, call'[u] = "write"
        PROVE  IsWriter(u)' /\ call[u] = "write" /\ range'[u] = range[u]
    <3>1. u # t
      BY <1>4, <2>1
    <3>2. /\ call[u] = "write" /\ range'[u] = range[u] /\ value'[u] = value[u]
          /\ got'[u] = got[u]
      BY <1>5, <2>1, <3>1 DEF Aside
    <3>3. IsWriter(u) /\ \A a \in Of(range[u]) : held'[a] = held[a]
      BY <1>1, <3>1, <3>2 DEF Writers
    <3> QED BY <3>2, <3>3 DEF IsWriter
  <2>2. \A u, v \in Tasks : u # v /\ call'[u] = "write"
          /\ call'[v] = "write" =>
          Of(range'[u]) \cap Of(range'[v]) = {}
    BY <1>1, <2>1 DEF Writers
  <2> QED BY <2>1, <2>2 DEF Writers
<1>11. Written'
  BY <1>1, <1>3, <1>4, <1>5, AsideWritten
<1>12. Collected'
  <2>1. \A u \in Tasks : u # t /\ call[u] = "read" =>
           \A a \in Of(range[u]) :
             /\ held'[a] \subseteq held[a] \/ held'[a] \subseteq seen'[u][a]
             /\ seen[u][a] \subseteq seen'[u][a]
    BY <1>1, <1>4, RangeFacts
  <2> QED BY <1>1, <1>3, <1>4, <1>5, <2>1, AsideCollected
<1>13. ReadsAreFresh'
  <2>1. FreshRead(t)'
    BY <1>4 DEF FreshRead
  <2>2. \A u \in Tasks : u # t /\ call[u] = "read" =>
           \A a \in Of(range[u]) : seen[u][a] \subseteq seen'[u][a]
    BY <1>4
  <2> QED BY <1>1, <1>5, <2>1, <2>2, AsideFresh
<1> QED BY <1>6, <1>7, <1>8, <1>9, <1>10, <1>11, <1>12, <1>13 DEF DevicesInv

(* A call returns an error, or panics: nothing is promised or taken back. *)
LEMMA GiveUpKeeps ==
  ASSUME DevicesInv, NEW t \in Tasks, Leave(t),
         UNCHANGED <<store, open, cap, held, missed, raced, bounds>>
  PROVE  DevicesInv'
PROOF
<1>1. UNCHANGED <<writes, faults, crashes>>
  BY DEF bounds
<1>2. /\ held \in [Addresses -> SUBSET (0 .. writes)]
      /\ \A a \in Addresses : held[a] # {}
  BY DEF DevicesInv, Values
<1>3. Agreed' /\ Kept'
  BY SameBytes DEF DevicesInv
<1> QED BY <1>1, <1>2, <1>3, LeaveKeeps

(* A call returns without an error: the bytes of a write have the value    *)
(* written and no other, and that is on every replica that did not miss    *)
(* it.                                                                     *)
LEMMA SucceedKeeps ==
  ASSUME DevicesInv, NEW t \in Tasks, Succeed(t)
  PROVE  DevicesInv'
PROOF
<1>1. /\ Shapes /\ Calls /\ Values /\ Copies /\ Writers /\ Written /\ Collected
      /\ Agreed /\ Kept /\ ReadsAreFresh
  BY DEF DevicesInv
<1>2. /\ call[t] # "none" /\ Through(t) /\ Tail(plan[t]) = <<>> /\ Leave(t)
      /\ held' = [a \in Addresses |->
                    IF call[t] = "write" /\ a \in Of(range[t]) THEN {value[t]}
                    ELSE held[a]]
      /\ UNCHANGED <<store, open, cap, missed, raced, writes, faults, crashes>>
  BY DEF Succeed, bounds
<1>3. CASE call[t] # "write"
  <2>1. /\ held \in [Addresses -> SUBSET (0 .. writes)]
    BY <1>1 DEF Values
  <2>2. held' = held
    BY <1>2, <1>3, <2>1
  <2> QED BY <1>2, <2>2, GiveUpKeeps DEF bounds
<1>4. CASE call[t] = "write"
  <2>1. Of(range[t]) \subseteq Addresses
    BY <1>1, <1>2, RangeFacts
  <2>2. /\ \A a \in Of(range[t]) : held'[a] = {value[t]}
        /\ \A a \in Addresses : a \notin Of(range[t]) => held'[a] = held[a]
    BY <1>2, <1>4, <2>1
  <2>3. /\ \A a \in Of(range[t]) : value[t] \in held[a]
        /\ \A u \in Tasks : u # t /\ call[u] = "write" =>
             \A a \in Of(range[u]) : a \notin Of(range[t])
    BY <1>1, <1>4, WriterFacts
  <2>4. \A a \in Addresses : held[a] \in SUBSET (0 .. writes) /\ held[a] # {}
    <3>1. held \in [Addresses -> SUBSET (0 .. writes)]
      BY <1>1 DEF Values
    <3> QED BY <1>1, <3>1 DEF Values
  <2>5. \A a \in Addresses : held'[a] # {} /\ held'[a] \subseteq held[a]
    BY <2>2, <2>3, <2>4
  <2>6. held' \in [Addresses -> SUBSET (0 .. writes)]
    <3>1. held' = [a \in Addresses |-> held'[a]]
      BY <1>2
    <3>2. \A a \in Addresses : held'[a] \in SUBSET (0 .. writes)
      BY <2>4, <2>5
    <3> QED BY <3>1, <3>2
  <2>7. \A u \in Tasks : u # t /\ call[u] = "write" =>
           \A a \in Of(range[u]) : held'[a] = held[a]
    BY <1>1, <2>2, <2>3, RangeFacts
  <2>8. \A d \in Devices : \A a \in Span(d) \cap Of(range[t]) : Settled(t,
          a, d)
    <3>1. ASSUME NEW a \in Of(range[t]) PROVE a <= Current(t).last
      <4>1. /\ Current(t).last = range[t].at + range[t].len - 1
            /\ range[t].at \in Nat /\ range[t].len \in Nat
        BY <1>1, <1>2, PlanFacts, BusyFacts
      <4> QED BY <4>1 DEF Of
    <3> QED BY <1>1, <1>2, <1>4, <3>1, ThroughSettles
  <2>9. \A s, a : /\ ByteAt(s, a)' = ByteAt(s, a)
                  /\ \A x : Took(s, a, x)' <=> Took(s, a, x)
    BY <1>2 DEF ByteAt, Took
  <2>10. ASSUME NEW c \in Cell, c \notin missed', c \notin raced'
         PROVE  ByteAt(c[1], c[2])' \in held'[c[2]]
    <3>1. PICK s \in Stores : \E a \in Span(s[1]) : c = <<s, a>>
      BY DEF Cell
    <3>2. PICK a \in Span(s[1]) : c = <<s, a>>
      BY <3>1
    <3>3. /\ s[1] \in Devices /\ s[2] \in Replicas(s[1]) /\ s = <<s[1], s[2]>>
      BY StoresFacts
    <3>4. CASE a \in Of(range[t])
      <4>1. Took(s, a, value[t]) \/ c \in missed
        BY <2>8, <3>2, <3>3, <3>4 DEF Settled
      <4>2. ByteAt(s, a) = value[t]
        BY <1>2, <2>10, <3>2, <4>1 DEF Took
      <4> QED BY <2>2, <2>9, <3>2, <3>4, <4>2
    <3>5. CASE a \notin Of(range[t])
      <4>1. ByteAt(s, a) \in held[a]
        BY <1>1, <1>2, <2>10, <3>2 DEF Agreed
      <4>2. a \in Addresses
        BY <3>2, CellOffset
      <4> QED BY <2>2, <2>9, <3>2, <3>5, <4>1, <4>2
    <3> QED BY <3>4, <3>5
  <2>11. ASSUME NEW d \in Devices, NEW a \in Span(d), NEW x \in held'[a],
                held'[a] = {x}
         PROVE  \E r \in Replicas(d) : Took(<<d, r>>, a, x)'
    <3>1. CASE a \in Of(range[t])
      <4>1. x = value[t] /\ Settled(t, a, d)
        BY <2>2, <2>8, <2>11, <3>1
      <4>2. PICK r \in Replicas(d) : Took(<<d, r>>, a, value[t])
        BY <4>1 DEF Settled
      <4>3. Took(<<d, r>>, a, x)
        BY <4>1, <4>2
      <4> QED BY <2>9, <4>3
    <3>2. CASE a \notin Of(range[t])
      <4>1. held[a] = {x} /\ x \in held[a]
        BY <2>2, <2>11, <3>2, BaseFacts
      <4>2. PICK r \in Replicas(d) : Took(<<d, r>>, a, x)
        BY <1>1, <4>1 DEF Kept
      <4> QED BY <2>9, <4>2
    <3> QED BY <3>1, <3>2
  <2>12. Agreed' /\ Kept'
    BY <2>10, <2>11 DEF Agreed, Kept
  <2> QED BY <1>2, <2>5, <2>6, <2>7, <2>12, LeaveKeeps
<1> QED BY <1>3, <1>4

-----------------------------------------------------------------------------
(* The invariant holds in every state, and what follows from it. *)

(* A Controller is made: what it pins is what the replicas say. *)
LEMMA OpenKeeps ==
  ASSUME DevicesInv, Open
  PROVE  DevicesInv'
PROOF
<1>1. /\ Shapes /\ Calls /\ Values /\ Copies /\ Writers /\ Written /\ Collected
      /\ Agreed /\ Kept /\ ReadsAreFresh
  BY DEF DevicesInv
<1>2. /\ ~open /\ open' = TRUE
      /\ UNCHANGED <<store, call, range, value, plan, answer, pos, buf, got>>
      /\ UNCHANGED <<held, seen, excused, missed, raced, writes, faults,
           crashes>>
  BY DEF Open, calls, tracks, bounds
<1>3. cap' = Caps
  <2>1. PICK sizes \in [Devices -> {Size(s[1], s[2]) : s \in Stores}] :
          /\ \A d \in Devices : \E r \in Replicas(d) : sizes[d] = Size(d, r)
          /\ EnoughEverywhere(sizes)
          /\ cap' = sizes
    BY DEF Open
  <2>2. ASSUME NEW d \in Devices PROVE sizes[d] = Smallest(d)
    <3>1. PICK r \in Replicas(d) : sizes[d] = Size(d, r)
      BY <2>1
    <3>2. PICK q \in Replicas(d) : Smallest(d) = Size(d, q)
      BY LeastFacts
    <3>3. Smallest(d) <= Size(d, r) /\ sizes[d] <= Size(d, q)
      BY <2>1, LeastFacts DEF EnoughEverywhere
    <3>4. Size(d, r) \in Nat /\ Size(d, q) \in Nat
      BY LayoutFacts
    <3> QED BY <3>1, <3>2, <3>3, <3>4
  <2>3. sizes = [d \in Devices |-> sizes[d]]
    OBVIOUS
  <2> QED BY <2>1, <2>2, <2>3 DEF Caps
<1>4. \A t \in Tasks : call[t] = "none" /\ Idle(t)
  BY <1>1, <1>2 DEF Calls, Busy
<1>5. Shapes'
  BY <1>1, <1>2 DEF Shapes
<1>6. Calls'
  <2>1. \A t \in Tasks : call'[t] = "none" /\ Idle(t)'
    BY <1>2, <1>4 DEF Idle
  <2> QED BY <1>2, <1>3, <2>1 DEF Calls
<1>7. Values'
  BY <1>1, <1>2 DEF Values
<1>8. Copies' /\ Writers' /\ Written' /\ Collected'
  <2>1. \A t \in Tasks : call'[t] = "none" /\ DOMAIN answer'[t] = {}
    BY <1>2, <1>4 DEF Idle
  <2> QED BY <2>1 DEF Copies, Writers, Written, Collected
<1>9. Agreed' /\ Kept'
  BY <1>1, <1>2, SameBytes
<1>10. ReadsAreFresh'
  <2>1. \A t \in Tasks : got'[t] = <<>>
    BY <1>2, <1>4 DEF Idle
  <2> QED BY <2>1 DEF ReadsAreFresh
<1> QED BY <1>5, <1>6, <1>7, <1>8, <1>9, <1>10 DEF DevicesInv

(* The process dies: what is on the replicas stays, and no call is under   *)
(* way.                                                                    *)
LEMMA CrashKeeps ==
  ASSUME DevicesInv, Crash
  PROVE  DevicesInv'
PROOF
<1>1. /\ Shapes /\ Calls /\ Values /\ Copies /\ Writers /\ Written /\ Collected
      /\ Agreed /\ Kept /\ ReadsAreFresh
  BY DEF DevicesInv
<1>2. /\ crashes < MaxCrashes /\ crashes' = crashes + 1
      /\ open' = FALSE /\ cap' = [d \in Devices |-> 0]
      /\ call' = [t \in Tasks |-> "none"]
      /\ range' = [t \in Tasks |-> [at |-> 0, len |-> 0]]
      /\ value' = [t \in Tasks |-> 0]
      /\ plan' = [t \in Tasks |-> <<>>]
      /\ answer' = [t \in Tasks |-> <<>>]
      /\ pos' = [t \in Tasks |-> <<>>]
      /\ buf' = [t \in Tasks |-> <<>>]
      /\ got' = [t \in Tasks |-> <<>>]
      /\ seen' = [t \in Tasks |-> [a \in Addresses |-> {}]]
      /\ excused' = [t \in Tasks |-> {}]
      /\ UNCHANGED <<store, held, missed, raced, writes, faults>>
  BY DEF Crash
<1>3. \A t \in Tasks :
        /\ call'[t] = "none" /\ range'[t] = [at |-> 0, len |-> 0]
             /\ value'[t] = 0
        /\ DOMAIN answer'[t] = {} /\ DOMAIN pos'[t] = {} /\ DOMAIN buf'[t] = {}
        /\ got'[t] = <<>> /\ excused'[t] = {}
  BY <1>2
<1>4. Shapes'
  <2>1. writes' \in Nat
    BY <1>1, <1>2 DEF Values
  <2>2. \A t \in Tasks : value'[t] \in 0 .. writes'
    BY <1>3, <2>1
  <2> QED BY <1>2, <1>3, <2>2 DEF Shapes
<1>5. Calls'
  BY <1>2, <1>3 DEF Calls, Idle
<1>6. Values'
  <2>1. crashes' \in 0 .. MaxCrashes
    BY <1>1, <1>2, CallAssumption DEF Values
  <2> QED BY <1>1, <1>2, <2>1 DEF Values
<1>7. Copies' /\ Writers' /\ Written' /\ Collected'
  BY <1>3 DEF Copies, Writers, Written, Collected
<1>8. Agreed' /\ Kept'
  BY <1>1, <1>2, SameBytes
<1>9. ReadsAreFresh'
  BY <1>3 DEF ReadsAreFresh
<1> QED BY <1>4, <1>5, <1>6, <1>7, <1>8, <1>9 DEF DevicesInv

(* Nothing is written yet. *)
LEMMA InitHolds ==
  ASSUME Init
  PROVE  DevicesInv
PROOF
<1>1. \A t \in Tasks :
        /\ call[t] = "none" /\ range[t] = [at |-> 0, len |-> 0] /\ value[t] = 0
        /\ DOMAIN answer[t] = {} /\ DOMAIN pos[t] = {} /\ DOMAIN buf[t] = {}
        /\ got[t] = <<>> /\ excused[t] = {}
  BY DEF Init
<1>2. Shapes
  <2>1. writes = 0
    BY DEF Init
  <2>2. \A t \in Tasks : value[t] \in 0 .. writes
    BY <1>1, <2>1
  <2> QED BY <1>1, <2>2 DEF Shapes, Init
<1>3. Calls
  BY <1>1 DEF Calls, Idle, Init
<1>4. Copies /\ Writers /\ Written /\ Collected
  BY <1>1 DEF Copies, Writers, Written, Collected
<1>5. ReadsAreFresh
  BY <1>1 DEF ReadsAreFresh
<1>6. Blank \in Raw
  BY CallAssumption DEF Blank, Raw
<1>7. /\ store = [s \in Stores |-> [o \in 0 .. (Size(s[1],
        s[2]) - 1) |-> Blank]]
      /\ held = [a \in Addresses |-> {0}] /\ missed = {} /\ raced = {}
      /\ writes = 0 /\ faults = 0 /\ crashes = 0 /\ open = FALSE
  BY DEF Init
<1>8. Values
  <2>1. \A s \in Stores : store[s] \in [0 .. (Size(s[1], s[2]) - 1) -> Raw]
    BY <1>6, <1>7
  <2>2. /\ writes \in 0 .. MaxWrites /\ faults \in 0 .. MaxFaults
        /\ crashes \in 0 .. MaxCrashes
    BY <1>7, CallAssumption
  <2>3. {0} \in SUBSET (0 .. writes)
    BY <1>7
  <2>4. held \in [Addresses -> SUBSET (0 .. writes)]
          /\ \A a \in Addresses : held[a] # {}
    BY <1>7, <2>3
  <2> QED BY <1>7, <2>1, <2>2, <2>4 DEF Values
<1>9. \A s \in Stores : \A a \in Span(s[1]) : ByteAt(s, a) = 0 /\ held[a] = {0}
  <2>1. ASSUME NEW s \in Stores, NEW a \in Span(s[1])
        PROVE  ByteAt(s, a) = 0 /\ held[a] = {0}
    <3>1. a - Base(s[1]) \in 0 .. (Size(s[1], s[2]) - 1) /\ a \in Addresses
      BY CellOffset
    <3>2. store[s][a - Base(s[1])] = Blank
      BY <1>7, <3>1
    <3> QED BY <1>7, <3>1, <3>2 DEF ByteAt, Deciphered
  <2> QED BY <2>1
<1>10. Agreed
  <2>1. ASSUME NEW c \in Cell PROVE ByteAt(c[1], c[2]) \in held[c[2]]
    <3>1. PICK s \in Stores : \E a \in Span(s[1]) : c = <<s, a>>
      BY DEF Cell
    <3>2. PICK a \in Span(s[1]) : c = <<s, a>>
      BY <3>1
    <3> QED BY <1>9, <3>2
  <2> QED BY <2>1 DEF Agreed
<1>11. Kept
  <2>1. ASSUME NEW d \in Devices, NEW a \in Span(d), NEW x \in held[a],
                 held[a] = {x}
        PROVE  \E r \in Replicas(d) : Took(<<d, r>>, a, x)
    <3>1. PICK r \in Replicas(d) : TRUE
      BY LayoutFacts
    <3>2. <<d, r>> \in Stores /\ <<d, r>>[1] = d
      BY StoresFacts
    <3>3. ByteAt(<<d, r>>, a) = 0 /\ held[a] = {0}
      BY <1>9, <3>2
    <3> QED BY <2>1, <3>3 DEF Took
  <2> QED BY <2>1 DEF Kept
<1> QED BY <1>2, <1>3, <1>4, <1>5, <1>8, <1>10, <1>11 DEF DevicesInv

(* A step that changes nothing. *)
LEMMA StutterKeeps ==
  ASSUME DevicesInv, UNCHANGED vars
  PROVE  DevicesInv'
PROOF
<1>1. /\ Shapes /\ Calls /\ Values /\ Copies /\ Writers /\ Written /\ Collected
      /\ Agreed /\ Kept /\ ReadsAreFresh
  BY DEF DevicesInv
<1>2. UNCHANGED <<store, open, cap, call, range, value, plan, answer, pos, buf,
                  got, held, seen, excused, missed, raced, writes, faults,
                    crashes>>
  BY DEF vars, calls, tracks, bounds
<1>3. \A t \in Tasks : /\ Current(t)' = Current(t) /\ Dev(t)' = Dev(t)
                       /\ Pending(t)' = Pending(t)
                       /\ \A x : Answered(t, x)' = Answered(t, x)
                       /\ Bytes(Current(t))' = Bytes(Current(t))
  BY <1>2, SameRead, SameChunk DEF Bytes
<1>4. Shapes' /\ Values'
  BY <1>1, <1>2 DEF Shapes, Values
<1>5. Calls'
  <2>1. \A u \in Tasks : (Idle(u) => Idle(u)') /\ (Busy(u) => Busy(u)')
    BY <1>2, <1>3 DEF Idle, Busy
  <2> QED BY <1>1, <1>2, <2>1 DEF Calls
<1>6. Copies'
  <2>1. ASSUME NEW u \in Tasks, NEW q \in DOMAIN answer'[u], buf'[u][q] # <<>>
        PROVE  IsCopy(u, q)'
    <3>1. IsCopy(u, q)
      BY <1>1, <1>2, <2>1 DEF Copies
    <3> QED BY <1>2, <3>1, SameCopy
  <2> QED BY <2>1 DEF Copies
<1>7. Writers'
  BY <1>1, <1>2 DEF Writers, IsWriter
<1>8. Written'
  <2>1. \A u \in Tasks : \A d, a :
           /\ Settled(u, a, d) => Settled(u, a, d)'
           /\ UnderWay(u, a) => UnderWay(u, a)'
    BY <1>2, SameWrite
  <2> QED BY <1>1, <1>2, <1>3, <2>1 DEF Written
<1>9. Collected'
  <2>1. ASSUME NEW u \in Tasks, call[u] = "read" PROVE Gathered(u)'
    <3>1. Gathered(u)
      BY <1>1, <2>1 DEF Collected
    <3> QED BY <1>2, <3>1, SameGathered
  <2> QED BY <1>2, <2>1 DEF Collected
<1>10. Agreed' /\ Kept'
  BY <1>1, <1>2, SameBytes
<1>11. ReadsAreFresh'
  BY <1>1, <1>2 DEF ReadsAreFresh
<1> QED BY <1>4, <1>5, <1>6, <1>7, <1>8, <1>9, <1>10, <1>11 DEF DevicesInv

(* Only a call under way fails. *)
LEMMA FailCalls ==
  ASSUME Shapes, NEW t \in Tasks, NEW r, Fail(t, r)
  PROVE  call[t] = "read" \/ call[t] = "write"
BY DEF Fail, Shapes

(* Every step of a task keeps the invariant. *)
LEMMA StepKeeps ==
  ASSUME DevicesInv, NEW t \in Tasks, Step(t)
  PROVE  DevicesInv'
PROOF
<1>1. Shapes /\ Calls /\ Values /\ Copies
  BY DEF DevicesInv
<1>2. CASE \E want \in Ranges : StartWrite(t, want) \/ StartRead(t, want)
  BY <1>2, StartWriteKeeps, StartReadKeeps
<1>3. ASSUME NEW r, WriteFile(t, r) \/ SetSlot(t, r) PROVE DevicesInv'
  BY <1>1, <1>3, WriteFileAccess, SetSlotAccess, AccessKeeps
<1>4. ASSUME NEW r, GetSlot(t, r) \/ ReadPart(t, r) PROVE DevicesInv'
  BY <1>4, GetSlotKeeps, ReadPartReading, ReadingKeeps
<1>5. ASSUME NEW r, Fail(t, r) PROVE DevicesInv'
  <2>1. CASE call[t] = "read"
    BY <1>5, <2>1, FailReading, ReadingKeeps
  <2>2. CASE call[t] = "write"
    BY <1>1, <1>5, <2>2, FailAccess, AccessKeeps
  <2> QED BY <1>1, <1>5, <2>1, <2>2, FailCalls
<1>6. ASSUME NEW r, Panic(t, r) PROVE DevicesInv'
  <2>1. Leave(t) /\ UNCHANGED <<store, open, cap, held, missed, raced, bounds>>
    BY <1>6 DEF Panic
  <2> QED BY <2>1, GiveUpKeeps
<1>7. CASE GiveUp(t)
  <2>1. Leave(t) /\ UNCHANGED <<store, open, cap, held, missed, raced, bounds>>
    BY <1>7 DEF GiveUp
  <2> QED BY <2>1, GiveUpKeeps
<1>8. CASE NextChunk(t) \/ Succeed(t)
  BY <1>8, NextChunkKeeps, SucceedKeeps
<1> QED BY <1>2, <1>3, <1>4, <1>5, <1>6, <1>7, <1>8 DEF Step

(* In every state of Devices the invariant holds: it does at first, and    *)
(* every start, access, failure, return and crash preserves it             *)
(* (Controller, LogicalDevice, FsDevice and KVDevice).                     *)
THEOREM DevicesInvariant == Spec => []DevicesInv
PROOF
<1>1. Init => DevicesInv
  BY InitHolds
<1>2. DevicesInv /\ [Next]_vars => DevicesInv'
  BY OpenKeeps, CrashKeeps, StepKeeps, StutterKeeps DEF Next
<1> QED BY <1>1, <1>2, PTL DEF Spec

(* A byte that raw_read returns is the last one accepted there before the  *)
(* read began, or one that was being written since, but where the replica  *)
(* that answered had missed or lost a write: for any replicas, in any      *)
(* order of their accesses.                                                *)
THEOREM ReadsReturnFreshBytes == Spec => []ReadsAreFresh
PROOF
<1>1. DevicesInv => ReadsAreFresh
  BY DEF DevicesInv
<1> QED BY <1>1, DevicesInvariant, PTL

(* Every variable stays in its type: no access of raw_read or raw_write    *)
(* passes the end of its chunk, and a read collects no more than it was    *)
(* asked for.                                                              *)
THEOREM VariablesAreTyped == Spec => []TypeOK
PROOF
<1>1. ASSUME DevicesInv PROVE TypeOK
  <2>1. Shapes /\ Calls /\ Values /\ Writers /\ Collected
    BY <1>1 DEF DevicesInv
  <2>2. cap \in [Devices -> Nat]
    <3>1. Caps \in [Devices -> Nat]
      <4>1. \A d \in Devices : Smallest(d) \in Nat
        BY LeastFacts
      <4> QED BY <4>1 DEF Caps
    <3>2. [d \in Devices |-> 0] \in [Devices -> Nat]
      OBVIOUS
    <3> QED BY <2>1, <3>1, <3>2 DEF Calls
  <2>3. writes \in Nat /\ writes <= MaxWrites /\ MaxWrites \in Nat
    BY <2>1, CallAssumption DEF Values
  <2>4. ASSUME NEW t \in Tasks
        PROVE  /\ call[t] \in {"none", "read", "write"}
               /\ call[t] # "none" => range[t] \in Ranges /\ plan[t] # <<>>
               /\ value[t] \in 0 .. MaxWrites
               /\ Len(got[t]) <= range[t].len
               /\ \A r \in DOMAIN answer[t] :
                    /\ answer[t][r] \in {"pending", "ok", "failed"}
                    /\ pos[t][r] \in Current(t).first .. (Current(t).last + 1)
               /\ excused[t] \subseteq Addresses
    <3>1. /\ call[t] \in {"none", "read", "write"} /\ value[t] \in 0 .. writes
          /\ excused[t] \subseteq Addresses
      BY <2>1 DEF Shapes
    <3>2. value[t] \in 0 .. MaxWrites
      BY <2>3, <3>1
    <3>3. CASE call[t] = "none"
      <4>1. /\ DOMAIN answer[t] = {} /\ got[t] = <<>>
            /\ range[t] = [at |-> 0, len |-> 0]
        BY <2>1, <3>3 DEF Calls, Idle
      <4>2. Len(got[t]) <= range[t].len
        BY <4>1
      <4> QED BY <3>1, <3>2, <3>3, <4>1, <4>2
    <3>4. CASE call[t] # "none"
      <4>1. Busy(t)
        BY <2>1, <3>4 DEF Calls
      <4>2. plan[t] # <<>>
        BY <4>1 DEF Busy, Chained
      <4>3. Len(got[t]) <= range[t].len
        <5>1. CASE call[t] = "read"
          BY <2>1, <5>1, GotFacts DEF Collected
        <5>2. CASE call[t] = "write"
          <6>1. got[t] = <<>> /\ range[t].len \in Nat
            BY <2>1, <5>2, BusyFacts DEF Writers, IsWriter
          <6> QED BY <6>1
        <5> QED BY <3>1, <3>4, <5>1, <5>2
      <4> QED BY <3>1, <3>2, <4>1, <4>2, <4>3 DEF Busy
    <3> QED BY <3>3, <3>4
  <2>5. held \in [Addresses -> SUBSET (0 .. MaxWrites)]
    <3>1. 0 .. writes \subseteq 0 .. MaxWrites
      BY <2>3
    <3>2. held \in [Addresses -> SUBSET (0 .. writes)]
      BY <2>1 DEF Values
    <3> QED BY <3>1, <3>2
  <2>6. Cell \subseteq Stores \X Addresses
    <3>1. ASSUME NEW c \in Cell PROVE c \in Stores \X Addresses
      <4>1. PICK s \in Stores : \E a \in Span(s[1]) : c = <<s, a>>
        BY DEF Cell
      <4>2. PICK a \in Span(s[1]) : c = <<s, a>>
        BY <4>1
      <4> QED BY <4>2, CellOffset
    <3> QED BY <3>1
  <2>7. missed \subseteq Stores \X Addresses
          /\ raced \subseteq Stores \X Addresses
    BY <2>1, <2>6 DEF Values
  <2> QED BY <2>1, <2>2, <2>4, <2>5, <2>7 DEF TypeOK, Values
<1> QED BY <1>1, DevicesInvariant, PTL

(* Of a byte that nobody is writing, every replica that did not miss or    *)
(* lose it has what LogicalDevice::write stored in all of them, so that a  *)
(* read may fall back on any.                                              *)
THEOREM ReplicasStayAgreed == Spec => []ReplicasAgree
PROOF
<1>1. ASSUME DevicesInv PROVE ReplicasAgree
  <2> SUFFICES ASSUME open, NEW s \in Stores, NEW a \in Pinned(s[1]),
                        ~Stale(s, a)
               PROVE  ByteOf(s, a) \in held[a]
    BY DEF ReplicasAgree
  <2>1. cap = Caps /\ Agreed
    BY <1>1 DEF DevicesInv, Calls
  <2>2. s[1] \in Devices
    BY StoresFacts
  <2>3. a \in Span(s[1]) /\ Start(s[1]) = Base(s[1])
    BY <2>1, <2>2, OpenGeometry
  <2>4. <<s, a>> \in Cell /\ <<s, a>> \notin missed \cup raced
    BY <2>3, CellFacts DEF Stale
  <2>5. ByteAt(s, a) \in held[a]
    <3>1. <<s, a>>[1] = s /\ <<s, a>>[2] = a
      OBVIOUS
    <3> QED BY <2>1, <2>4, <3>1 DEF Agreed
  <2> QED BY <2>3, <2>5 DEF ByteOf, ByteAt, Offset
<1> QED BY <1>1, DevicesInvariant, PTL

(* What Controller::write stored before it returned without an error is on *)
(* some replica, whatever failed meanwhile and however often the process   *)
(* died, but for a slot that another write stored over it.                 *)
THEOREM AcceptedWritesStay == Spec => []AcceptedWritesAreKept
PROOF
<1>1. ASSUME DevicesInv PROVE AcceptedWritesAreKept
  <2> SUFFICES ASSUME open, NEW d \in Devices, NEW a \in Pinned(d),
                      Cardinality(held[a]) = 1
               PROVE  \E r \in Replicas(d) :
                        <<<<d, r>>, a>> \in raced
                          \/ ByteOf(<<d, r>>, a) \in held[a]
    BY DEF AcceptedWritesAreKept
  <2>1. cap = Caps /\ Kept /\ Values
    BY <1>1 DEF DevicesInv, Calls
  <2>2. a \in Span(d) /\ Start(d) = Base(d) /\ a \in Addresses
    BY <2>1, OpenGeometry, BaseFacts
  <2>3. IsFiniteSet(held[a])
    <3>1. held[a] \subseteq 0 .. writes /\ writes \in Int
      BY <2>1, <2>2 DEF Values
    <3>2. IsFiniteSet(0 .. writes)
      BY <3>1, FS_Interval
    <3> QED BY <3>1, <3>2, FS_Subset
  <2>4. PICK x : held[a] = {x}
    BY <2>3, FS_Singleton
  <2>5. PICK r \in Replicas(d) : Took(<<d, r>>, a, x)
    BY <2>1, <2>2, <2>4 DEF Kept
  <2>6. <<d, r>>[1] = d
    OBVIOUS
  <2> QED BY <2>2, <2>4, <2>5, <2>6 DEF Took, ByteOf, ByteAt, Offset
<1> QED BY <1>1, DevicesInvariant, PTL

(* What OnlyOwnBytesChange says of a step. *)
OwnBytes ==
  \A s \in Stores : \A o \in DOMAIN store[s] :
    store'[s][o] # store[s][o] =>
      LET a == o + Start(s[1])
      IN  /\ a \in Pinned(s[1])
          /\ \/ <<s, a>> \in raced
             \/ \E t \in Tasks :
                  /\ call[t] = "write" /\ a \in Of(range[t])
                  /\ store'[s][o] = Enciphered(value[t], a)

(* An access of a write changes bytes of its range, and of others only     *)
(* such as another write stored in its slot since it was copied.           *)
LEMMA AccessOwns ==
  ASSUME DevicesInv, NEW t \in Tasks, NEW r, NEW part, Access(t, r, part)
  PROVE  OwnBytes
PROOF
<1>1. Shapes /\ Calls /\ Values
  BY DEF DevicesInv
<1>2. call[t] = "write" /\ Changed(t, r, part)
  BY DEF Access
<1>3. cap = Caps /\ part \subseteq Of(range[t]) /\ part \subseteq Span(Dev(t))
  BY <1>1, <1>2, BusyFacts, PartInRange
<1> SUFFICES ASSUME NEW s \in Stores, NEW o \in DOMAIN store[s],
                    store'[s][o] # store[s][o]
             PROVE  /\ o + Start(s[1]) \in Pinned(s[1])
                    /\ \/ <<s, o + Start(s[1])>> \in raced
                       \/ \E u \in Tasks :
                            /\ call[u] = "write"
                                 /\ o + Start(s[1]) \in Of(range[u])
                            /\ store'[s][o] = Enciphered(value[u],
                                 o + Start(s[1]))
  BY DEF OwnBytes
<1> DEFINE a == o + Start(s[1])
<1>4. Start(s[1]) = Base(s[1]) /\ Pinned(s[1]) = Span(s[1])
  BY <1>3, StoresFacts, OpenGeometry
<1>5. o \in 0 .. (Size(s[1], s[2]) - 1)
  BY <1>1 DEF Values
<1>6. IF s = Store(t, r) /\ a \in part
        THEN store'[s][o] = Enciphered(value[t], a) ELSE <<s, a>> \in raced
  BY <1>2, <1>4, <1>5 DEF Changed
<1>7. CASE s = Store(t, r) /\ a \in part
  <2>1. s[1] = Dev(t)
    BY <1>7 DEF Store
  <2> HIDE DEF a
  <2> QED BY <1>2, <1>3, <1>4, <1>6, <1>7, <2>1 DEF a
<1>8. CASE ~(s = Store(t, r) /\ a \in part)
  <2>1. <<s, a>> \in Cell
    BY <1>1, <1>6, <1>8 DEF Values
  <2>2. a \in Span(s[1])
    <3> HIDE DEF a
    <3> QED BY <2>1, CellFacts
  <2> QED BY <1>4, <1>6, <1>8, <2>2
<1> QED BY <1>7, <1>8

(* A write changes the bytes of its range and no others in any replica,    *)
(* but those that a second write stored in its slot after KVDevice::write  *)
(* had read it.                                                            *)
THEOREM WritesChangeTheirOwn == Spec => OnlyOwnBytesChange
PROOF
<1>1. ASSUME DevicesInv, [Next]_vars PROVE OwnBytes
  <2>1. Shapes /\ Calls /\ Values /\ Copies
    BY <1>1 DEF DevicesInv
  <2>2. ASSUME NEW t \in Tasks, NEW r,
               WriteFile(t, r) \/ SetSlot(t, r) \/ (Fail(t, r)
                 /\ call[t] = "write")
        PROVE  OwnBytes
    BY <1>1, <2>1, <2>2, WriteFileAccess, SetSlotAccess, FailAccess, AccessOwns
  <2>3. ASSUME store' = store PROVE OwnBytes
    BY <2>3 DEF OwnBytes
  <2>4. ASSUME NEW t \in Tasks, Step(t) PROVE OwnBytes
    <3>1. CASE \E want \in Ranges : StartWrite(t, want) \/ StartRead(t, want)
      BY <2>3, <3>1 DEF StartWrite, StartRead
    <3>2. ASSUME NEW r, GetSlot(t, r) \/ ReadPart(t, r) \/ Panic(t, r)
          PROVE  OwnBytes
      BY <2>3, <3>2 DEF GetSlot, ReadPart, Panic
    <3>3. ASSUME NEW r, Fail(t, r), call[t] = "read" PROVE OwnBytes
      <4>1. Reading(t, r)
        BY <1>1, <3>3, FailReading
      <4> QED BY <2>3, <4>1 DEF Reading
    <3>4. CASE NextChunk(t) \/ Succeed(t) \/ GiveUp(t)
      BY <2>3, <3>4 DEF NextChunk, Succeed, GiveUp
    <3> QED BY <2>1, <2>2, <2>4, <3>1, <3>2, <3>3, <3>4, FailCalls DEF Step
  <2>5. CASE Open \/ Crash
    BY <2>3, <2>5 DEF Open, Crash
  <2>6. CASE UNCHANGED vars
    BY <2>3, <2>6 DEF vars
  <2> QED BY <1>1, <2>4, <2>5, <2>6 DEF Next
<1>2. DevicesInv /\ [Next]_vars => [OwnBytes]_vars
  BY <1>1
<1>3. Spec => [][OwnBytes]_vars
  BY <1>2, DevicesInvariant, PTL DEF Spec
<1>4. OnlyOwnBytesChange <=> [][OwnBytes]_vars
  BY DEF OnlyOwnBytesChange, OwnBytes
<1> QED BY <1>3, <1>4

-----------------------------------------------------------------------------
(* What a Controller pins, which needs no more than its own guard. *)

(* Open is the only step that makes a Controller, and of the sizes that    *)
(* may come first it takes only those that no replica falls short of.      *)
LEMMA OpenTakesLeast == Open => CapacityIsLeast'
BY DEF Open, EnoughEverywhere, CapacityIsLeast, Replicas, Size, Devices

(* No access changes what validate_layout found. *)
LEMMA StepsKeepCapacity ==
  ASSUME NEW t \in Tasks, Step(t)
  PROVE  UNCHANGED <<open, cap>>
<1>1. ASSUME NEW want \in Ranges, StartWrite(t, want) \/ StartRead(t, want)
      PROVE  UNCHANGED <<open, cap>>
  BY <1>1 DEF StartWrite, StartRead
<1>2. ASSUME NEW r \in DOMAIN answer[t],
             \/ WriteFile(t, r) \/ GetSlot(t, r) \/ SetSlot(t, r)
             \/ ReadPart(t, r) \/ Fail(t, r) \/ Panic(t, r)
      PROVE  UNCHANGED <<open, cap>>
  BY <1>2 DEF WriteFile, GetSlot, SetSlot, ReadPart, Fail, Panic
<1>3. CASE NextChunk(t) \/ Succeed(t) \/ GiveUp(t)
  BY <1>3 DEF NextChunk, Succeed, GiveUp
<1>4. QED
  BY <1>1, <1>2, <1>3 DEF Step

(* For any devices, and any order in which their replicas answer: what a   *)
(* Controller pins is the size of the smallest replica, so that every      *)
(* start finds the same addresses and every access is within every         *)
(* replica (LogicalDevice::validate_layout, Controller::from).             *)
THEOREM CapacityIsDetermined == Spec => []CapacityIsLeast
<1>1. Init => CapacityIsLeast
  BY DEF Init, CapacityIsLeast
<1>2. CapacityIsLeast /\ [Next]_vars => CapacityIsLeast'
  <2>1. CASE Open
    BY <2>1, OpenTakesLeast
  <2>2. CASE Crash
    BY <2>2 DEF Crash, CapacityIsLeast
  <2>3. ASSUME CapacityIsLeast, NEW t \in Tasks, Step(t)
        PROVE  CapacityIsLeast'
    BY <2>3, StepsKeepCapacity DEF CapacityIsLeast
  <2>4. ASSUME CapacityIsLeast, UNCHANGED vars
        PROVE  CapacityIsLeast'
    BY <2>4 DEF vars, CapacityIsLeast
  <2>5. QED
    BY <2>1, <2>2, <2>3, <2>4 DEF Next
<1>3. QED
  BY <1>1, <1>2, PTL DEF Spec
=============================================================================
