--------------------------- MODULE BitmapsProofs ---------------------------
(***************************************************************************)
(* Proofs about the scan of runs_of, for bitmaps of any length and bytes   *)
(* of any width.                                                           *)
(***************************************************************************)
EXTENDS Bitmaps, TLAPS

-----------------------------------------------------------------------------
(* Operators. *)

LEMMA Division ==
  ASSUME NEW n \in Nat
  PROVE  /\ n \div ByteBits \in Nat
         /\ n % ByteBits \in 0 .. (ByteBits - 1)
         /\ n = (n \div ByteBits) * ByteBits + (n % ByteBits)
  BY BitsAssumption, SMT

LEMMA Multiples ==
  ASSUME NEW a \in Nat
  PROVE  /\ a * ByteBits \in Nat
         /\ (a + 1) * ByteBits = a * ByteBits + ByteBits
  BY BitsAssumption, SMT

LEMMA MultiplesGrow ==
  ASSUME NEW a \in Nat, NEW b \in Nat, a <= b
  PROVE  a * ByteBits <= b * ByteBits
  BY BitsAssumption, SMT

(* The bits that a byte brings: where they end.                            *)
LEMMA ByteEnds ==
  ASSUME TypeOK, index < Bytes
  PROVE  /\ Bytes \in Nat /\ index + 1 \in 0 .. Bytes
         /\ ValidBits \in 1 .. ByteBits
         /\ EndOf(index) = index * ByteBits
         /\ EndOf(index + 1) = index * ByteBits + ValidBits
         /\ index * ByteBits + ValidBits <= limit
         /\ index = FullBytes /\ RemBits # 0 => ValidBits = RemBits
         /\ ~(index = FullBytes /\ RemBits # 0) => ValidBits = ByteBits
<1>1. limit \in Nat /\ index \in Nat
  BY BitsAssumption DEF TypeOK
<1>2. /\ FullBytes \in Nat /\ RemBits \in 0 .. (ByteBits - 1)
      /\ limit = FullBytes * ByteBits + RemBits
  BY <1>1, Division DEF FullBytes, RemBits
<1>3. Bytes \in Nat /\ index <= FullBytes
  BY <1>1, <1>2 DEF Bytes
<1>4. /\ index * ByteBits \in Nat
      /\ (index + 1) * ByteBits = index * ByteBits + ByteBits
      /\ FullBytes * ByteBits \in Nat
  BY <1>1, <1>2, Multiples
<1>5. CASE index = FullBytes
  <2>1. RemBits # 0 /\ Bytes = FullBytes + 1
    BY <1>2, <1>5 DEF Bytes
  <2>2. ValidBits = RemBits
    BY <1>2, <1>5, <2>1 DEF ValidBits
  <2> QED
    BY <1>1, <1>2, <1>4, <1>5, <2>1, <2>2, BitsAssumption DEF EndOf
<1>6. CASE index < FullBytes
  <2>1. ValidBits = ByteBits
    BY <1>6 DEF ValidBits
  <2>2. (index + 1) * ByteBits <= FullBytes * ByteBits
    BY <1>1, <1>2, <1>6, MultiplesGrow
  <2>3. EndOf(index + 1) = (index + 1) * ByteBits
    <3>1. CASE index + 1 = Bytes
      <4>1. RemBits = 0 /\ FullBytes = index + 1
        BY <1>1, <1>2, <1>6, <3>1 DEF Bytes
      <4> QED BY <1>2, <1>4, <4>1 DEF EndOf
    <3>2. CASE index + 1 # Bytes
      BY <3>2 DEF EndOf
    <3> QED BY <3>1, <3>2
  <2> QED
    BY <1>1, <1>2, <1>3, <1>4, <1>6, <2>1, <2>2, <2>3, BitsAssumption
    DEF EndOf
<1> QED
  BY <1>1, <1>2, <1>3, <1>5, <1>6

(* Whatever the padding holds, the word shows the bits asked for.          *)
LEMMA WordShows ==
  ASSUME TypeOK, index < Bytes, NEW junk
  PROVE  /\ Word(junk) \subseteq AllBits
         /\ \A k \in AllBits : k \in Word(junk) <=>
              k < ValidBits /\ Match(index * ByteBits + k)
<1>1. /\ ValidBits \in 1 .. ByteBits /\ index * ByteBits \in Nat
      /\ index * ByteBits + ValidBits <= limit
      /\ index = FullBytes /\ RemBits # 0 => ValidBits = RemBits
      /\ ~(index = FullBytes /\ RemBits # 0) => ValidBits = ByteBits
      /\ limit \in Nat
  <2>1. index \in Nat /\ limit \in Nat
    BY BitsAssumption DEF TypeOK
  <2> QED BY <2>1, ByteEnds, Multiples
<1>2. \A k \in AllBits : k < ValidBits =>
        (k \in Stored(junk) <=> index * ByteBits + k \in ones)
  BY <1>1, BitsAssumption DEF Stored, AllBits
<1>3. \A w : /\ Masked(w) \subseteq w
             /\ \A k \in AllBits : k \in Masked(w) =>
                  k < ValidBits
             /\ \A k \in AllBits : k < ValidBits /\ k \in w => k \in Masked(w)
  <2> SUFFICES ASSUME NEW w
               PROVE  /\ Masked(w) \subseteq w
                      /\ \A k \in AllBits : k \in Masked(w) => k < ValidBits
                      /\ \A k \in AllBits : k < ValidBits /\ k \in w
                                              => k \in Masked(w)
    OBVIOUS
  <2>1. CASE index = FullBytes /\ RemBits # 0
    BY <1>1, <2>1, BitsAssumption DEF Masked, AllBits
  <2>2. CASE ~(index = FullBytes /\ RemBits # 0)
    BY <1>1, <2>2, BitsAssumption DEF Masked, AllBits
  <2> QED BY <2>1, <2>2
<1>4. Stored(junk) \subseteq AllBits
  BY DEF Stored
<1>5. Word(junk) \subseteq AllBits
  BY <1>3, <1>4 DEF Word
<1>6. ASSUME NEW k \in AllBits
      PROVE  k \in Word(junk) <=> k < ValidBits /\ Match(index * ByteBits + k)
  <2>1. CASE target
    BY <1>2, <1>3, <1>6, <2>1 DEF Word, Match
  <2>2. CASE ~target
    <3>1. k \in Word(junk) <=> k < ValidBits /\ k \notin Masked(Stored(junk))
      BY <1>3, <1>6, <2>2 DEF Word
    <3>2. k < ValidBits =>
            (k \in Masked(Stored(junk)) <=> index * ByteBits + k \in ones)
      BY <1>2, <1>3, <1>6
    <3>3. Match(index * ByteBits + k) <=> index * ByteBits + k \notin ones
      BY <2>2 DEF Match
    <3> QED BY <3>1, <3>2, <3>3
  <2> QED BY <2>1, <2>2
<1> QED
  BY <1>5, <1>6

-----------------------------------------------------------------------------
(* What the scan collects. *)

(* Two runs that go on to the same place began at the same place.          *)
LEMMA OneBeginning ==
  ASSUME NEW s \in Nat, NEW r \in Nat, NEW n \in Nat, s < n, r < n,
         \A i \in s .. (n - 1) : Match(i), s = 0 \/ ~Match(s - 1),
         \A i \in r .. (n - 1) : Match(i), r = 0 \/ ~Match(r - 1)
  PROVE  s = r
<1>1. CASE s < r
  <2>1. r - 1 \in s .. (n - 1)
    BY <1>1
  <2> QED BY <1>1, <2>1
<1>2. CASE r < s
  <2>1. s - 1 \in r .. (n - 1)
    BY <1>2
  <2> QED BY <1>2, <2>1
<1> QED
  BY <1>1, <1>2

(* At a bit that does not match, or at the end, the run under way is the   *)
(* only one that is not collected.                                         *)
LEMMA CloseRun ==
  ASSUME TypeOK, UnderWay, pc = "scan", runs = RunsBefore(cur),
         NEW n \in Nat, cur < n, n <= limit + 1,
         \A i \in cur .. (n - 1) : i < limit => ~Match(i)
  PROVE  Closed = RunsBefore(n)
<1>1. limit \in Nat /\ cur \in 0 .. limit /\ open \subseteq 0 .. (limit - 1)
  BY BitsAssumption DEF TypeOK
<1>2. ASSUME NEW r \in Closed
      PROVE  r \in RunsBefore(n)
  <2>1. CASE r \in runs
    <3>1. PICK y \in (0 .. limit) \X (0 .. limit) :
            IsRun(y[1], y[2]) /\ y[2] < cur /\ r = Run(y[1], y[2])
      BY <2>1 DEF RunsBefore
    <3>2. y[2] < n
      BY <1>1, <3>1
    <3> QED BY <3>1, <3>2 DEF RunsBefore
  <2>2. CASE r \notin runs
    <3>1. PICK s \in open : r = Run(s, cur)
      BY <1>2, <2>2 DEF Closed
    <3>2. IsRun(s, cur)
      BY <1>1, <3>1 DEF UnderWay, IsRun
    <3> DEFINE y == <<s, cur>>
    <3>3. y \in (0 .. limit) \X (0 .. limit) /\ y[1] = s /\ y[2] = cur
      BY <1>1, <3>1
    <3> QED BY <3>1, <3>2, <3>3 DEF RunsBefore
  <2> QED BY <2>1, <2>2
<1>3. ASSUME NEW r \in RunsBefore(n)
      PROVE  r \in Closed
  <2>1. PICK y \in (0 .. limit) \X (0 .. limit) :
          IsRun(y[1], y[2]) /\ y[2] < n /\ r = Run(y[1], y[2])
    BY <1>3 DEF RunsBefore
  <2> DEFINE s == y[1]
             e == y[2]
  <2>2. s \in 0 .. limit /\ e \in 0 .. limit /\ IsRun(s, e) /\ e < n
        /\ r = Run(s, e)
    BY <2>1
  <2>3. CASE e < cur
    BY <2>1, <2>3 DEF RunsBefore, Closed
  <2> HIDE DEF s, e
  <2>4. CASE e = cur
    <3>1. Match(cur - 1) /\ cur # 0
      BY <1>1, <2>2, <2>4 DEF IsRun
    <3>2. PICK b \in open : TRUE
      BY <3>1 DEF UnderWay
    <3>3. b = s
      <4>1. /\ b \in Nat /\ s \in Nat /\ cur \in Nat
            /\ b < cur /\ s < cur
        BY <1>1, <2>2, <2>4, <3>2 DEF UnderWay, IsRun
      <4>2. /\ \A i \in b .. (cur - 1) : Match(i)
            /\ b = 0 \/ ~Match(b - 1)
        BY <3>2 DEF UnderWay
      <4>3. /\ \A i \in s .. (cur - 1) : Match(i)
            /\ s = 0 \/ ~Match(s - 1)
        BY <2>2, <2>4 DEF IsRun
      <4> QED BY <4>1, <4>2, <4>3, OneBeginning
    <3> QED BY <2>2, <2>4, <3>2, <3>3 DEF Closed
  <2>5. CASE e > cur
    <3>1. e - 1 \in cur .. (n - 1) /\ e - 1 < limit
      BY <1>1, <2>2, <2>5
    <3>2. Match(e - 1)
      BY <2>2 DEF IsRun
    <3> QED BY <3>1, <3>2
  <2> QED BY <1>1, <2>2, <2>3, <2>4, <2>5
<1> QED
  BY <1>2, <1>3

(* Over bits that match nothing ends.                                      *)
LEMMA KeepRun ==
  ASSUME TypeOK, runs = RunsBefore(cur), NEW n \in Nat, cur < n, n <= limit,
         \A i \in cur .. (n - 1) : Match(i)
  PROVE  runs = RunsBefore(n)
<1>1. limit \in Nat /\ cur \in 0 .. limit
  BY BitsAssumption DEF TypeOK
<1>2. ASSUME NEW y \in (0 .. limit) \X (0 .. limit),
             IsRun(y[1], y[2]), y[2] < n
      PROVE  y[2] < cur
  BY <1>1, <1>2 DEF IsRun
<1>3. ASSUME NEW y \in (0 .. limit) \X (0 .. limit), y[2] < cur
      PROVE  y[2] < n
  BY <1>1, <1>3
<1>4. {y \in (0 .. limit) \X (0 .. limit) : IsRun(y[1], y[2]) /\ y[2] < cur}
      = {y \in (0 .. limit) \X (0 .. limit) : IsRun(y[1], y[2]) /\ y[2] < n}
  BY <1>2, <1>3
<1> QED
  BY <1>4 DEF RunsBefore

LEMMA SameBits ==
  ASSUME UNCHANGED <<ones, target, limit>>
  PROVE  /\ \A n : RunsBefore(n)' = RunsBefore(n)
         /\ \A i : Match(i)' <=> Match(i)
         /\ Bytes' = Bytes
         /\ \A i : EndOf(i)' = EndOf(i)
  BY DEF RunsBefore, IsRun, Match, Run, Bytes, RemBits, FullBytes, EndOf

LEMMA ZerosStep ==
  ASSUME TypeOK, UnderWay, Collected, pc = "scan",
         NEW n \in Nat, cur < n, n <= limit,
         \A i \in cur .. (n - 1) : ~Match(i),
         runs' = Closed, open' = {}, cur' = n,
         UNCHANGED <<ones, target, limit>>
  PROVE  UnderWay' /\ Collected'
<1>1. cur \in Nat /\ limit \in Nat
  BY BitsAssumption DEF TypeOK
<1>2. ~Match(n - 1)
  BY <1>1
<1>3. Closed = RunsBefore(n)
  BY <1>1, CloseRun DEF Collected
<1> QED
  BY <1>2, <1>3, SameBits DEF UnderWay, Collected

LEMMA OnesStep ==
  ASSUME TypeOK, UnderWay, Collected, pc = "scan",
         NEW n \in Nat, cur < n, n <= limit,
         \A i \in cur .. (n - 1) : Match(i),
         runs' = runs, open' = Opened, cur' = n,
         UNCHANGED <<ones, target, limit>>
  PROVE  UnderWay' /\ Collected'
<1>1. cur \in Nat /\ limit \in Nat /\ open \subseteq Nat
  BY BitsAssumption DEF TypeOK
<1>2. runs = RunsBefore(n)
  BY KeepRun DEF Collected
<1>3. ASSUME NEW s \in Opened
      PROVE  /\ s < n /\ (\A i \in s .. (n - 1) : Match(i))
             /\ s = 0 \/ ~Match(s - 1)
             /\ Opened = {s}
  <2>1. CASE open = {}
    BY <1>1, <1>3, <2>1 DEF Opened, UnderWay
  <2>2. CASE open # {}
    <3>1. s \in open /\ Opened = open
      BY <1>3, <2>2 DEF Opened
    <3>2. /\ s \in Nat /\ s < cur /\ open = {s}
          /\ s = 0 \/ ~Match(s - 1)
          /\ \A i \in s .. (cur - 1) : Match(i)
      BY <1>1, <3>1 DEF UnderWay
    <3>3. \A i \in s .. (n - 1) : Match(i)
      BY <1>1, <3>2
    <3> QED BY <1>1, <3>1, <3>2, <3>3
  <2> QED BY <2>1, <2>2
<1>4. Opened # {}
  BY DEF Opened
<1> QED
  BY <1>2, <1>3, <1>4, SameBits DEF UnderWay, Collected

-----------------------------------------------------------------------------
(* The invariant. *)

(* The bytes that m bits take. *)
LEMMA Count ==
  ASSUME NEW m \in Nat
  PROVE  LET full == m \div ByteBits
             rest == m % ByteBits
             n == IF rest = 0 THEN full ELSE full + 1
         IN  n \in Nat /\ (n = 0 => m = 0)
<1> DEFINE full == m \div ByteBits
           rest == m % ByteBits
<1>1. /\ full \in Nat /\ rest \in 0 .. (ByteBits - 1)
      /\ m = full * ByteBits + rest
  BY Division
<1> HIDE DEF full, rest
<1>2. full = 0 => full * ByteBits = 0
  BY BitsAssumption
<1> QED
  BY <1>1, <1>2 DEF full, rest

LEMMA ByteCount ==
  ASSUME limit \in Nat
  PROVE  Bytes \in Nat /\ EndOf(0) = 0
<1>1. Bytes \in Nat /\ (Bytes = 0 => limit = 0)
  BY Count DEF Bytes, FullBytes, RemBits
<1> QED
  BY <1>1, BitsAssumption DEF EndOf

LEMMA ByteCountNext ==
  ASSUME limit' \in Nat
  PROVE  Bytes' \in Nat /\ (Bytes' = 0 => limit' = 0)
  BY Count DEF Bytes, FullBytes, RemBits

(* Where the bytes end, while the range stays.                             *)
LEMMA SameEnd ==
  ASSUME UNCHANGED limit
  PROVE  Bytes' = Bytes /\ EndOf(index)' = EndOf(index')
  BY DEF Bytes, FullBytes, RemBits, EndOf

LEMMA NoRunsBeforeStart ==
  ASSUME limit \in Nat
  PROVE  RunsBefore(0) = {} /\ (limit = 0 => RunsBefore(1) = {})
<1>1. \A y \in (0 .. limit) \X (0 .. limit) : ~(y[2] < 0)
  OBVIOUS
<1>2. limit = 0 => \A y \in (0 .. limit) \X (0 .. limit) : ~IsRun(y[1], y[2])
  BY DEF IsRun
<1> QED
  BY <1>1, <1>2 DEF RunsBefore

LEMMA InitHolds == Init => IInv
<1> SUFFICES ASSUME Init PROVE IInv
  OBVIOUS
<1> USE DEF Init
<1>1. TypeOK
  <2>1. index \in 0 .. Bytes /\ limit \in 0 .. len /\ cur \in 0 .. limit
        /\ left \in 0 .. ByteBits
    BY ByteCount, BitsAssumption
  <2>2. target \in BOOLEAN /\ pc \in {"idle", "scan", "done"}
    OBVIOUS
  <2> QED BY <2>1, <2>2 DEF TypeOK
<1>2. AtRest /\ UnderWay /\ RunsAreMaximal
  BY DEF AtRest, UnderWay, RunsAreMaximal
<1>3. Position
  BY BitsAssumption DEF Position
<1>4. Collected
  BY NoRunsBeforeStart DEF Collected
<1> QED
  BY <1>1, <1>2, <1>3, <1>4 DEF IInv

(* Bits change between scans only. *)
LEMMA ChangeKeeps ==
  ASSUME IInv, pc = "idle", NEW S \in SUBSET (0 .. (len - 1)), NEW v \in BOOLEAN,
         ones' = Changed(S, v), UNCHANGED <<len, pc, scan>>
  PROVE  IInv'
<1> USE DEF scan
<1>1. ones' \subseteq 0 .. (len - 1)
  BY DEF IInv, TypeOK, Changed
<1>2. Bytes' = Bytes /\ limit \in Nat
  BY BitsAssumption DEF IInv, TypeOK, Bytes, FullBytes, RemBits
<1>3. TypeOK'
  BY <1>1, <1>2 DEF IInv, TypeOK
<1>4. AtRest'
  BY DEF IInv, AtRest
<1>5. Position'
  BY BitsAssumption DEF IInv, AtRest, Position
<1>6. UnderWay' /\ RunsAreMaximal'
  BY DEF IInv, AtRest, UnderWay, RunsAreMaximal
<1>7. RunsBefore(0)' = {}
  <2>1. \A y \in (0 .. limit') \X (0 .. limit') : ~(y[2] < 0)
    BY <1>2
  <2> QED BY <2>1 DEF RunsBefore
<1>8. Collected'
  BY <1>7 DEF IInv, AtRest, Collected
<1> QED
  BY <1>3, <1>4, <1>5, <1>6, <1>8 DEF IInv

LEMMA RunsOfKeeps ==
  ASSUME IInv, NEW bit \in BOOLEAN, NEW stop \in 0 .. MaxBits, RunsOf(bit, stop)
  PROVE  IInv'
<1> USE DEF RunsOf
<1>1. /\ limit' \in 0 .. len /\ limit' \in Nat /\ target' \in BOOLEAN
      /\ pc' \in {"scan", "done"} /\ (pc' = "done" => limit' = 0)
  BY BitsAssumption DEF IInv, TypeOK
<1>2. index' = 0 /\ cur' = 0 /\ open' = {} /\ runs' = {} /\ left' = 0
  BY DEF IInv, AtRest
<1>3. Bytes' \in Nat /\ EndOf(index)' = 0
  <2>1. Bytes' \in Nat /\ (Bytes' = 0 => limit' = 0)
    BY <1>1, ByteCountNext
  <2> QED BY <1>2, <2>1, BitsAssumption DEF EndOf
<1>4. TypeOK'
  BY <1>1, <1>2, <1>3, BitsAssumption DEF IInv, TypeOK
<1>5. AtRest'
  BY <1>1, <1>2 DEF AtRest
<1>6. Position'
  BY <1>2, <1>3, BitsAssumption DEF Position
<1>7. UnderWay'
  BY <1>2 DEF UnderWay
<1>8. RunsBefore(0)' = {} /\ (limit' = 0 => RunsBefore(1)' = {})
  <2>1. \A y \in (0 .. limit') \X (0 .. limit') : ~(y[2] < 0)
    BY <1>1
  <2>2. limit' = 0 => \A y \in (0 .. limit') \X (0 .. limit') : ~(y[1] < y[2])
    OBVIOUS
  <2> QED BY <2>1, <2>2 DEF RunsBefore, IsRun
<1>9. Collected' /\ RunsAreMaximal'
  <2>1. pc' = "done" => limit' + 1 = 1
    BY <1>1
  <2> QED BY <1>2, <1>8, <2>1 DEF Collected, RunsAreMaximal
<1> QED
  BY <1>4, <1>5, <1>6, <1>7, <1>9 DEF IInv

(* What a byte brings, counted from where the scan is.                     *)
LEMMA ByteRead ==
  ASSUME IInv, Scanning
  PROVE  /\ cur \in Nat /\ limit \in Nat /\ left = 0 /\ pc = "scan"
         /\ ValidBits \in 1 .. ByteBits
         /\ cur + ValidBits <= limit
         /\ index + 1 \in 0 .. Bytes
         /\ EndOf(index + 1) = cur + ValidBits
         /\ \A junk : /\ Word(junk) \subseteq AllBits
                      /\ \A k \in AllBits : k \in Word(junk) <=>
                           k < ValidBits /\ Match(cur + k)
<1>1. TypeOK /\ index < Bytes /\ left = 0 /\ pc = "scan"
  BY DEF IInv, Scanning
<1>2. cur \in Nat /\ limit \in Nat
  BY <1>1, BitsAssumption DEF TypeOK
<1>3. cur = index * ByteBits
  BY <1>1, <1>2, ByteEnds DEF IInv, Position
<1> QED
  BY <1>1, <1>2, <1>3, ByteEnds, WordShows

(* The bits of a byte, as bits of the map.                                 *)
LEMMA BitsOfByte ==
  ASSUME NEW c \in Nat, NEW v \in 1 .. ByteBits, NEW i \in c .. (c + v - 1)
  PROVE  i - c \in AllBits /\ i - c < v /\ c + (i - c) = i
  BY BitsAssumption DEF AllBits

LEMMA ZeroByteKeeps == IInv /\ ZeroByte => IInv'
<1> SUFFICES ASSUME IInv, ZeroByte PROVE IInv'
  OBVIOUS
<1> DEFINE n == cur + ValidBits
<1>1. Scanning /\ runs' = Closed /\ open' = {} /\ cur' = n
      /\ index' = index + 1 /\ UNCHANGED <<len, ones, pc, target, limit, word, left>>
  BY DEF ZeroByte, Skip
<1>2. /\ cur \in Nat /\ limit \in Nat /\ left = 0 /\ pc = "scan"
      /\ ValidBits \in 1 .. ByteBits
      /\ n <= limit /\ index + 1 \in 0 .. Bytes /\ EndOf(index + 1) = n
  BY <1>1, ByteRead
<1>3. \A i \in cur .. (n - 1) : ~Match(i)
  <2>1. PICK junk \in SUBSET AllBits : Word(junk) = {}
    BY DEF ZeroByte, IsZero
  <2>2. \A k \in AllBits : ~(k < ValidBits /\ Match(cur + k))
    BY <1>1, <2>1, ByteRead
  <2> QED BY <1>2, <2>2, BitsOfByte
<1>4. n \in Nat /\ cur < n
  BY <1>2, BitsAssumption
<1>5. UnderWay' /\ Collected'
  BY <1>1, <1>2, <1>3, <1>4, ZerosStep DEF IInv
<1>6. Bytes' = Bytes /\ EndOf(index)' = EndOf(index + 1)
  BY <1>1, SameEnd
<1>7. TypeOK'
  <2>1. Closed \subseteq [start : Nat, size : Nat]
    <3>1. \A s \in open : s \in Nat /\ s < cur
      BY <1>2 DEF IInv, TypeOK, UnderWay
    <3> QED BY <1>2, <3>1 DEF IInv, TypeOK, Closed, Run
  <2> QED BY <1>1, <1>2, <1>4, <1>6, <2>1 DEF IInv, TypeOK
<1>8. AtRest'
  BY <1>1, <1>2 DEF AtRest
<1>9. Position'
  <2>1. cur' + left' = EndOf(index)'
    BY <1>1, <1>2, <1>4, <1>6
  <2> QED BY <1>1, <1>2, <2>1, BitsAssumption DEF Position
<1>10. RunsAreMaximal'
  BY <1>1, <1>2 DEF RunsAreMaximal
<1> QED
  BY <1>5, <1>7, <1>8, <1>9, <1>10 DEF IInv

LEMMA FullByteKeeps == IInv /\ FullByte => IInv'
<1> SUFFICES ASSUME IInv, FullByte PROVE IInv'
  OBVIOUS
<1> DEFINE n == cur + ValidBits
<1>1. Scanning /\ runs' = runs /\ open' = Opened /\ cur' = n
      /\ index' = index + 1 /\ UNCHANGED <<len, ones, pc, target, limit, word, left>>
  BY DEF FullByte, Skip
<1>2. /\ cur \in Nat /\ limit \in Nat /\ left = 0 /\ pc = "scan"
      /\ ValidBits \in 1 .. ByteBits
      /\ n <= limit /\ index + 1 \in 0 .. Bytes /\ EndOf(index + 1) = n
  BY <1>1, ByteRead
<1>3. \A i \in cur .. (n - 1) : Match(i)
  <2>1. PICK junk \in SUBSET AllBits : Word(junk) = 0 .. (ValidBits - 1)
    BY DEF FullByte, IsFull
  <2>2. \A k \in AllBits : k < ValidBits => Match(cur + k)
    <3>1. \A k \in AllBits : k < ValidBits => k \in Word(junk)
      BY <1>2, <2>1, BitsAssumption DEF AllBits
    <3> QED BY <1>1, <3>1, ByteRead
  <2> QED BY <1>2, <2>2, BitsOfByte
<1>4. n \in Nat /\ cur < n
  BY <1>2, BitsAssumption
<1>5. UnderWay' /\ Collected'
  BY <1>1, <1>2, <1>3, <1>4, OnesStep DEF IInv
<1>6. Bytes' = Bytes /\ EndOf(index)' = EndOf(index + 1)
  BY <1>1, SameEnd
<1>7. TypeOK'
  <2>1. Opened \subseteq 0 .. (limit - 1)
    BY <1>2, <1>4 DEF IInv, TypeOK, Opened
  <2> QED BY <1>1, <1>2, <1>4, <1>6, <2>1 DEF IInv, TypeOK
<1>8. AtRest'
  BY <1>1, <1>2 DEF AtRest
<1>9. Position'
  <2>1. cur' + left' = EndOf(index)'
    BY <1>1, <1>2, <1>4, <1>6
  <2> QED BY <1>1, <1>2, <2>1, BitsAssumption DEF Position
<1>10. RunsAreMaximal'
  BY <1>1, <1>2 DEF RunsAreMaximal
<1> QED
  BY <1>5, <1>7, <1>8, <1>9, <1>10 DEF IInv

LEMMA MixedByteKeeps == IInv /\ MixedByte => IInv'
<1> SUFFICES ASSUME IInv, MixedByte PROVE IInv'
  OBVIOUS
<1>1. Scanning /\ runs' = runs /\ open' = open /\ cur' = cur
      /\ index' = index + 1 /\ left' = ValidBits
      /\ UNCHANGED <<len, ones, pc, target, limit>>
  BY DEF MixedByte
<1>2. /\ cur \in Nat /\ limit \in Nat /\ left = 0 /\ pc = "scan"
      /\ ValidBits \in 1 .. ByteBits
      /\ cur + ValidBits <= limit /\ index + 1 \in 0 .. Bytes
      /\ EndOf(index + 1) = cur + ValidBits
  BY <1>1, ByteRead
<1>3. /\ word' \subseteq AllBits
      /\ \A k \in AllBits : k \in word' <=> k < ValidBits /\ Match(cur + k)
      /\ word' # {} /\ word' # 0 .. (ValidBits - 1)
  <2>1. PICK junk \in SUBSET AllBits :
          word' = Word(junk) /\ ~IsZero(Word(junk)) /\ ~IsFull(Word(junk))
    BY DEF MixedByte
  <2> QED BY <1>1, <2>1, ByteRead DEF IsZero, IsFull
<1>4. /\ Bytes' = Bytes /\ EndOf(index)' = EndOf(index + 1)
      /\ \A i : Match(i)' <=> Match(i)
      /\ \A i : RunsBefore(i)' = RunsBefore(i)
  BY <1>1, SameBits, SameEnd
<1>5. TypeOK'
  BY <1>1, <1>2, <1>3, <1>4, BitsAssumption DEF IInv, TypeOK
<1>6. AtRest'
  BY <1>1, <1>2 DEF AtRest
<1>7. Position'
  <2>1. cur' + left' = EndOf(index)'
    BY <1>1, <1>2, <1>4
  <2>2. left' = ByteBits => word' # {} /\ word' # AllBits
    BY <1>1, <1>3 DEF AllBits
  <2> QED BY <1>1, <1>3, <1>4, <2>1, <2>2 DEF Position
<1>8. UnderWay' /\ Collected'
  BY <1>1, <1>2, <1>4 DEF IInv, UnderWay, Collected
<1>9. RunsAreMaximal'
  BY <1>1, <1>2 DEF RunsAreMaximal
<1> QED
  BY <1>5, <1>6, <1>7, <1>8, <1>9 DEF IInv

(* Going on by k bits inside of a byte.                                    *)
LEMMA ShiftedKeeps ==
  ASSUME IInv, left > 0, NEW m \in 1 .. ByteBits, Shifted(AtMostLeft(m)),
         open' \subseteq 0 .. (cur' - 1),
         runs' \subseteq [start : Nat, size : Nat],
         UNCHANGED <<len, ones, pc, target, limit, index>>
  PROVE  /\ AtMostLeft(m) \in 1 .. left /\ AtMostLeft(m) <= m
         /\ pc = "scan" /\ cur \in Nat /\ limit \in Nat
         /\ cur' = cur + AtMostLeft(m) /\ cur' \in Nat
         /\ cur < cur' /\ cur' <= limit
         /\ TypeOK' /\ AtRest' /\ Position' /\ RunsAreMaximal'
<1> DEFINE k == AtMostLeft(m)
<1>1. /\ left \in 1 .. ByteBits /\ cur \in Nat /\ limit \in Nat /\ pc = "scan"
      /\ index \in 0 .. Bytes /\ word \subseteq AllBits
  BY BitsAssumption DEF IInv, TypeOK, AtRest
<1>2. k \in 1 .. left /\ k <= m
  BY <1>1, BitsAssumption DEF AtMostLeft
<1>3. /\ cur' = cur + k /\ left' = left - k
      /\ word' = {j \in AllBits : j + k \in word}
  BY DEF Shifted
<1>4. cur + left = EndOf(index) /\ EndOf(index) <= limit
  <2>1. cur + left = EndOf(index)
    BY <1>1 DEF IInv, Position
  <2>2. CASE index = Bytes
    BY <1>1, <2>1, <2>2 DEF EndOf
  <2>3. CASE index < Bytes
    <3>1. index * ByteBits + ValidBits <= limit /\ ValidBits \in 1 .. ByteBits
          /\ EndOf(index) = index * ByteBits
      BY <2>3, ByteEnds DEF IInv
    <3>2. index * ByteBits \in Nat
      BY <1>1, <2>3, Multiples
    <3> QED BY <1>1, <2>1, <3>1, <3>2, BitsAssumption
  <2>4. Bytes \in Nat
    BY <1>1, ByteCount
  <2> QED BY <1>1, <2>1, <2>2, <2>3, <2>4
<1>5. Bytes' = Bytes /\ EndOf(index)' = EndOf(index)
      /\ \A i : Match(i)' <=> Match(i)
  BY SameBits DEF EndOf
<1>6. cur' \in Nat /\ cur < cur' /\ cur' <= limit
  BY <1>1, <1>2, <1>3, <1>4
<1>7. TypeOK'
  BY <1>1, <1>2, <1>3, <1>5, <1>6, BitsAssumption DEF IInv, TypeOK
<1>8. AtRest'
  BY <1>1 DEF AtRest
<1>9. Position'
  <2>1. cur' + left' = EndOf(index)'
    BY <1>1, <1>2, <1>3, <1>4, <1>5
  <2>2. ASSUME NEW j \in AllBits
        PROVE  j \in word' <=> j < left' /\ Match(cur + j)'
    <3>1. j \in Nat /\ cur' + j = cur + (j + k)
      BY <1>1, <1>2, <1>3, BitsAssumption DEF AllBits
    <3>2. j \in word' <=> j + k \in word
      BY <1>3
    <3>3. CASE j + k \in AllBits
      <4>1. j + k \in word <=> j + k < left /\ Match(cur + (j + k))
        BY <1>1, <3>3 DEF IInv, Position
      <4>2. j + k < left <=> j < left'
        BY <1>1, <1>2, <1>3, <3>1
      <4>3. Match(cur + j)' <=> Match(cur + (j + k))
        BY <3>1 DEF Match
      <4> QED BY <3>2, <4>1, <4>2, <4>3
    <3>4. CASE j + k \notin AllBits
      <4>1. j + k \notin word
        BY <1>1, <3>4
      <4>2. ~(j < left')
        BY <1>1, <1>2, <1>3, <3>1, <3>4, BitsAssumption DEF AllBits
      <4> QED BY <3>2, <4>1, <4>2
    <3> QED BY <3>3, <3>4
  <2>3. left' # ByteBits
    BY <1>1, <1>2, <1>3, BitsAssumption
  <2> QED BY <2>1, <2>2, <2>3 DEF Position
<1>10. RunsAreMaximal'
  BY <1>1 DEF RunsAreMaximal
<1> QED
  BY <1>1, <1>2, <1>3, <1>6, <1>7, <1>8, <1>9, <1>10

(* The bits a shift goes over.                                             *)
LEMMA BitsShifted ==
  ASSUME IInv, left > 0, NEW k \in 1 .. left, NEW i \in cur .. (cur + k - 1)
  PROVE  i - cur \in AllBits /\ i - cur < k /\ i - cur \in 0 .. (k - 1)
         /\ (i - cur \in word <=> Match(i))
<1>1. left \in 1 .. ByteBits /\ cur \in Nat
  BY BitsAssumption DEF IInv, TypeOK
<1>2. /\ i - cur \in AllBits /\ i - cur < k /\ i - cur < left
      /\ i - cur \in 0 .. (k - 1) /\ cur + (i - cur) = i
  BY <1>1, BitsAssumption DEF AllBits
<1>3. i - cur \in word <=> i - cur < left /\ Match(cur + (i - cur))
  BY <1>2 DEF IInv, Position
<1> QED
  BY <1>2, <1>3

LEMMA TakeZerosKeeps == IInv /\ TakeZeros => IInv'
<1> SUFFICES ASSUME IInv, TakeZeros PROVE IInv'
  OBVIOUS
<1>1. /\ left > 0 /\ runs' = Closed /\ open' = {}
      /\ UNCHANGED <<len, ones, pc, target, limit, index>>
  BY DEF TakeZeros
<1>2. PICK m \in 1 .. ByteBits :
        IsLeading(m, AllBits \ word) /\ Shifted(AtMostLeft(m))
  BY DEF TakeZeros
<1>3. runs' \subseteq [start : Nat, size : Nat]
  <2>1. \A s \in open : s \in Nat /\ s < cur /\ cur \in Nat
    BY BitsAssumption DEF IInv, TypeOK, UnderWay
  <2> QED BY <1>1, <2>1 DEF IInv, TypeOK, Closed, Run
<1>4. /\ AtMostLeft(m) \in 1 .. left /\ AtMostLeft(m) <= m
      /\ pc = "scan" /\ cur \in Nat /\ limit \in Nat
      /\ cur' = cur + AtMostLeft(m) /\ cur' \in Nat
      /\ cur < cur' /\ cur' <= limit
      /\ TypeOK' /\ AtRest' /\ Position' /\ RunsAreMaximal'
  BY <1>1, <1>2, <1>3, ShiftedKeeps
<1>5. \A i \in cur .. (cur' - 1) : ~Match(i)
  <2> SUFFICES ASSUME NEW i \in cur .. (cur + AtMostLeft(m) - 1)
               PROVE  ~Match(i)
    BY <1>4
  <2>1. i - cur \in 0 .. (m - 1) /\ (i - cur \in word <=> Match(i))
    <3>1. i - cur \in 0 .. (AtMostLeft(m) - 1)
          /\ (i - cur \in word <=> Match(i))
      BY <1>1, <1>4, BitsShifted
    <3> QED BY <1>1, <1>2, <1>4, <3>1
  <2> QED BY <1>2, <2>1 DEF IsLeading
<1>6. UnderWay' /\ Collected'
  BY <1>1, <1>4, <1>5, ZerosStep DEF IInv
<1> QED
  BY <1>4, <1>6 DEF IInv

LEMMA TakeOnesKeeps == IInv /\ TakeOnes => IInv'
<1> SUFFICES ASSUME IInv, TakeOnes PROVE IInv'
  OBVIOUS
<1>1. /\ left > 0 /\ runs' = runs /\ open' = Opened
      /\ UNCHANGED <<len, ones, pc, target, limit, index>>
  BY DEF TakeOnes
<1>2. PICK m \in 1 .. ByteBits :
        IsLeading(m, word) /\ Shifted(AtMostLeft(m))
  BY DEF TakeOnes
<1>3. open' \subseteq 0 .. (cur' - 1) /\ runs' \subseteq [start : Nat, size : Nat]
  <2>1. cur' = cur + AtMostLeft(m) /\ AtMostLeft(m) \in 1 .. ByteBits
    BY <1>1, <1>2, BitsAssumption DEF IInv, TypeOK, Shifted, AtMostLeft
  <2>2. cur \in Nat /\ \A s \in open : s \in Nat /\ s < cur
    BY BitsAssumption DEF IInv, TypeOK, UnderWay
  <2> QED BY <1>1, <2>1, <2>2, BitsAssumption DEF Opened, IInv, TypeOK
<1>4. /\ AtMostLeft(m) \in 1 .. left /\ AtMostLeft(m) <= m
      /\ pc = "scan" /\ cur \in Nat /\ limit \in Nat
      /\ cur' = cur + AtMostLeft(m) /\ cur' \in Nat
      /\ cur < cur' /\ cur' <= limit
      /\ TypeOK' /\ AtRest' /\ Position' /\ RunsAreMaximal'
  BY <1>1, <1>2, <1>3, ShiftedKeeps
<1>5. \A i \in cur .. (cur' - 1) : Match(i)
  <2> SUFFICES ASSUME NEW i \in cur .. (cur + AtMostLeft(m) - 1)
               PROVE  Match(i)
    BY <1>4
  <2>1. i - cur \in 0 .. (m - 1) /\ (i - cur \in word <=> Match(i))
    <3>1. i - cur \in 0 .. (AtMostLeft(m) - 1)
          /\ (i - cur \in word <=> Match(i))
      BY <1>1, <1>4, BitsShifted
    <3> QED BY <1>1, <1>2, <1>4, <3>1
  <2> QED BY <1>2, <2>1 DEF IsLeading
<1>6. UnderWay' /\ Collected'
  BY <1>1, <1>4, <1>5, OnesStep DEF IInv
<1> QED
  BY <1>4, <1>6 DEF IInv

LEMMA FinishKeeps == IInv /\ Finish => IInv'
<1> SUFFICES ASSUME IInv, Finish PROVE IInv'
  OBVIOUS
<1>1. /\ pc = "scan" /\ left = 0 /\ index = Bytes /\ runs' = Closed
      /\ pc' = "done"
      /\ UNCHANGED <<len, ones, target, limit, index, word, left, cur, open>>
  BY DEF Finish
<1>2. cur \in Nat /\ limit \in Nat /\ cur = limit
  BY <1>1, BitsAssumption DEF IInv, TypeOK, Position, EndOf
<1>3. Closed = RunsBefore(limit + 1)
  <2>1. \A i \in cur .. ((limit + 1) - 1) : i < limit => ~Match(i)
    BY <1>2
  <2> DEFINE n == limit + 1
  <2>2. n \in Nat /\ cur < n /\ n <= limit + 1
    BY <1>2
  <2>3. TypeOK /\ UnderWay /\ runs = RunsBefore(cur)
    BY <1>1 DEF IInv, Collected
  <2>4. \A i \in cur .. (n - 1) : i < limit => ~Match(i)
    BY <2>1
  <2> HIDE DEF n
  <2>5. Closed = RunsBefore(n)
    BY <1>1, <2>2, <2>3, <2>4, CloseRun
  <2> QED BY <2>5 DEF n
<1>4. TypeOK'
  <2>1. Bytes' = Bytes
    BY <1>1, SameBits
  <2>2. \A s \in open : s \in Nat /\ s < cur
    BY <1>2 DEF IInv, TypeOK, UnderWay
  <2> QED BY <1>1, <1>2, <2>1, <2>2 DEF IInv, TypeOK, Closed, Run
<1>5. AtRest' /\ Collected'
  BY <1>1 DEF AtRest, Collected
<1>6. Position'
  BY <1>1, BitsAssumption DEF Position
<1>7. UnderWay'
  BY <1>1, SameBits DEF IInv, UnderWay
<1>8. RunsAreMaximal'
  BY <1>1, <1>3, SameBits DEF RunsAreMaximal
<1> QED
  BY <1>4, <1>5, <1>6, <1>7, <1>8 DEF IInv

LEMMA ReturnKeeps == IInv /\ Return => IInv'
<1> SUFFICES ASSUME IInv, Return PROVE IInv'
  OBVIOUS
<1> USE DEF Return
<1>1. Bytes' \in Nat
  BY BitsAssumption, ByteCountNext
<1>2. TypeOK'
  <2>1. len' \in 0 .. MaxBits /\ ones' \subseteq 0 .. (len' - 1)
    BY DEF IInv, TypeOK
  <2>2. index' \in 0 .. Bytes' /\ limit' \in 0 .. len' /\ cur' \in 0 .. limit'
        /\ left' \in 0 .. ByteBits
    BY <1>1, <2>1, BitsAssumption
  <2>3. target' \in BOOLEAN /\ pc' \in {"idle", "scan", "done"}
    OBVIOUS
  <2> QED BY <2>1, <2>2, <2>3 DEF TypeOK
<1>3. AtRest' /\ UnderWay' /\ RunsAreMaximal'
  BY DEF AtRest, UnderWay, RunsAreMaximal
<1>4. Position'
  BY BitsAssumption DEF Position
<1>5. RunsBefore(0)' = {}
  <2>1. \A y \in (0 .. limit') \X (0 .. limit') : ~(y[2] < 0)
    OBVIOUS
  <2> QED BY <2>1 DEF RunsBefore
<1>6. Collected'
  BY <1>5 DEF Collected
<1> QED
  BY <1>2, <1>3, <1>4, <1>6 DEF IInv

LEMMA NextKeeps == IInv /\ [Next]_vars => IInv'
<1> SUFFICES ASSUME IInv, [Next]_vars PROVE IInv'
  OBVIOUS
<1>1. ASSUME NEW n \in 0 .. MaxBits, NEW v \in BOOLEAN, Set(n, v)
      PROVE  IInv'
  <2>1. pc = "idle" /\ ones' = Changed({n}, v) /\ UNCHANGED <<len, pc, scan>>
    BY <1>1 DEF Set
  <2>2. {n} \in SUBSET (0 .. (len - 1))
    BY <1>1, BitsAssumption DEF Set, IInv, TypeOK
  <2> QED BY <2>1, <2>2, ChangeKeeps
<1>2. ASSUME NEW n \in 0 .. MaxBits, NEW k \in 0 .. MaxBits, NEW v \in BOOLEAN,
             SetRange(n, k, v)
      PROVE  IInv'
  <2> DEFINE S == n .. (n + k - 1)
  <2>1. pc = "idle" /\ ones' = Changed(S, v) /\ UNCHANGED <<len, pc, scan>>
    BY <1>2 DEF SetRange
  <2>2. S \in SUBSET (0 .. (len - 1))
    BY <1>2, BitsAssumption DEF SetRange, IInv, TypeOK
  <2> QED BY <2>1, <2>2, ChangeKeeps
<1>3. ASSUME NEW b \in BOOLEAN, NEW n \in 0 .. MaxBits, RunsOf(b, n)
      PROVE  IInv'
  BY <1>3, RunsOfKeeps
<1>4. CASE ZeroByte
  BY <1>4, ZeroByteKeeps
<1>5. CASE FullByte
  BY <1>5, FullByteKeeps
<1>6. CASE MixedByte
  BY <1>6, MixedByteKeeps
<1>7. CASE TakeZeros
  BY <1>7, TakeZerosKeeps
<1>8. CASE TakeOnes
  BY <1>8, TakeOnesKeeps
<1>9. CASE Finish
  BY <1>9, FinishKeeps
<1>10. CASE Return
  BY <1>10, ReturnKeeps
<1>11. CASE UNCHANGED vars
  <2> USE <1>11 DEF vars
  <2>1. TypeOK' /\ AtRest'
    BY SameBits DEF IInv, TypeOK, AtRest
  <2>2. Position'
    BY SameBits, SameEnd DEF IInv, Position
  <2>3. UnderWay'
    BY SameBits DEF IInv, UnderWay
  <2>4. Collected' /\ RunsAreMaximal'
    BY SameBits DEF IInv, Collected, RunsAreMaximal
  <2> QED BY <2>1, <2>2, <2>3, <2>4 DEF IInv
<1> QED
  BY <1>1, <1>2, <1>3, <1>4, <1>5, <1>6, <1>7, <1>8, <1>9, <1>10, <1>11
  DEF Next

-----------------------------------------------------------------------------
(* The theorems. *)

(* In every state of a scan the runs collected are the maximal ones behind *)
(* it, and what is left of the byte shows the bits ahead of it.            *)
THEOREM ScanInvariant == Spec => []IInv
  BY InitHolds, NextKeeps, PTL DEF Spec

(* runs_of returns the maximal runs of the bit asked for, all of them,     *)
(* whatever the length of the bitmap and whatever its padding holds.       *)
THEOREM ScanIsExact == Spec => []RunsAreMaximal
<1>1. IInv => RunsAreMaximal
  BY DEF IInv
<1> QED
  BY <1>1, ScanInvariant, PTL

(* No shift in runs_of is by the whole width of a byte.                    *)
THEOREM NoShiftOverflows == Spec => []ShiftsFit
<1>1. IInv => ShiftsFit
  <2> SUFFICES ASSUME IInv, left > 0, NEW k \in 0 .. ByteBits,
                      IsLeading(k, word) \/ IsLeading(k, AllBits \ word)
               PROVE  AtMostLeft(k) < ByteBits
    BY DEF ShiftsFit
  <2>1. left \in 1 .. ByteBits /\ word \subseteq AllBits
    BY BitsAssumption DEF IInv, TypeOK
  <2>2. CASE left < ByteBits \/ k < ByteBits
    BY <2>1, <2>2, BitsAssumption DEF AtMostLeft
  <2>3. CASE left = ByteBits /\ k = ByteBits
    <3>1. word # {} /\ word # AllBits
      BY <2>3 DEF IInv, Position
    <3>2. 0 .. (k - 1) = AllBits
      BY <2>3 DEF AllBits
    <3> QED BY <2>1, <3>1, <3>2 DEF IsLeading
  <2> QED BY <2>1, <2>2, <2>3, BitsAssumption
<1> QED
  BY <1>1, ScanInvariant, PTL

(* Runs are found from the first to the last, with a bit between them.     *)
LEMMA ClosedInOrder ==
  ASSUME IInv, pc = "scan", runs' = Closed
  PROVE  InOrder
<1> SUFFICES ASSUME NEW s \in open, NEW q \in runs
             PROVE  q.start + q.size < Run(s, cur).start
  BY DEF InOrder, Closed
<1>1. cur \in 0 .. limit /\ limit \in Nat /\ s \in Nat
  BY BitsAssumption DEF IInv, TypeOK
<1>2. PICK y \in (0 .. limit) \X (0 .. limit) :
        IsRun(y[1], y[2]) /\ y[2] < cur /\ q = Run(y[1], y[2])
  BY DEF IInv, Collected, RunsBefore
<1>3. y[2] \in Nat /\ y[2] # limit /\ ~Match(y[2])
  BY <1>1, <1>2 DEF IsRun
<1>4. \A i \in s .. (cur - 1) : Match(i)
  BY DEF IInv, UnderWay
<1>5. y[2] < s
  BY <1>1, <1>2, <1>3, <1>4
<1>6. q.start + q.size = y[2]
  BY <1>1, <1>2 DEF Run
<1> QED
  BY <1>5, <1>6 DEF Run

THEOREM ScanGoesForward == Spec => FoundInOrder
<1>1. IInv /\ [Next]_vars => [InOrder]_vars
  <2> SUFFICES ASSUME IInv, Next PROVE InOrder
    OBVIOUS
  <2>1. CASE ZeroByte
    BY <2>1, ClosedInOrder DEF ZeroByte, Scanning
  <2>2. CASE TakeZeros
    <3>1. pc = "scan"
      BY <2>2 DEF TakeZeros, IInv, TypeOK, AtRest
    <3> QED BY <2>2, <3>1, ClosedInOrder DEF TakeZeros
  <2>3. CASE Finish
    BY <2>3, ClosedInOrder DEF Finish
  <2>4. CASE ~ZeroByte /\ ~TakeZeros /\ ~Finish
    <3>1. runs' \subseteq runs
      BY <2>4 DEF Next, Set, SetRange, RunsOf, FullByte, MixedByte, TakeOnes,
                  Return, scan
    <3> QED BY <3>1 DEF InOrder
  <2> QED BY <2>1, <2>2, <2>3, <2>4
<1> QED
  BY <1>1, ScanInvariant, PTL DEF Spec, FoundInOrder
=============================================================================
