------------------------------ MODULE Bitmaps ------------------------------
(***************************************************************************)
(* The bitmaps of a group (Bitmap in xhfs-core/src/xhfs/ds.rs): bits set   *)
(* one by one and in ranges, and runs_of, which collects the runs of equal *)
(* bits by going through the stored bytes, the last of them padded.        *)
(*                                                                         *)
(* allocate, allocate_inode_near and total_remaining_capacity take what    *)
(* runs_of returns for the free runs of a group: ExtentStore's RunsOf and  *)
(* Namespace's FreeIn are the sets this module says it computes.           *)
(*                                                                         *)
(* A byte is the set of its bits that are one, the most significant being  *)
(* 0; a byte has ByteBits of them, eight in the code.                      *)
(***************************************************************************)
EXTENDS Integers

CONSTANTS
  ByteBits,   \* bits in a byte
  MaxBits     \* bound: bits in the largest bitmap

ASSUME BitsAssumption == ByteBits \in Nat \ {0} /\ MaxBits \in Nat

VARIABLES
  len,     \* map.len()
  ones,    \* the bits of map that are true
  pc,      \* "idle", "scan" in runs_of, "done" when it returns
  (* locals of runs_of *)
  target,  \* target_bit
  limit,   \* logical_len
  index,   \* byte_index
  word,    \* what is left of the byte read, shifted to its top
  left,    \* valid_bits - processed
  cur,     \* current_bit_index
  open,    \* current_run_start, as a set of at most one
  runs

scan == <<target, limit, index, word, left, cur, open, runs>>
vars == <<len, ones, pc, target, limit, index, word, left, cur, open, runs>>

(* new_from_bits_count *)
Init ==
  /\ len \in 0 .. MaxBits
  /\ ones = {}
  /\ pc = "idle"
  /\ target = FALSE /\ limit = 0 /\ index = 0 /\ word = {} /\ left = 0
  /\ cur = 0 /\ open = {} /\ runs = {}

Changed(S, value) == IF value THEN ones \cup S ELSE ones \ S

Set(n, value) ==
  /\ pc = "idle"
  /\ n < len
  /\ ones' = Changed({n}, value)
  /\ UNCHANGED <<len, pc, scan>>

SetRange(start, length, value) ==
  /\ pc = "idle"
  /\ start + length <= len
  /\ ones' = Changed(start .. (start + length - 1), value)
  /\ UNCHANGED <<len, pc, scan>>

(* stop is map.len() when the caller gives none. *)
RunsOf(bit, stop) ==
  /\ pc = "idle"
  /\ target' = bit
  /\ limit' = IF stop < len THEN stop ELSE len
  /\ pc' = IF limit' = 0 THEN "done" ELSE "scan"
  /\ UNCHANGED <<len, ones, index, word, left, cur, open, runs>>

-----------------------------------------------------------------------------
(* One byte of the copy of the first limit bits.                           *)

FullBytes == limit \div ByteBits
RemBits == limit % ByteBits
Bytes == IF RemBits = 0 THEN FullBytes ELSE FullBytes + 1
ValidBits ==
  IF index < FullBytes \/ RemBits = 0 THEN ByteBits ELSE RemBits

AllBits == 0 .. (ByteBits - 1)
Masked(w) ==
  IF index = FullBytes /\ RemBits # 0 THEN w \cap (0 .. (RemBits - 1)) ELSE w

(* The padding of the last byte holds anything. *)
Stored(junk) ==
  {k \in AllBits : IF index * ByteBits + k < limit
                   THEN index * ByteBits + k \in ones ELSE k \in junk}
Word(junk) ==
  IF target THEN Masked(Stored(junk))
  ELSE Masked(AllBits \ Masked(Stored(junk)))

Run(s, e) == [start |-> s, size |-> e - s]
Closed == runs \cup {Run(s, cur) : s \in open}
NewlyOpen == {cur}                       \* as if no run were under way
Opened == IF open = {} THEN {cur} ELSE open

Scanning == pc = "scan" /\ left = 0 /\ index < Bytes

Skip == index' = index + 1 /\ cur' = cur + ValidBits

NoZeroByte(w) == FALSE                      \* as if every byte were scanned
IsZero(w) == w = {}
IsFull(w) == w = 0 .. (ValidBits - 1)

(* As if the start of the run were read, but not taken. *)
ZeroByteReads ==
  /\ Scanning
  /\ \E junk \in SUBSET AllBits : IsZero(Word(junk))
  /\ runs' = Closed
  /\ Skip
  /\ UNCHANGED <<len, ones, pc, target, limit, word, left, open>>

ZeroByte ==
  /\ Scanning
  /\ \E junk \in SUBSET AllBits : IsZero(Word(junk))
  /\ runs' = Closed
  /\ open' = {}
  /\ Skip
  /\ UNCHANGED <<len, ones, pc, target, limit, word, left>>

FullByte ==
  /\ Scanning
  /\ \E junk \in SUBSET AllBits : ~IsZero(Word(junk)) /\ IsFull(Word(junk))
  /\ open' = Opened
  /\ Skip
  /\ UNCHANGED <<len, ones, pc, target, limit, word, left, runs>>

MixedByte ==
  /\ Scanning
  /\ \E junk \in SUBSET AllBits :
       /\ ~IsZero(Word(junk)) /\ ~IsFull(Word(junk))
       /\ word' = Word(junk)
  /\ left' = ValidBits
  /\ index' = index + 1
  /\ UNCHANGED <<len, ones, pc, target, limit, cur, open, runs>>

-----------------------------------------------------------------------------
(* The transitions inside a mixed byte.                                    *)

(* leading_ones of S, and leading_zeros of its complement *)
IsLeading(k, S) ==
  (\A j \in 0 .. (k - 1) : j \in S) /\ (k = ByteBits \/ k \notin S)
AtMostLeft(k) == IF k < left THEN k ELSE left

Shifted(k) ==
  /\ word' = {j \in AllBits : j + k \in word}
  /\ cur' = cur + k
  /\ left' = left - k

TakeZeros ==
  /\ left > 0
  /\ \E zeros \in 1 .. ByteBits :
       IsLeading(zeros, AllBits \ word) /\ Shifted(AtMostLeft(zeros))
  /\ runs' = Closed
  /\ open' = {}
  /\ UNCHANGED <<len, ones, pc, target, limit, index>>

TakeOnes ==
  /\ left > 0
  /\ \E n \in 1 .. ByteBits :
       IsLeading(n, word) /\ Shifted(AtMostLeft(n))
  /\ open' = Opened
  /\ UNCHANGED <<len, ones, pc, target, limit, index, runs>>

Finish ==
  /\ pc = "scan" /\ left = 0 /\ index = Bytes
  /\ runs' = Closed
  /\ pc' = "done"
  /\ UNCHANGED <<len, ones, target, limit, index, word, left, cur, open>>

(* The caller has the runs. *)
Return ==
  /\ pc = "done"
  /\ pc' = "idle"
  /\ target' = FALSE /\ limit' = 0 /\ index' = 0 /\ word' = {} /\ left' = 0
  /\ cur' = 0 /\ open' = {} /\ runs' = {}
  /\ UNCHANGED <<len, ones>>

Next ==
  \/ \E n \in 0 .. MaxBits, v \in BOOLEAN : Set(n, v)
  \/ \E n, k \in 0 .. MaxBits, v \in BOOLEAN : SetRange(n, k, v)
  \/ \E b \in BOOLEAN, n \in 0 .. MaxBits : RunsOf(b, n)
  \/ ZeroByte \/ FullByte \/ MixedByte \/ TakeZeros \/ TakeOnes
  \/ Finish \/ Return

Spec == Init /\ [][Next]_vars
-----------------------------------------------------------------------------
(* Properties. *)

TypeOK ==
  /\ len \in 0 .. MaxBits
  /\ ones \subseteq 0 .. (len - 1)
  /\ pc \in {"idle", "scan", "done"}
  /\ target \in BOOLEAN
  /\ limit \in 0 .. len
  /\ index \in 0 .. Bytes
  /\ word \subseteq AllBits
  /\ left \in 0 .. ByteBits
  /\ cur \in 0 .. limit
  /\ open \subseteq 0 .. (limit - 1)
  /\ runs \subseteq [start : Nat, size : Nat]

Match(i) == i \in ones <=> target
IsRun(s, e) ==
  /\ s < e
  /\ \A i \in s .. (e - 1) : Match(i)
  /\ s = 0 \/ ~Match(s - 1)
  /\ e = limit \/ ~Match(e)

(* The maximal runs of the bit asked for that end before n. *)
RunsBefore(n) ==
  {Run(x[1], x[2]) :
     x \in {y \in (0 .. limit) \X (0 .. limit) : IsRun(y[1], y[2]) /\ y[2] < n}}

(* What runs_of returns are the maximal runs of the bit asked for, all of  *)
(* them, within the first bits asked for: neither the padding of the last  *)
(* byte nor the ends of bytes and of the range cut, join or add one.       *)
RunsAreMaximal == pc = "done" => runs = RunsBefore(limit + 1)

(* No byte is shifted by its whole width, which overflows.                 *)
ShiftsFit ==
  left > 0 =>
    \A k \in 0 .. ByteBits :
      IsLeading(k, word) \/ IsLeading(k, AllBits \ word)
        => AtMostLeft(k) < ByteBits

(* Runs are found in their order on the device, none touching the one      *)
(* before: allocate takes the first that is long enough, and inodes the    *)
(* first bit of the first.                                                 *)
InOrder ==
  \A r \in runs' \ runs : \A q \in runs : q.start + q.size < r.start
FoundInOrder == [][InOrder]_vars

-----------------------------------------------------------------------------
(* The inductive invariant. *)

EndOf(i) == IF i = Bytes THEN limit ELSE i * ByteBits

AtRest ==
  /\ pc = "idle" => /\ limit = 0 /\ index = 0 /\ cur = 0
                    /\ open = {} /\ runs = {}
  /\ pc # "scan" => left = 0

(* Where the scan is, and what is left of the byte it is in. *)
Position ==
  /\ pc = "scan" => cur + left = EndOf(index)
  /\ left > 0 => \A k \in AllBits : k \in word <=> k < left /\ Match(cur + k)
  /\ left = ByteBits => word # {} /\ word # AllBits

(* The run under way began after another bit and goes on to here. *)
UnderWay ==
  /\ \A s \in open : /\ s < cur
                     /\ \A i \in s .. (cur - 1) : Match(i)
                     /\ s = 0 \/ ~Match(s - 1)
                     /\ open = {s}
  /\ pc = "scan" /\ open = {} => cur = 0 \/ ~Match(cur - 1)

Collected == pc # "done" => runs = RunsBefore(cur)

IInv == /\ TypeOK /\ AtRest /\ Position /\ UnderWay /\ Collected
        /\ RunsAreMaximal
=============================================================================
