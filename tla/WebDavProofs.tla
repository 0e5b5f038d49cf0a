---------------------------- MODULE WebDavProofs ----------------------------
(***************************************************************************)
(* What TLAPS proves of WebDavFile, for any number of handles, any chunk   *)
(* size, any chain of extents and any sizes a client asks for: the         *)
(* invariant FileInv is inductive, and with it what clients wrote is in    *)
(* the file in their order, what they read is what the file holds, and a   *)
(* copy is the file as it was, for all that appends which overlap take     *)
(* from the file.                                                          *)
(*                                                                         *)
(* Most steps are of one handle and leave the chain of extents as it is:   *)
(* QuietStep has what the others need of them.  StoreStep has the calls    *)
(* that keep bytes or begin an append, and LinkStep the two steps that put *)
(* what is on its way into the file and may cut off what was after the     *)
(* tail found.  Truncation and the copy are by themselves.                 *)
(***************************************************************************)
EXTENDS WebDavInvariant, SequenceTheorems, Induction

-----------------------------------------------------------------------------
(* FlattenSeq, by induction over how many sequences are joined. *)

(* The recursive function inside FlattenSeq. *)
IsFlat(f, seqs) ==
  f = [i \in 1 .. Len(seqs) |-> IF i = 1 THEN seqs[i] ELSE f[i - 1] \o seqs[i]]

(* A function of the shape that FlattenSeq chooses there is, by adding one *)
(* sequence more at a time, and FlattenSeq is its last value.              *)
LEMMA FlatExists ==
  ASSUME NEW B, NEW seqs \in Seq(Seq(B)), Len(seqs) # 0
  PROVE  /\ \E f : IsFlat(f, seqs) /\ FlattenSeq(seqs) = f[Len(seqs)]
PROOF
<1> DEFINE S == {k \in Nat : \A s \in Seq(Seq(B)) : Len(s) = k =>
                                \E f : IsFlat(f, s)}
<1>1. 0 \in S
  <2> SUFFICES ASSUME NEW s \in Seq(Seq(B)), Len(s) = 0
               PROVE \E f : IsFlat(f, s)
    OBVIOUS
  <2> DEFINE f == [i \in 1 .. 0 |-> <<>>]
  <2>1. IsFlat(f, s)
    BY DEF IsFlat
  <2> HIDE DEF f
  <2> QED BY <2>1
<1>2. ASSUME NEW k \in Nat, k \in S PROVE k + 1 \in S
  <2> SUFFICES ASSUME NEW s \in Seq(Seq(B)), Len(s) = k + 1
               PROVE  \E f : IsFlat(f, s)
    OBVIOUS
  <2> DEFINE t == SubSeq(s, 1, k)
  <2>1. t \in Seq(Seq(B)) /\ Len(t) = k /\ \A i \in 1 .. k : t[i] = s[i]
    <3>1. \A i \in 1 .. k : s[i] \in Seq(B)
      OBVIOUS
    <3>2. /\ t \in Seq(Seq(B))
          /\ Len(t) = IF 1 <= k THEN k - 1 + 1 ELSE 0
          /\ \A i \in 1 .. (k - 1 + 1) : t[i] = s[1 + i - 1]
      BY <3>1, SubSeqProperties
    <3> HIDE DEF t
    <3>3. \A i \in 1 .. k : i \in 1 .. (k - 1 + 1) /\ 1 + i - 1 = i
      OBVIOUS
    <3> QED BY <3>2, <3>3
  <2> HIDE DEF t
  <2>2. PICK f : IsFlat(f, t)
    BY <1>2, <2>1
  <2> DEFINE g == [i \in 1 .. (k + 1) |->
                     IF i = k + 1 THEN IF k = 0 THEN s[1] ELSE f[k] \o s[k + 1]
                     ELSE f[i]]
             h == [i \in 1 .. (k + 1) |->
                     IF i = 1 THEN s[i] ELSE g[i - 1] \o s[i]]
  <2>3. \A i \in 1 .. k : f[i] = IF i = 1 THEN s[i] ELSE f[i - 1] \o s[i]
    <3>1. \A i \in 1 .. k : f[i] = IF i = 1 THEN t[i] ELSE f[i - 1] \o t[i]
      BY <2>1, <2>2 DEF IsFlat
    <3> QED BY <2>1, <3>1
  <2>4. \A i \in 1 .. (k + 1) : g[i] = h[i]
    <3> TAKE i \in 1 .. (k + 1)
    <3>1. CASE i = k + 1
      <4>1. CASE k = 0
        BY <3>1, <4>1
      <4>2. CASE k # 0
        <5>1. /\ i - 1 = k /\ i # 1 /\ k \in 1 .. (k + 1) /\ k # k + 1
              /\ i \in 1 .. (k + 1)
          BY <3>1, <4>2
        <5>2. g[i] = f[k] \o s[k + 1]
          BY <3>1, <4>2, <5>1
        <5>3. g[k] = f[k]
          BY <5>1
        <5>4. h[i] = g[i - 1] \o s[i]
          BY <5>1
        <5> QED BY <3>1, <5>1, <5>2, <5>3, <5>4
      <4> QED BY <4>1, <4>2
    <3>2. CASE i # k + 1
      <4>1. i \in 1 .. k /\ g[i] = f[i]
        BY <3>2
      <4>2. i # 1 => g[i - 1] = f[i - 1]
        BY <3>2
      <4> QED BY <2>3, <4>1, <4>2
    <3> QED BY <3>1, <3>2
  <2>5. g = [i \in 1 .. (k + 1) |-> g[i]] /\ h = [i \in 1 .. (k + 1) |-> h[i]]
    OBVIOUS
  <2> HIDE DEF g, h
  <2>6. g = h
    BY <2>4, <2>5
  <2>7. IsFlat(g, s)
    BY <2>6 DEF IsFlat, h
  <2> QED BY <2>7
<1> HIDE DEF S
<1>3. Len(seqs) \in Nat
  OBVIOUS
<1>4. Len(seqs) \in S
  BY <1>1, <1>2, <1>3, SetInduction
<1>5. \E f : IsFlat(f, seqs)
  BY <1>4 DEF S
<1>6. FlattenSeq(seqs) = (CHOOSE f : IsFlat(f, seqs))[Len(seqs)]
  BY DEF FlattenSeq, IsFlat
<1>7. IsFlat(CHOOSE f : IsFlat(f, seqs), seqs)
  BY <1>5
<1> QED BY <1>6, <1>7

(* With one sequence more at the end, the values for those before it are   *)
(* the same.                                                               *)
LEMMA FlatsAgree ==
  ASSUME NEW B, NEW s \in Seq(Seq(B)), NEW x, NEW f, NEW g,
         IsFlat(f, s), IsFlat(g, Append(s, x)), Len(s) # 0
  PROVE  g[Len(s)] = f[Len(s)]
PROOF
<1> DEFINE n == Len(s)
           S == {k \in Nat : k + 1 <= n => g[k + 1] = f[k + 1]}
<1>1. n \in Nat \ {0} /\ Len(Append(s, x)) = n + 1
      /\ \A i \in 1 .. n : Append(s, x)[i] = s[i]
  OBVIOUS
<1> HIDE DEF n
<1>2. \A i \in 1 .. n : f[i] = IF i = 1 THEN s[i] ELSE f[i - 1] \o s[i]
  BY DEF IsFlat, n
<1>3. \A i \in 1 .. n : g[i] = IF i = 1 THEN s[i] ELSE g[i - 1] \o s[i]
  <2>1. \A i \in 1 .. (n + 1) : g[i] = IF i = 1 THEN Append(s, x)[i]
                                       ELSE g[i - 1] \o Append(s, x)[i]
    BY <1>1 DEF IsFlat
  <2> QED BY <1>1, <2>1
<1>4. 0 \in S
  BY <1>1, <1>2, <1>3
<1>5. ASSUME NEW k \in Nat, k \in S PROVE k + 1 \in S
  <2> SUFFICES ASSUME (k + 1) + 1 <= n PROVE g[(k + 1) + 1] = f[(k + 1) + 1]
    OBVIOUS
  <2>1. /\ (k + 1) + 1 \in 1 .. n /\ (k + 1) + 1 # 1
        /\ ((k + 1) + 1) - 1 = k + 1 /\ g[k + 1] = f[k + 1]
    BY <1>1, <1>5
  <2> QED BY <1>2, <1>3, <2>1
<1> HIDE DEF S
<1>6. n - 1 \in Nat /\ (n - 1) + 1 = n
  BY <1>1
<1>7. Nat \subseteq S
  BY <1>4, <1>5, SetInduction
<1>8. n - 1 \in S
  BY <1>6, <1>7
<1> QED BY <1>1, <1>6, <1>8 DEF S, n

(* FlattenSeq adds one sequence at a time. *)
LEMMA FlatAppend ==
  ASSUME NEW B, NEW s \in Seq(Seq(B)), NEW x \in Seq(B)
  PROVE  FlattenSeq(Append(s, x)) = FlattenSeq(s) \o x
PROOF
<1> DEFINE n == Len(s)
           t == Append(s, x)
<1>1. n \in Nat /\ t \in Seq(Seq(B)) /\ Len(t) = n + 1 /\ t[n + 1] = x
  OBVIOUS
<1> HIDE DEF n, t
<1>2. PICK g : IsFlat(g, t) /\ FlattenSeq(t) = g[n + 1]
  BY <1>1, FlatExists
<1>3. g[n + 1] = IF n + 1 = 1 THEN x ELSE g[(n + 1) - 1] \o x
  <2>1. n + 1 \in 1 .. (n + 1)
    BY <1>1
  <2> QED BY <1>1, <1>2, <2>1 DEF IsFlat
<1>4. CASE n = 0
  <2>1. s = <<>>
    BY <1>4 DEF n
  <2>2. FlattenSeq(s) = <<>>
    BY <2>1 DEF FlattenSeq
  <2>3. <<>> \o x = x
    OBVIOUS
  <2> QED BY <1>2, <1>3, <1>4, <2>2, <2>3 DEF t
<1>5. CASE n # 0
  <2>1. PICK f : IsFlat(f, s) /\ FlattenSeq(s) = f[n]
    BY <1>5, FlatExists DEF n
  <2>2. g[n] = f[n]
    BY <1>2, <1>5, <2>1, FlatsAgree DEF n, t
  <2>3. n + 1 # 1 /\ (n + 1) - 1 = n
    BY <1>1, <1>5
  <2> QED BY <1>2, <1>3, <2>1, <2>2, <2>3 DEF t
<1> QED BY <1>4, <1>5

(* Nothing joined is nothing. *)
LEMMA FlatEmpty == FlattenSeq(<<>>) = <<>>
PROOF
BY DEF FlattenSeq

(* Sequences of bytes join to a sequence of bytes. *)
LEMMA FlatType ==
  ASSUME NEW B, NEW seqs \in Seq(Seq(B))
  PROVE  FlattenSeq(seqs) \in Seq(B)
PROOF
<1> DEFINE S == {k \in Nat : \A s \in Seq(Seq(B)) :
                                Len(s) = k => FlattenSeq(s) \in Seq(B)}
<1>1. 0 \in S
  <2> SUFFICES ASSUME NEW s \in Seq(Seq(B)), Len(s) = 0
               PROVE  FlattenSeq(s) \in Seq(B)
    OBVIOUS
  <2>1. s = <<>>
    OBVIOUS
  <2>2. <<>> \in Seq(B)
    OBVIOUS
  <2> QED BY <2>1, <2>2, FlatEmpty
<1>2. ASSUME NEW k \in Nat, k \in S PROVE k + 1 \in S
  <2> SUFFICES ASSUME NEW s \in Seq(Seq(B)), Len(s) = k + 1
               PROVE  FlattenSeq(s) \in Seq(B)
    OBVIOUS
  <2>1. PICK t \in Seq(Seq(B)), x \in Seq(B) : s = Append(t, x) /\ Len(t) = k
    <3> DEFINE t == SubSeq(s, 1, k)
    <3>1. t \in Seq(Seq(B)) /\ Len(t) = k /\ s = Append(t, s[k + 1])
      OBVIOUS
    <3>2. s[k + 1] \in Seq(B)
      OBVIOUS
    <3> HIDE DEF t
    <3> QED BY <3>1, <3>2
  <2>2. FlattenSeq(t) \in Seq(B)
    BY <1>2, <2>1
  <2>3. FlattenSeq(s) = FlattenSeq(t) \o x
    BY <2>1, FlatAppend
  <2> QED BY <2>2, <2>3
<1> HIDE DEF S
<1>3. Len(seqs) \in Nat
  OBVIOUS
<1>4. Len(seqs) \in S
  BY <1>1, <1>2, <1>3, SetInduction
<1> QED BY <1>4 DEF S

-----------------------------------------------------------------------------
(* Joined sequences, their parts and their beginnings. *)

(* Two sequences joined, element by element. *)
LEMMA Joining ==
  ASSUME NEW B, NEW s \in Seq(B), NEW t \in Seq(B)
  PROVE  /\ s \o t \in Seq(B) /\ Len(s \o t) = Len(s) + Len(t)
         /\ Len(s) \in Nat /\ Len(t) \in Nat
         /\ DOMAIN s = 1 .. Len(s) /\ DOMAIN t = 1 .. Len(t)
         /\ DOMAIN (s \o t) = 1 .. (Len(s) + Len(t))
         /\ \A i \in 1 .. Len(s) : (s \o t)[i] = s[i]
         /\ \A i \in 1 .. Len(t) : (s \o t)[Len(s) + i] = t[i]
PROOF
<1>1. /\ s \o t \in Seq(B) /\ Len(s \o t) = Len(s) + Len(t)
      /\ \A i \in 1 .. (Len(s) + Len(t)) :
           (s \o t)[i] = IF i <= Len(s) THEN s[i] ELSE t[i - Len(s)]
  BY ConcatProperties
<1>2. Len(s) \in Nat /\ Len(t) \in Nat
      /\ DOMAIN s = 1 .. Len(s) /\ DOMAIN t = 1 .. Len(t)
      /\ DOMAIN (s \o t) = 1 .. Len(s \o t)
  BY <1>1, LenProperties
<1>3. \A i \in 1 .. Len(s) : (s \o t)[i] = s[i]
  <2> TAKE i \in 1 .. Len(s)
  <2>1. i \in 1 .. (Len(s) + Len(t)) /\ i <= Len(s)
    BY <1>2
  <2> QED BY <1>1, <2>1
<1>4. \A i \in 1 .. Len(t) : (s \o t)[Len(s) + i] = t[i]
  <2> TAKE i \in 1 .. Len(t)
  <2>1. /\ Len(s) + i \in 1 .. (Len(s) + Len(t)) /\ ~(Len(s) + i <= Len(s))
        /\ (Len(s) + i) - Len(s) = i
    BY <1>2
  <2> QED BY <1>1, <2>1
<1> QED BY <1>1, <1>2, <1>3, <1>4

(* Part of a sequence, element by element. *)
LEMMA Taking ==
  ASSUME NEW B, NEW s \in Seq(B), NEW m \in Nat \ {0}, NEW n \in Int,
           n <= Len(s)
  PROVE  /\ SubSeq(s, m, n) \in Seq(B)
         /\ Len(SubSeq(s, m, n)) = IF m <= n THEN (n - m) + 1 ELSE 0
         /\ \A i \in 1 .. ((n - m) + 1) : SubSeq(s, m, n)[i] = s[(m + i) - 1]
         /\ Len(s) \in Nat
PROOF
<1>1. \A i \in m .. n : s[i] \in B
  <2>1. \A i \in m .. n : i \in 1 .. Len(s)
    OBVIOUS
  <2> QED BY <2>1, ElementOfSeq
<1>2. /\ SubSeq(s, m, n) \in Seq(B)
      /\ Len(SubSeq(s, m, n)) = IF m <= n THEN n - m + 1 ELSE 0
      /\ \A i \in 1 .. (n - m + 1) : SubSeq(s, m, n)[i] = s[m + i - 1]
  BY <1>1, SubSeqProperties
<1>3. \A i \in 1 .. (n - m + 1) : m + i - 1 = (m + i) - 1
  OBVIOUS
<1> QED BY <1>2, <1>3

(* The beginning of a sequence, element by element. *)
LEMMA PrefixFacts ==
  ASSUME NEW B, NEW s \in Seq(B), NEW t \in Seq(B)
  PROVE  IsPrefix(s, t) <=>
           Len(s) <= Len(t) /\ \A i \in 1 .. Len(s) : s[i] = t[i]
PROOF
<1> DEFINE n == Len(s)
           u == SubSeq(s, 1, n)
           v == SubSeq(t, 1, n)
<1>1. n \in Nat /\ Len(t) \in Nat
  OBVIOUS
<1> SUFFICES ASSUME n <= Len(t)
             PROVE  u = v <=> \A i \in 1 .. n : s[i] = t[i]
  BY DEF IsPrefix
<1>2. /\ u \in Seq(B) /\ Len(u) = IF 1 <= n THEN (n - 1) + 1 ELSE 0
      /\ \A i \in 1 .. ((n - 1) + 1) : u[i] = s[(1 + i) - 1]
  BY <1>1, Taking
<1>3. /\ v \in Seq(B) /\ Len(v) = IF 1 <= n THEN (n - 1) + 1 ELSE 0
      /\ \A i \in 1 .. ((n - 1) + 1) : v[i] = t[(1 + i) - 1]
  BY <1>1, Taking
<1> HIDE DEF u, v, n
<1>4. \A i \in 1 .. n : i \in 1 .. ((n - 1) + 1) /\ (1 + i) - 1 = i
  BY <1>1
<1>5. \A i \in 1 .. n : u[i] = s[i] /\ v[i] = t[i]
  BY <1>2, <1>3, <1>4
<1>6. Len(u) = n /\ Len(v) = n
  BY <1>1, <1>2, <1>3
<1>7. ASSUME \A i \in 1 .. n : s[i] = t[i] PROVE u = v
  <2>1. \A i \in 1 .. Len(u) : u[i] = v[i]
    BY <1>5, <1>6, <1>7
  <2> QED BY <1>2, <1>3, <1>6, <2>1, SeqEqual
<1> QED BY <1>5, <1>7

(* A beginning is one still when more follows. *)
LEMMA PrefixOfJoin ==
  ASSUME NEW B, NEW s \in Seq(B), NEW t \in Seq(B), NEW u \in Seq(B),
         IsPrefix(s, t)
  PROVE  IsPrefix(s, t \o u)
PROOF
<1>1. Len(s) <= Len(t) /\ \A i \in 1 .. Len(s) : s[i] = t[i]
  BY PrefixFacts
<1>2. /\ t \o u \in Seq(B) /\ Len(t \o u) = Len(t) + Len(u)
      /\ Len(t) \in Nat /\ Len(u) \in Nat /\ Len(s) \in Nat
      /\ \A i \in 1 .. Len(t) : (t \o u)[i] = t[i]
  BY Joining
<1>3. \A i \in 1 .. Len(s) : i \in 1 .. Len(t)
  BY <1>1, <1>2
<1>4. \A i \in 1 .. Len(s) : s[i] = (t \o u)[i]
  BY <1>1, <1>2, <1>3
<1>5. Len(s) <= Len(t \o u)
  BY <1>1, <1>2
<1> QED BY <1>2, <1>4, <1>5, PrefixFacts

(* A sequence is a beginning of itself. *)
LEMMA PrefixOfItself ==
  ASSUME NEW B, NEW s \in Seq(B) PROVE IsPrefix(s, s)
PROOF
BY PrefixFacts

(* Joining is associative. *)
LEMMA JoinsAgree ==
  ASSUME NEW B, NEW s \in Seq(B), NEW t \in Seq(B), NEW u \in Seq(B)
  PROVE  s \o (t \o u) = (s \o t) \o u
PROOF
OBVIOUS

(* An append to the chain, as one extent or two, adds its data at the end  *)
(* of the content, and no extent is empty.                                 *)
LEMMA PiecesFacts ==
  ASSUME NEW B, NEW c \in Seq(Seq(B) \ {<<>>}), NEW data \in Seq(B),
         data # <<>>, NEW pieces \in Pieces(data)
  PROVE  /\ c \o pieces \in Seq(Seq(B) \ {<<>>})
         /\ FlattenSeq(c \o pieces) = FlattenSeq(c) \o data
         /\ pieces \in Seq(Seq(B) \ {<<>>})
PROOF
<1> DEFINE E == Seq(B) \ {<<>>}
<1>1. c \in Seq(Seq(B)) /\ c \in Seq(E)
  <2>1. \A x \in E : x \in Seq(B)
    OBVIOUS
  <2> QED BY SeqMonotonic
<1>2. FlattenSeq(c) \in Seq(B)
  BY <1>1, FlatType
<1>3. CASE pieces = <<data>>
  <2>1. data \in E
    OBVIOUS
  <2> HIDE DEF E
  <2>2. c \o <<data>> = Append(c, data)
    BY <1>1, <2>1, AppendIsConcat
  <2>3. FlattenSeq(Append(c, data)) = FlattenSeq(c) \o data
    BY <1>1, FlatAppend
  <2>4. <<data>> \in Seq(E) /\ c \o <<data>> \in Seq(E)
    BY <1>1, <2>1
  <2> QED BY <1>3, <2>2, <2>3, <2>4 DEF E
<1>4. ASSUME NEW k \in 1 .. (Len(data) - 1),
             pieces = <<SubSeq(data, 1, k), SubSeq(data, k + 1, Len(data))>>
      PROVE  /\ c \o pieces \in Seq(E) /\ pieces \in Seq(E)
             /\ FlattenSeq(c \o pieces) = FlattenSeq(c) \o data
  <2> DEFINE n == Len(data)
             x == SubSeq(data, 1, k)
             y == SubSeq(data, k + 1, n)
  <2>1. n \in Nat /\ k \in Nat /\ 1 <= k /\ k + 1 <= n
    BY <1>4
  <2>2. /\ x \in Seq(B) /\ Len(x) = IF 1 <= k THEN (k - 1) + 1 ELSE 0
        /\ \A i \in 1 .. ((k - 1) + 1) : x[i] = data[(1 + i) - 1]
    <3>1. 1 \in Nat \ {0} /\ k \in Int /\ k <= Len(data)
      BY <2>1
    <3> QED BY <3>1, Taking
  <2>3. /\ y \in Seq(B) /\ Len(y) = IF k + 1 <= n THEN (n - (k + 1)) + 1 ELSE 0
        /\ \A i \in 1 .. ((n - (k + 1)) + 1) : y[i] = data[((k + 1) + i) - 1]
    <3>1. k + 1 \in Nat \ {0} /\ n \in Int /\ n <= Len(data)
      BY <2>1
    <3> QED BY <3>1, Taking
  <2> HIDE DEF x, y, n
  <2>4. Len(x) = k /\ Len(y) = n - k
    BY <2>1, <2>2, <2>3
  <2>5. x \in E /\ y \in E
    <3>1. x # <<>>
      <4> SUFFICES ASSUME x = <<>> PROVE FALSE
        OBVIOUS
      <4>1. Len(x) = 0
        OBVIOUS
      <4> QED BY <2>1, <2>4, <4>1
    <3>2. y # <<>>
      <4> SUFFICES ASSUME y = <<>> PROVE FALSE
        OBVIOUS
      <4>1. Len(y) = 0
        OBVIOUS
      <4> QED BY <2>1, <2>4, <4>1
    <3> QED BY <2>2, <2>3, <3>1, <3>2
  <2>6. x \o y = data
    <3>1. /\ x \o y \in Seq(B) /\ Len(x \o y) = n
          /\ \A i \in 1 .. k : (x \o y)[i] = x[i]
          /\ \A i \in 1 .. (n - k) : (x \o y)[k + i] = y[i]
      <4>1. /\ x \o y \in Seq(B) /\ Len(x \o y) = Len(x) + Len(y)
            /\ \A i \in 1 .. Len(x) : (x \o y)[i] = x[i]
            /\ \A i \in 1 .. Len(y) : (x \o y)[Len(x) + i] = y[i]
        <5>1. x \in Seq(B) /\ y \in Seq(B)
          BY <2>2, <2>3
        <5> QED BY <5>1, Joining
      <4> QED BY <2>1, <2>4, <4>1
    <3>2. \A i \in 1 .. n : (x \o y)[i] = data[i]
      <4> TAKE i \in 1 .. n
      <4>1. CASE i <= k
        <5>1. i \in 1 .. k /\ i \in 1 .. ((k - 1) + 1) /\ (1 + i) - 1 = i
          BY <2>1, <4>1
        <5> QED BY <2>2, <3>1, <5>1
      <4>2. CASE ~(i <= k)
        <5>1. /\ i - k \in 1 .. (n - k) /\ k + (i - k) = i
              /\ i - k \in 1 .. ((n - (k + 1)) + 1)
              /\ ((k + 1) + (i - k)) - 1 = i
          BY <2>1, <4>2
        <5> QED BY <2>3, <3>1, <5>1
      <4> QED BY <4>1, <4>2
    <3>3. Len(data) = n
      BY DEF n
    <3> QED BY <3>1, <3>2, <3>3, SeqEqual
  <2>7. pieces = <<x, y>>
    BY <1>4 DEF x, y, n
  <2> HIDE DEF E
  <2>8. Append(c, x) \in Seq(E) /\ Append(Append(c, x), y) \in Seq(E)
        /\ <<x, y>> \in Seq(E)
    BY <1>1, <2>5
  <2>9. c \o <<x, y>> = Append(Append(c, x), y)
    BY <1>1, <2>5
  <2>10. Append(c, x) \in Seq(Seq(B))
    BY <1>1, <2>2
  <2>11. FlattenSeq(Append(c, x)) = FlattenSeq(c) \o x
    BY <1>1, <2>2, FlatAppend
  <2>12. FlattenSeq(Append(Append(c, x), y)) = FlattenSeq(Append(c, x)) \o y
    BY <2>3, <2>10, FlatAppend
  <2>13. (FlattenSeq(c) \o x) \o y = FlattenSeq(c) \o (x \o y)
    <3>1. x \in Seq(B) /\ y \in Seq(B)
      BY <2>2, <2>3
    <3>2. FlattenSeq(c) \in Seq(B)
      BY <1>2
    <3> HIDE DEF x, y
    <3> QED BY <3>1, <3>2, JoinsAgree
  <2> QED BY <2>6, <2>7, <2>8, <2>9, <2>11, <2>12, <2>13
<1>5. \/ pieces = <<data>>
      \/ \E k \in 1 .. (Len(data) - 1) :
           pieces = <<SubSeq(data, 1, k), SubSeq(data, k + 1, Len(data))>>
  BY DEF Pieces
<1> QED BY <1>3, <1>4, <1>5

(* The content up to an extent is what comes before it, and the extent. *)
LEMMA FlatUpTo ==
  ASSUME NEW B, NEW c \in Seq(Seq(B)), NEW k \in 1 .. Len(c)
  PROVE  /\ SubSeq(c, 1, k) = Append(SubSeq(c, 1, k - 1), c[k])
         /\ SubSeq(c, 1, k) \in Seq(Seq(B))
              /\ SubSeq(c, 1, k - 1) \in Seq(Seq(B))
         /\ FlattenSeq(SubSeq(c, 1, k)) = FlattenSeq(SubSeq(c, 1,
              k - 1)) \o c[k]
         /\ c[k] \in Seq(B)
PROOF
<1>1. Len(c) \in Nat /\ c[k] \in Seq(B) /\ k - 1 \in Int /\ k - 1 <= Len(c)
  OBVIOUS
<1>2. SubSeq(c, 1, k) \in Seq(Seq(B)) /\ SubSeq(c, 1, k - 1) \in Seq(Seq(B))
  BY <1>1, Taking
<1>3. SubSeq(c, 1, k) = SubSeq(c, 1, k - 1) \o <<c[k]>>
  <2>1. 1 \in 1 .. Len(c) /\ k \in 1 .. Len(c)
    BY <1>1
  <2> QED BY <2>1, SubSeqRecursiveSecond
<1>4. SubSeq(c, 1, k - 1) \o <<c[k]>> = Append(SubSeq(c, 1, k - 1), c[k])
  BY <1>1, <1>2, AppendIsConcat
<1>5. FlattenSeq(Append(SubSeq(c, 1, k - 1), c[k]))
        = FlattenSeq(SubSeq(c, 1, k - 1)) \o c[k]
  BY <1>1, <1>2, FlatAppend
<1> QED BY <1>1, <1>2, <1>3, <1>4, <1>5

(* Part of a sequence, counted from the element before it. *)
LEMMA Part ==
  ASSUME NEW B, NEW s \in Seq(B), NEW k \in Nat, NEW n \in Int, n <= Len(s)
  PROVE  /\ SubSeq(s, k + 1, n) \in Seq(B)
         /\ Len(SubSeq(s, k + 1, n)) = IF k < n THEN n - k ELSE 0
         /\ \A i \in 1 .. (n - k) : SubSeq(s, k + 1, n)[i] = s[k + i]
PROOF
<1> DEFINE m == k + 1
           u == SubSeq(s, m, n)
<1>1. m \in Nat \ {0} /\ m = k + 1
  OBVIOUS
<1> HIDE DEF m
<1>2. /\ u \in Seq(B) /\ Len(u) = IF m <= n THEN (n - m) + 1 ELSE 0
      /\ \A i \in 1 .. ((n - m) + 1) : u[i] = s[(m + i) - 1]
  BY <1>1, Taking
<1> HIDE DEF u
<1>3. Len(u) = IF k < n THEN n - k ELSE 0
  BY <1>1, <1>2
<1>4. \A i \in 1 .. (n - k) : i \in 1 .. ((n - m) + 1) /\ (m + i) - 1 = k + i
  BY <1>1
<1>5. \A i \in 1 .. (n - k) : u[i] = s[k + i]
  BY <1>2, <1>4
<1> QED BY <1>2, <1>3, <1>5 DEF u, m

(* What a range has in two joined sequences is what it has in the first,   *)
(* and then what it has in the second.                                     *)
LEMMA PartOfJoin ==
  ASSUME NEW B, NEW s \in Seq(B), NEW t \in Seq(B), NEW at \in Nat,
         NEW end \in Nat
  PROVE  SubSeq(s, at + 1, Least(end, Len(s)))
           \o SubSeq(t, Most(at - Len(s), 0) + 1, Least(end - Len(s), Len(t)))
         = SubSeq(s \o t, at + 1, Least(end, Len(s) + Len(t)))
PROOF
<1> DEFINE m == Len(s)
           n == Len(t)
           k == Most(at - m, 0)
           p == Least(end, m)
           q == Least(end - m, n)
           r == Least(end, m + n)
           u == SubSeq(s, at + 1, p)
           v == SubSeq(t, k + 1, q)
           w == SubSeq(s \o t, at + 1, r)
           a == IF at < p THEN p - at ELSE 0
           b == IF k < q THEN q - k ELSE 0
           c == IF at < r THEN r - at ELSE 0
<1>1. /\ m \in Nat /\ n \in Nat /\ s \o t \in Seq(B) /\ Len(s \o t) = m + n
      /\ \A i \in 1 .. m : (s \o t)[i] = s[i]
      /\ \A i \in 1 .. n : (s \o t)[m + i] = t[i]
  BY Joining
<1> HIDE DEF m, n
<1>2. /\ k \in Nat /\ p \in Int /\ q \in Int /\ r \in Int
      /\ p <= m /\ q <= n /\ r <= m + n
      /\ k = IF at < m THEN 0 ELSE at - m
      /\ p = IF end < m THEN end ELSE m
      /\ q = IF end - m < n THEN end - m ELSE n
      /\ r = IF end < m + n THEN end ELSE m + n
  BY <1>1 DEF Least, Most
<1> HIDE DEF k, p, q, r
<1>3. /\ u \in Seq(B) /\ Len(u) = a
      /\ \A i \in 1 .. (p - at) : u[i] = s[at + i]
  <2>1. p \in Int /\ p <= Len(s)
    BY <1>2 DEF m
  <2> QED BY <2>1, Part
<1>4. /\ v \in Seq(B) /\ Len(v) = b
      /\ \A i \in 1 .. (q - k) : v[i] = t[k + i]
  <2>1. k \in Nat /\ q \in Int /\ q <= Len(t)
    BY <1>2 DEF n
  <2> QED BY <2>1, Part
<1>5. /\ w \in Seq(B) /\ Len(w) = c
      /\ \A i \in 1 .. (r - at) : w[i] = (s \o t)[at + i]
  <2>1. r <= Len(s \o t)
    BY <1>1, <1>2
  <2> QED BY <1>1, <1>2, <2>1, Part
<1> HIDE DEF u, v, w
<1>6. a \in Nat /\ b \in Nat /\ c \in Nat /\ c = a + b
  BY <1>1, <1>2
<1>7. /\ u \o v \in Seq(B) /\ Len(u \o v) = a + b
      /\ \A i \in 1 .. a : (u \o v)[i] = u[i]
      /\ \A i \in 1 .. b : (u \o v)[a + i] = v[i]
  <2>1. /\ u \o v \in Seq(B) /\ Len(u \o v) = Len(u) + Len(v)
        /\ \A i \in 1 .. Len(u) : (u \o v)[i] = u[i]
        /\ \A i \in 1 .. Len(v) : (u \o v)[Len(u) + i] = v[i]
    <3>1. u \in Seq(B) /\ v \in Seq(B)
      BY <1>3, <1>4
    <3> QED BY <3>1, Joining
  <2>2. Len(u) = a /\ Len(v) = b
    BY <1>3, <1>4
  <2> HIDE DEF a, b
  <2> QED BY <2>1, <2>2
<1>8. ASSUME NEW i \in 1 .. c PROVE (u \o v)[i] = w[i]
  <2>1. /\ w[i] = (s \o t)[at + i] /\ i \in Nat /\ i # 0
        /\ at + i <= r
    <3>1. i \in 1 .. (r - at) /\ at + i <= r /\ i \in Nat /\ i # 0
      BY <1>2, <1>8
    <3> QED BY <1>5, <3>1
  <2>2. CASE i <= a
    <3>1. i \in 1 .. a /\ i \in 1 .. (p - at) /\ at + i \in 1 .. m
      BY <1>1, <1>2, <2>1, <2>2
    <3>2. u[i] = s[at + i]
      BY <1>3, <3>1
    <3>3. (s \o t)[at + i] = s[at + i]
      BY <1>1, <3>1
    <3>4. (u \o v)[i] = u[i]
      <4> HIDE DEF a
      <4> QED BY <1>7, <3>1
    <3> QED BY <2>1, <3>2, <3>3, <3>4
  <2>3. CASE ~(i <= a)
    <3> DEFINE j == i - a
    <3>1. /\ j \in 1 .. b /\ a + j = i
      <4>1. i <= c /\ a + b = c
        BY <1>6, <1>8
      <4> HIDE DEF a, b, c
      <4> QED BY <1>6, <2>1, <2>3, <4>1
    <3>2. j \in 1 .. (q - k) /\ k + j \in 1 .. n
      <4>1. j \in Int /\ 1 <= j /\ j <= b
        BY <3>1
      <4> HIDE DEF j
      <4> QED BY <1>1, <1>2, <4>1
    <3>3. m + (k + j) = at + i
      <4>1. i = a + j /\ j \in Int /\ 1 <= j /\ j <= b
        BY <3>1
      <4>2. a \in Nat
        BY <1>6
      <4>3. m + k = at + a
        <5>1. 1 <= b
          BY <4>1, <1>6
        <5> QED BY <1>1, <1>2, <5>1
      <4> HIDE DEF a, b, j
      <4> QED BY <1>1, <1>2, <4>1, <4>2, <4>3
    <3> HIDE DEF j
    <3>4. v[j] = t[k + j]
      BY <1>4, <3>2
    <3>5. (s \o t)[m + (k + j)] = t[k + j]
      BY <1>1, <3>2
    <3>6. (u \o v)[i] = v[j]
      <4> HIDE DEF a, b
      <4> QED BY <1>7, <3>1
    <3> QED BY <2>1, <3>3, <3>4, <3>5, <3>6
  <2> QED BY <2>2, <2>3
<1> HIDE DEF a, b, c
<1>9. u \o v = w
  BY <1>5, <1>6, <1>7, <1>8, SeqEqual
<1> QED BY <1>9 DEF u, v, w, k, p, q, r, m, n

-----------------------------------------------------------------------------
(* What seek_full_data_from_extent reads. *)

(* What a range has in one extent is made of bytes, and the extent adds    *)
(* its data to what comes before.                                          *)
LEMMA ExtentParts ==
  ASSUME NEW B, chain \in Seq(Seq(B)), NEW start \in Nat, NEW end \in Nat,
         NEW i \in 1 .. Len(chain)
  PROVE  /\ InExtent(i, start, end) \in Seq(B)
         /\ FlattenSeq(SubSeq(chain, 1, i - 1)) \in Seq(B)
         /\ FlattenSeq(SubSeq(chain, 1, i))
              = FlattenSeq(SubSeq(chain, 1, i - 1)) \o chain[i]
         /\ chain[i] \in Seq(B)
PROOF
<1> DEFINE f == FlattenSeq(SubSeq(chain, 1, i - 1))
           k == Most(start - Len(f), 0)
           n == Least(end - Len(f), Len(chain[i]))
<1>1. /\ SubSeq(chain, 1, i - 1) \in Seq(Seq(B)) /\ chain[i] \in Seq(B)
      /\ FlattenSeq(SubSeq(chain, 1, i)) = f \o chain[i]
  BY FlatUpTo
<1>2. f \in Seq(B)
  BY <1>1, FlatType
<1> HIDE DEF f
<1>3. k \in Nat /\ n \in Int /\ n <= Len(chain[i])
  <2>1. Len(f) \in Nat /\ Len(chain[i]) \in Nat
    BY <1>1, <1>2
  <2> QED BY <2>1 DEF Least, Most
<1> HIDE DEF k, n
<1>4. SubSeq(chain[i], k + 1, n) \in Seq(B)
  BY <1>1, <1>3, Part
<1>5. InExtent(i, start, end) = SubSeq(chain[i], k + 1, n)
  BY DEF InExtent, k, n, f
<1> QED BY <1>1, <1>2, <1>4, <1>5 DEF f

(* A sequence with one element more. *)
LEMMA OneMore ==
  ASSUME NEW B, NEW s \in Seq(B), NEW x \in B, NEW k, k = Len(s)
  PROVE  /\ Append(s, x) \in Seq(B) /\ Len(Append(s, x)) = k + 1
         /\ Append(s, x)[k + 1] = x
         /\ \A i \in 1 .. k : Append(s, x)[i] = s[i]
PROOF
OBVIOUS

(* seek_full_data_from_extent (mod.rs) goes over the extents and takes     *)
(* from each what the range has in it; together these are the range of the *)
(* file's content, cut at its end, whatever the lengths of the extents and *)
(* wherever the range begins and ends.                                     *)
THEOREM SeekReturnsContent ==
  ASSUME NEW B, chain \in Seq(Seq(B)), NEW start \in Nat, NEW end \in Nat
  PROVE  SeekFullData(start, end)
           = SubSeq(Content, start + 1, Least(end, FileSize))
PROOF
<1> DEFINE F(k) == FlattenSeq(SubSeq(chain, 1, k))
           parts(k) == [i \in 1 .. k |-> InExtent(i, start, end)]
           S == {k \in Nat : k <= Len(chain) =>
                   /\ parts(k) \in Seq(Seq(B)) /\ F(k) \in Seq(B)
                   /\ FlattenSeq(parts(k))
                        = SubSeq(F(k), start + 1, Least(end, Len(F(k))))}
<1>1. Len(chain) \in Nat /\ DOMAIN chain = 1 .. Len(chain)
  BY LenProperties
<1>2. 0 \in S
  <2>1. SubSeq(chain, 1, 0) = <<>>
    BY SubSeqEmpty
  <2>2. F(0) = <<>>
    BY <2>1, FlatEmpty
  <2>3. parts(0) = <<>>
    OBVIOUS
  <2>4. Least(end, 0) = 0
    BY DEF Least
  <2>5. Len(<<>>) = 0 /\ SubSeq(<<>>, start + 1, 0) = <<>>
    BY SubSeqEmpty
  <2>6. <<>> \in Seq(Seq(B)) /\ <<>> \in Seq(B)
    OBVIOUS
  <2>7. SubSeq(F(0), start + 1, Least(end, Len(F(0)))) = <<>>
    BY <2>2, <2>4, <2>5
  <2> HIDE DEF F, parts
  <2> QED BY <2>2, <2>3, <2>6, <2>7, FlatEmpty DEF S
<1>3. ASSUME NEW k \in Nat, k \in S PROVE k + 1 \in S
  <2> SUFFICES ASSUME k + 1 <= Len(chain)
               PROVE  /\ parts(k + 1) \in Seq(Seq(B)) /\ F(k + 1) \in Seq(B)
                      /\ FlattenSeq(parts(k + 1))
                           = SubSeq(F(k + 1), start + 1,
                                    Least(end, Len(F(k + 1))))
    OBVIOUS
  <2> DEFINE x == InExtent(k + 1, start, end)
             y == chain[k + 1]
  <2>1. /\ parts(k) \in Seq(Seq(B)) /\ F(k) \in Seq(B)
        /\ FlattenSeq(parts(k))
             = SubSeq(F(k), start + 1, Least(end, Len(F(k))))
    <3>1. k <= Len(chain)
      BY <1>1
    <3> QED BY <1>3, <3>1
  <2>2. k + 1 \in 1 .. Len(chain) /\ (k + 1) - 1 = k
    BY <1>1
  <2>3. x \in Seq(B) /\ y \in Seq(B) /\ F(k + 1) = F(k) \o y
    BY <2>2, ExtentParts
  <2>4. x = SubSeq(y, Most(start - Len(F(k)), 0) + 1,
                   Least(end - Len(F(k)), Len(y)))
    BY <2>2 DEF InExtent
  <2>5. parts(k + 1) = Append(parts(k), x)
    <3>1. Len(parts(k)) = k
      OBVIOUS
    <3>2. parts(k + 1) \in Seq(Seq(B))
      <4>1. ASSUME NEW i \in 1 .. (k + 1)
            PROVE  InExtent(i, start, end) \in Seq(B)
        <5>1. i \in 1 .. Len(chain)
          BY <1>1
        <5> QED BY <5>1, ExtentParts
      <4> QED BY <4>1
    <3>3. Append(parts(k), x) \in Seq(Seq(B))
            /\ Len(Append(parts(k), x)) = k + 1
          /\ Append(parts(k), x)[k + 1] = x
          /\ \A i \in 1 .. k : Append(parts(k), x)[i] = parts(k)[i]
      <4> DEFINE s == parts(k)
                 D == Seq(B)
      <4>1. s \in Seq(D) /\ x \in D /\ k = Len(s)
        BY <2>1, <2>3, <3>1
      <4> HIDE DEF s, D, x
      <4>2. /\ Append(s, x) \in Seq(D) /\ Len(Append(s, x)) = k + 1
            /\ Append(s, x)[k + 1] = x
            /\ \A i \in 1 .. k : Append(s, x)[i] = s[i]
        BY <4>1, OneMore
      <4> QED BY <4>2 DEF s, D
    <3>4. Len(parts(k + 1)) = k + 1
      OBVIOUS
    <3>5. \A i \in 1 .. (k + 1) : parts(k + 1)[i] = Append(parts(k), x)[i]
      <4> TAKE i \in 1 .. (k + 1)
      <4>1. CASE i = k + 1
        BY <3>3, <4>1
      <4>2. CASE i # k + 1
        <5>1. i \in 1 .. k
          BY <4>2
        <5>2. parts(k)[i] = InExtent(i, start, end)
              /\ parts(k + 1)[i] = InExtent(i, start, end)
          BY <5>1
        <5> QED BY <3>3, <5>1, <5>2
      <4> QED BY <4>1, <4>2
    <3> HIDE DEF parts, x
    <3> QED BY <3>2, <3>3, <3>4, <3>5, SeqEqual
  <2> HIDE DEF parts, x, y, F
  <2>6. FlattenSeq(parts(k + 1)) = FlattenSeq(parts(k)) \o x
    BY <2>1, <2>3, <2>5, FlatAppend
  <2>7. /\ F(k) \o y \in Seq(B) /\ Len(F(k) \o y) = Len(F(k)) + Len(y)
        /\ parts(k + 1) \in Seq(Seq(B))
    <3> DEFINE f == F(k)
               s == parts(k)
               D == Seq(B)
    <3>1. f \in Seq(B) /\ y \in Seq(B) /\ s \in Seq(D) /\ x \in D
      BY <2>1, <2>3
    <3> HIDE DEF f, s, D
    <3>2. f \o y \in Seq(B) /\ Len(f \o y) = Len(f) + Len(y)
      BY <3>1 DEF D
    <3>3. Append(s, x) \in Seq(D)
      BY <3>1
    <3> QED BY <2>5, <3>2, <3>3 DEF f, s, D
  <2>8. SubSeq(F(k), start + 1, Least(end, Len(F(k)))) \o x
          = SubSeq(F(k) \o y, start + 1, Least(end, Len(F(k)) + Len(y)))
    BY <2>1, <2>3, <2>4, PartOfJoin
  <2> QED BY <2>1, <2>3, <2>6, <2>7, <2>8
<1>4. Len(chain) \in S
  <2> HIDE DEF S
  <2> QED BY <1>1, <1>2, <1>3, SetInduction
<1>5. SubSeq(chain, 1, Len(chain)) = chain
  BY SubSeqFull
<1>6. SeekFullData(start, end) = FlattenSeq(parts(Len(chain)))
  BY <1>1 DEF SeekFullData
<1>7. F(Len(chain)) = Content
  BY <1>5 DEF Content
<1>8. FlattenSeq(parts(Len(chain)))
        = SubSeq(F(Len(chain)), start + 1, Least(end, Len(F(Len(chain)))))
  <2> HIDE DEF F, parts
  <2> QED BY <1>1, <1>4 DEF S
<1> HIDE DEF F, parts, S
<1> QED BY <1>6, <1>7, <1>8 DEF FileSize

-----------------------------------------------------------------------------
(* The bytes of one client, in a sequence of bytes. *)

(* The bytes of a client in two joined sequences are those in either. *)
LEMMA NumbersOfJoin ==
  ASSUME NEW h, NEW s \in Seq(Byte), NEW t \in Seq(Byte)
  PROVE  Numbers(s \o t, h) = Numbers(s, h) \cup Numbers(t, h)
PROOF
<1> DEFINE m == Len(s)
           n == Len(t)
           u == s \o t
<1>1. /\ m \in Nat /\ n \in Nat /\ DOMAIN s = 1 .. m /\ DOMAIN t = 1 .. n
      /\ DOMAIN u = 1 .. (m + n)
      /\ \A i \in 1 .. m : u[i] = s[i]
      /\ \A i \in 1 .. n : u[m + i] = t[i]
  BY Joining
<1> HIDE DEF u, m, n
<1>2. ASSUME NEW x \in Numbers(s, h) PROVE x \in Numbers(u, h)
  <2>1. PICK i \in DOMAIN s : s[i][1] = h /\ x = s[i][2]
    BY DEF Numbers, Sent
  <2>2. i \in DOMAIN u /\ u[i] = s[i]
    BY <1>1, <2>1
  <2> QED BY <2>1, <2>2 DEF Numbers, Sent
<1>3. ASSUME NEW x \in Numbers(t, h) PROVE x \in Numbers(u, h)
  <2>1. PICK i \in DOMAIN t : t[i][1] = h /\ x = t[i][2]
    BY DEF Numbers, Sent
  <2>2. m + i \in DOMAIN u /\ u[m + i] = t[i]
    BY <1>1, <2>1
  <2> QED BY <2>1, <2>2 DEF Numbers, Sent
<1>4. ASSUME NEW x \in Numbers(u, h)
      PROVE  x \in Numbers(s, h) \/ x \in Numbers(t, h)
  <2>1. PICK i \in DOMAIN u : u[i][1] = h /\ x = u[i][2]
    BY DEF Numbers, Sent
  <2>2. CASE i <= m
    <3>1. i \in DOMAIN s /\ u[i] = s[i]
      BY <1>1, <2>1, <2>2
    <3> QED BY <2>1, <3>1 DEF Numbers, Sent
  <2>3. CASE ~(i <= m)
    <3>1. i - m \in 1 .. n /\ m + (i - m) = i
      BY <1>1, <2>1, <2>3
    <3>2. i - m \in DOMAIN t /\ u[i] = t[i - m]
      BY <1>1, <3>1
    <3> QED BY <2>1, <3>2 DEF Numbers, Sent
  <2> QED BY <2>2, <2>3
<1> QED BY <1>2, <1>3, <1>4 DEF u

(* They are in order if they are in each, and all in the first come before *)
(* all in the second.                                                      *)
LEMMA OrderOfJoin ==
  ASSUME NEW h, NEW s \in Seq(Byte), NEW t \in Seq(Byte)
  PROVE  InOrder(s \o t, h) <=>
           /\ InOrder(s, h) /\ InOrder(t, h)
           /\ \A x \in Numbers(s, h) : \A y \in Numbers(t, h) : x < y
PROOF
<1> DEFINE m == Len(s)
           n == Len(t)
           u == s \o t
<1>1. /\ m \in Nat /\ n \in Nat /\ DOMAIN s = 1 .. m /\ DOMAIN t = 1 .. n
      /\ DOMAIN u = 1 .. (m + n)
      /\ \A i \in 1 .. m : u[i] = s[i]
      /\ \A i \in 1 .. n : u[m + i] = t[i]
  BY Joining
<1> HIDE DEF u, m, n
<1>2. ASSUME InOrder(u, h)
      PROVE  /\ InOrder(s, h) /\ InOrder(t, h)
             /\ \A x \in Numbers(s, h) : \A y \in Numbers(t, h) : x < y
  <2>1. \A i, j \in 1 .. (m + n) :
          u[i][1] = h /\ u[j][1] = h /\ i < j => u[i][2] < u[j][2]
    BY <1>1, <1>2 DEF InOrder, Sent
  <2>2. ASSUME NEW i \in 1 .. m, NEW j \in 1 .. m, i < j, s[i][1] = h,
                 s[j][1] = h
        PROVE  s[i][2] < s[j][2]
    <3>1. /\ i \in 1 .. (m + n) /\ j \in 1 .. (m + n)
          /\ u[i] = s[i] /\ u[j] = s[j]
      BY <1>1
    <3> QED BY <2>1, <2>2, <3>1
  <2>3. ASSUME NEW i \in 1 .. n, NEW j \in 1 .. n, i < j, t[i][1] = h,
                 t[j][1] = h
        PROVE  t[i][2] < t[j][2]
    <3>1. /\ m + i \in 1 .. (m + n) /\ m + j \in 1 .. (m + n) /\ m + i < m + j
          /\ u[m + i] = t[i] /\ u[m + j] = t[j]
      BY <1>1, <2>3
    <3> QED BY <2>1, <2>3, <3>1
  <2>4. ASSUME NEW x \in Numbers(s, h), NEW y \in Numbers(t, h) PROVE x < y
    <3>1. PICK i \in 1 .. m : s[i][1] = h /\ x = s[i][2]
      BY <1>1 DEF Numbers, Sent
    <3>2. PICK j \in 1 .. n : t[j][1] = h /\ y = t[j][2]
      BY <1>1 DEF Numbers, Sent
    <3>3. /\ i \in 1 .. (m + n) /\ m + j \in 1 .. (m + n) /\ i < m + j
          /\ u[i] = s[i] /\ u[m + j] = t[j]
      BY <1>1
    <3> QED BY <2>1, <3>1, <3>2, <3>3
  <2> QED BY <1>1, <2>2, <2>3, <2>4 DEF InOrder, Sent
<1>3. ASSUME InOrder(s, h), InOrder(t, h),
             \A x \in Numbers(s, h) : \A y \in Numbers(t, h) : x < y
      PROVE  InOrder(u, h)
  <2> SUFFICES ASSUME NEW i \in 1 .. (m + n), NEW j \in 1 .. (m + n), i < j,
                      u[i][1] = h, u[j][1] = h
               PROVE  u[i][2] < u[j][2]
    BY <1>1 DEF InOrder, Sent
  <2>1. CASE j <= m
    <3>1. i \in DOMAIN s /\ j \in DOMAIN s /\ u[i] = s[i] /\ u[j] = s[j]
      BY <1>1, <2>1
    <3> QED BY <1>3, <3>1 DEF InOrder, Sent
  <2>2. CASE i <= m /\ ~(j <= m)
    <3>1. i \in DOMAIN s /\ u[i] = s[i]
      BY <1>1, <2>2
    <3>2. j - m \in 1 .. n /\ m + (j - m) = j
      BY <1>1, <2>2
    <3>3. j - m \in DOMAIN t /\ u[j] = t[j - m]
      BY <1>1, <3>2
    <3>4. u[i][2] \in Numbers(s, h) /\ u[j][2] \in Numbers(t, h)
      BY <3>1, <3>3 DEF Numbers, Sent
    <3> QED BY <1>3, <3>4
  <2>3. CASE ~(i <= m) /\ ~(j <= m)
    <3>1. /\ i - m \in 1 .. n /\ m + (i - m) = i
          /\ j - m \in 1 .. n /\ m + (j - m) = j /\ i - m < j - m
      BY <1>1, <2>3
    <3>2. /\ i - m \in DOMAIN t /\ u[i] = t[i - m]
          /\ j - m \in DOMAIN t /\ u[j] = t[j - m]
      BY <1>1, <3>1
    <3> QED BY <1>3, <3>1, <3>2 DEF InOrder, Sent
  <2>4. i <= m \/ ~(i <= m)
    OBVIOUS
  <2>5. ~(j <= m) \/ j <= m
    OBVIOUS
  <2> QED BY <2>1, <2>2, <2>3, <2>4, <2>5
<1> QED BY <1>2, <1>3 DEF u

(* Where a client has no bytes they are in order. *)
LEMMA NumbersOfNone ==
  ASSUME NEW h, NEW s, \A i \in DOMAIN s : s[i][1] # h
  PROVE  Numbers(s, h) = {} /\ InOrder(s, h)
PROOF
BY DEF Numbers, InOrder, Sent

(* A byte of a client has its number among those it may send. *)
LEMMA NumbersType ==
  ASSUME NEW h \in Handles, NEW s \in Seq(Byte)
  PROVE  Numbers(s, h) \subseteq 1 .. MaxSent
PROOF
<1> SUFFICES ASSUME NEW i \in DOMAIN s, s[i][1] = h
             PROVE s[i][2] \in 1 .. MaxSent
  BY DEF Numbers, Sent
<1>1. s[i] \in Byte
  BY LenProperties, ElementOfSeq
<1>2. s[i] \notin Before
  BY ChainAssumption
<1>3. s[i] \in Handles \X (1 .. MaxSent)
  BY <1>1, <1>2 DEF Byte
<1> QED BY <1>3

(* What a client sends next are its next bytes, in order. *)
LEMMA DataFacts ==
  ASSUME NEW h \in Handles, sent[h] \in Nat, NEW n \in Nat,
         sent[h] + n <= MaxSent
  PROVE  /\ Data(h, n) \in Seq(Byte) /\ Len(Data(h, n)) = n
         /\ \A i \in DOMAIN Data(h, n) : Data(h, n)[i][1] = h
         /\ Numbers(Data(h, n), h) = (sent[h] + 1) .. (sent[h] + n)
         /\ InOrder(Data(h, n), h)
PROOF
<1> DEFINE d == Data(h, n)
<1>1. /\ DOMAIN d = 1 .. n
      /\ \A i \in 1 .. n : d[i] = <<h, sent[h] + i>>
  BY DEF Data
<1>2. \A i \in 1 .. n : d[i][1] = h /\ d[i][2] = sent[h] + i
  BY <1>1
<1>3. d \in Seq(Byte) /\ Len(d) = n
  <2>1. \A i \in 1 .. n : <<h, sent[h] + i>> \in Byte
    <3> TAKE i \in 1 .. n
    <3>1. sent[h] + i \in 1 .. MaxSent
      BY SizeAssumption
    <3> QED BY <3>1 DEF Byte
  <2> HIDE DEF Byte
  <2> QED BY <2>1 DEF Data
<1>4. Numbers(d, h) = (sent[h] + 1) .. (sent[h] + n)
  <2>1. ASSUME NEW x \in Numbers(d, h)
        PROVE x \in (sent[h] + 1) .. (sent[h] + n)
    <3>1. PICK i \in 1 .. n : x = d[i][2]
      BY <1>1 DEF Numbers, Sent
    <3> QED BY <1>2, <3>1
  <2>2. ASSUME NEW x \in (sent[h] + 1) .. (sent[h] + n)
        PROVE x \in Numbers(d, h)
    <3>1. x - sent[h] \in 1 .. n /\ sent[h] + (x - sent[h]) = x
      OBVIOUS
    <3>2. d[x - sent[h]][2] = x /\ x - sent[h] \in Sent(d, h)
      BY <1>1, <1>2, <3>1 DEF Sent
    <3> QED BY <3>2 DEF Numbers
  <2> QED BY <2>1, <2>2
<1>5. InOrder(d, h)
  <2> SUFFICES ASSUME NEW i \in 1 .. n, NEW j \in 1 .. n, i < j
               PROVE  d[i][2] < d[j][2]
    BY <1>1 DEF InOrder, Sent
  <2> HIDE DEF d
  <2> QED BY <1>2
<1> QED BY <1>1, <1>2, <1>3, <1>4, <1>5

(* A sequence is its first k elements and the rest. *)
LEMMA Halves ==
  ASSUME NEW B, NEW s \in Seq(B), NEW k \in Nat
  PROVE  /\ SubSeq(s, 1, Least(k, Len(s))) \in Seq(B)
         /\ SubSeq(s, k + 1, Len(s)) \in Seq(B)
         /\ SubSeq(s, 1, Least(k, Len(s))) \o SubSeq(s, k + 1, Len(s)) = s
PROOF
<1> DEFINE n == Len(s)
           p == Least(k, n)
           u == SubSeq(s, 1, p)
           v == SubSeq(s, k + 1, n)
<1>1. n \in Nat /\ n = Len(s)
  BY LenProperties
<1>2. p \in Nat /\ p <= n /\ p <= k /\ (p = k \/ (p = n /\ n <= k))
  BY <1>1 DEF Least
<1> HIDE DEF p, n
<1>3. /\ u \in Seq(B) /\ Len(u) = p /\ \A i \in 1 .. p : u[i] = s[i]
  <2>1. p \in Int /\ 0 \in Nat /\ p <= Len(s) /\ 1 = 0 + 1
    BY <1>1, <1>2
  <2>2. /\ SubSeq(s, 0 + 1, p) \in Seq(B)
        /\ Len(SubSeq(s, 0 + 1, p)) = IF 0 < p THEN p - 0 ELSE 0
        /\ \A i \in 1 .. (p - 0) : SubSeq(s, 0 + 1, p)[i] = s[0 + i]
    BY <2>1, Part
  <2>3. p - 0 = p /\ (~(0 < p) => p = 0)
    BY <1>2
  <2> QED BY <2>1, <2>2, <2>3
<1>4. /\ v \in Seq(B) /\ Len(v) = IF k < n THEN n - k ELSE 0
      /\ \A i \in 1 .. (n - k) : v[i] = s[k + i]
  <2>1. n \in Int /\ n <= Len(s)
    BY <1>1
  <2> QED BY <2>1, Part
<1> HIDE DEF u, v
<1>5. /\ u \o v \in Seq(B) /\ Len(u \o v) = Len(u) + Len(v)
      /\ \A i \in 1 .. Len(u) : (u \o v)[i] = u[i]
      /\ \A i \in 1 .. Len(v) : (u \o v)[Len(u) + i] = v[i]
  <2>1. u \in Seq(B) /\ v \in Seq(B)
    BY <1>3, <1>4
  <2> QED BY <2>1, Joining
<1>6. Len(u \o v) = n
  <2> DEFINE q == IF k < n THEN n - k ELSE 0
  <2>1. p + q = n
    BY <1>1, <1>2
  <2>2. Len(u) = p /\ Len(v) = q /\ Len(u \o v) = Len(u) + Len(v)
    BY <1>3, <1>4, <1>5
  <2> HIDE DEF q
  <2> QED BY <2>1, <2>2
<1>7. ASSUME NEW i \in 1 .. n
      PROVE  (u \o v)[i] = s[i]
  <2>1. CASE i <= p
    <3>1. i \in 1 .. p
      BY <2>1
    <3> QED BY <1>3, <1>5, <3>1
  <2>2. CASE ~(i <= p)
    <3> DEFINE j == i - p
    <3>1. p = k /\ j \in 1 .. (n - k) /\ k < n /\ p + j = i
      BY <1>1, <1>2, <2>2
    <3> HIDE DEF j
    <3>2. j \in 1 .. Len(v)
      BY <1>4, <3>1
    <3>3. (u \o v)[Len(u) + j] = v[j] /\ v[j] = s[k + j]
      BY <1>4, <1>5, <3>1, <3>2
    <3> QED BY <1>3, <3>1, <3>3
  <2> QED BY <2>1, <2>2
<1>8. u \o v = s
  BY <1>1, <1>5, <1>6, <1>7, SeqEqual
<1> QED BY <1>3, <1>4, <1>8 DEF u, v, p, n

(* Nothing is the beginning of any sequence. *)
LEMMA NoneIsBeginning ==
  ASSUME NEW B, NEW t \in Seq(B)
  PROVE  IsPrefix(<<>>, t)
PROOF
<1>1. <<>> \in Seq(B) /\ Len(<<>>) = 0 /\ Len(t) \in Nat
  BY LenProperties
<1>2. 0 <= Len(t) /\ \A i \in 1 .. 0 : <<>>[i] = t[i]
  BY <1>1
<1>3. SubSeq(<<>>, 1, 0) = <<>>
  BY SubSeqEmpty
<1>4. SubSeq(t, 1, 0) = <<>>
  BY SubSeqEmpty
<1> QED BY <1>1, <1>2, <1>3, <1>4 DEF IsPrefix

(* The extents before one are the beginning of the content. *)
LEMMA FlatsAreBeginnings ==
  ASSUME NEW B, NEW c \in Seq(Seq(B)), NEW k \in Nat \ {0}, k <= Len(c)
  PROVE  IsPrefix(FlattenSeq(SubSeq(c, 1, k - 1)), FlattenSeq(c))
PROOF
<1> DEFINE F(m) == FlattenSeq(SubSeq(c, 1, m))
           j == k - 1
           S == {m \in Nat : j + m <= Len(c) => IsPrefix(F(j), F(j + m))}
<1>1. j \in Nat /\ Len(c) \in Nat /\ j + 1 = k
  BY LenProperties
<1>2. F(j) \in Seq(B)
  <2>1. k \in 1 .. Len(c)
    BY <1>1
  <2>2. SubSeq(c, 1, k - 1) \in Seq(Seq(B))
    BY <2>1, FlatUpTo
  <2> QED BY <2>2, FlatType
<1>3. 0 \in S
  <2>1. j + 0 = j
    BY <1>1
  <2>2. IsPrefix(F(j), F(j))
    <3> HIDE DEF F, j
    <3> QED BY <1>2, PrefixOfItself
  <2>3. IsPrefix(F(j), F(j + 0))
    BY <2>1, <2>2
  <2> QED BY <2>3
<1> HIDE DEF j
<1>4. ASSUME NEW m \in Nat, m \in S PROVE m + 1 \in S
  <2> DEFINE n == j + (m + 1)
  <2> SUFFICES ASSUME n <= Len(c)
               PROVE  IsPrefix(F(j), F(n))
    OBVIOUS
  <2>1. n \in 1 .. Len(c) /\ n - 1 = j + m /\ j + m <= Len(c)
    BY <1>1
  <2>2. IsPrefix(F(j), F(j + m))
    BY <1>4, <2>1
  <2> HIDE DEF n, S
  <2>3. /\ SubSeq(c, 1, n - 1) \in Seq(Seq(B))
        /\ FlattenSeq(SubSeq(c, 1, n)) = FlattenSeq(SubSeq(c, 1,
             n - 1)) \o c[n]
        /\ c[n] \in Seq(B)
    BY <2>1, FlatUpTo
  <2>4. /\ F(n - 1) \in Seq(B) /\ F(n) = F(n - 1) \o c[n]
    BY <2>3, FlatType
  <2>5. IsPrefix(F(j), F(n - 1))
    BY <2>1, <2>2
  <2> DEFINE x == c[n]
  <2>6. x \in Seq(B) /\ F(n) = F(n - 1) \o x
    BY <2>3, <2>4
  <2> HIDE DEF F, x
  <2> QED BY <1>2, <2>4, <2>5, <2>6, PrefixOfJoin
<1>5. Nat \subseteq S
  <2> HIDE DEF S
  <2> QED BY <1>3, <1>4, SetInduction
<1> DEFINE l == Len(c) - j
<1>6. l \in Nat /\ j + l = Len(c)
  BY <1>1
<1> HIDE DEF l
<1>7. IsPrefix(F(j), F(Len(c)))
  <2>1. l \in S
    BY <1>5, <1>6
  <2>2. IsPrefix(F(j), F(j + l))
    BY <1>1, <1>6, <2>1
  <2> QED BY <1>6, <2>2
<1>8. SubSeq(c, 1, Len(c)) = c
  BY SubSeqFull
<1> QED BY <1>7, <1>8 DEF j

-----------------------------------------------------------------------------
(* What a step leaves alone. *)

(* Types of the parts of the state. *)
LEMMA FileFacts ==
  ASSUME Shapes
  PROVE  /\ chain \in Seq(Extent) /\ chain \in Seq(Seq(Byte))
         /\ Content \in Seq(Byte) /\ FileSize \in Nat /\ length \in Nat
         /\ \A h \in Handles :
              /\ buffer[h] \in Seq(Byte) /\ flight[h] \in Seq(Byte)
              /\ got[h] \in Seq(Byte)
              /\ sent[h] \in 0 .. MaxSent /\ from[h] \in Nat
              /\ offset[h] \in Nat /\ size[h] \in Nat
              /\ tail[h] \in Nat /\ total[h] \in Nat /\ gain[h] \in Nat
PROOF
<1>1. chain \in Seq(Extent) /\ length \in Nat
  BY DEF Shapes
<1>2. chain \in Seq(Seq(Byte))
  <2>1. \A x \in Extent : x \in Seq(Byte)
    BY DEF Extent
  <2> QED BY <1>1, <2>1, SeqMonotonic
<1>3. Content \in Seq(Byte)
  BY <1>2, FlatType DEF Content
<1>4. FileSize \in Nat
  BY <1>3, LenProperties DEF FileSize
<1>5. ASSUME NEW h \in Handles
      PROVE  /\ buffer[h] \in Seq(Byte) /\ flight[h] \in Seq(Byte)
             /\ got[h] \in Seq(Byte)
             /\ sent[h] \in 0 .. MaxSent /\ from[h] \in Nat
             /\ offset[h] \in Nat /\ size[h] \in Nat
             /\ tail[h] \in Nat /\ total[h] \in Nat /\ gain[h] \in Nat
  BY DEF Shapes
<1> QED BY <1>1, <1>2, <1>3, <1>4, <1>5

(* A handle that the step of another leaves alone, but for where its       *)
(* append is.                                                              *)
Kept(g) ==
  /\ state'[g] = state[g] /\ rest'[g] = rest[g] /\ sent'[g] = sent[g]
  /\ buffer'[g] = buffer[g] /\ flight'[g] = flight[g] /\ tail'[g] = tail[g]
  /\ offset'[g] = offset[g] /\ from'[g] = from[g] /\ got'[g] = got[g]

Pushed(g) ==
  \/ step'[g] = step[g]
  \/ step'[g] = "astray" /\ Holding(g)
  \/ step'[g] = "cutoff" /\ step[g] = "found"

(* Such a handle is at a stage that there is, and what it holds is its own *)
(* as before.                                                              *)
LEMMA OthersStay ==
  ASSUME Stages, Flights, Buffers, NEW g \in Handles, Kept(g), Pushed(g)
  PROVE  /\ Stage(g)' /\ Carries(g)' /\ Own(g)'
         /\ Appending(g)' => Appending(g)
PROOF
<1>1. Stage(g) /\ Carries(g) /\ Own(g)
  BY DEF Stages, Flights, Buffers
<1>2. Own(g)'
  BY <1>1 DEF Own, Kept
<1>3. Queue(g)'
  BY <1>1 DEF Stage, Queue, Kept
<1>4. Unused(g) => Unused(g)'
  BY DEF Unused, Kept
<1>5. step'[g] # step[g] =>
        step[g] \in {"freeing", "resolved", "cutoff", "linked", "found"}
        /\ step'[g] \in {"astray", "cutoff"}
  BY DEF Pushed, Holding
<1>6. step'[g] = "cutoff" => step[g] \in {"cutoff", "found"}
  BY DEF Pushed
<1>7. Stage(g)'
  BY <1>1, <1>3, <1>4, <1>5, <1>6 DEF Stage, Kept
<1>8. Carries(g)'
  BY <1>1, <1>5, <1>6 DEF Carries, Appending, Kept
<1>9. Appending(g)' => Appending(g)
  BY <1>5 DEF Appending, Kept
<1> QED BY <1>2, <1>7, <1>8, <1>9

(* The bytes of a client are in the file, on their way or in the buffer.   *)
LEMMA LineFacts ==
  ASSUME Shapes, NEW h \in Handles
  PROVE  /\ Line(h) \in Seq(Byte) /\ Line(h) = (Content \o flight[h]) \o buffer[h]
         /\ Content \o flight[h] \in Seq(Byte)
         /\ Line(h) = Content \o (flight[h] \o buffer[h])
         /\ flight[h] \o buffer[h] \in Seq(Byte)
         /\ Numbers(Line(h), h)
              = Numbers(Content, h) \cup Numbers(flight[h], h)
                  \cup Numbers(buffer[h], h)
PROOF
<1> DEFINE f == flight[h]
           b == buffer[h]
<1>1. Content \in Seq(Byte) /\ b \in Seq(Byte) /\ f \in Seq(Byte)
  BY FileFacts
<1>2. Line(h) = (Content \o f) \o b
  BY DEF Line
<1> HIDE DEF f, b
<1>3. Content \o f \in Seq(Byte) /\ f \o b \in Seq(Byte)
  BY <1>1, Joining
<1>4. (Content \o f) \o b \in Seq(Byte)
  BY <1>1, <1>3, Joining
<1>5. Numbers((Content \o f) \o b, h)
        = Numbers(Content, h) \cup Numbers(f, h) \cup Numbers(b, h)
  <2> DEFINE e == Content \o f
  <2>1. Numbers(e, h) = Numbers(Content, h) \cup Numbers(f, h)
    BY <1>1, NumbersOfJoin
  <2>2. e \in Seq(Byte)
    BY <1>3
  <2> HIDE DEF e
  <2>3. Numbers(e \o b, h) = Numbers(e, h) \cup Numbers(b, h)
    BY <1>1, <2>2, NumbersOfJoin
  <2> QED BY <2>1, <2>3 DEF e
<1>6. (Content \o f) \o b = Content \o (f \o b)
  BY <1>1, JoinsAgree
<1> QED BY <1>2, <1>3, <1>4, <1>5, <1>6 DEF f, b

(* The line is the same, and what excuses a client still does. *)
LEMMA SoundStays ==
  ASSUME NEW g \in Handles, Sound(g), Line(g)' = Line(g), sent'[g] = sent[g],
         g \in failed \cup replaced \cup overlapped
           => g \in failed' \cup replaced' \cup overlapped'
  PROVE  Sound(g)'
PROOF
BY DEF Sound

(* What is on its way or in a buffer is lost: then an error was returned   *)
(* or appends have overlapped, unless there was nothing.                   *)
LEMMA BytesDropped ==
  ASSUME Shapes, NEW h \in Handles, Sound(h), UNCHANGED chain,
         buffer'[h] = <<>>, flight'[h] = <<>>, sent'[h] = sent[h],
         h \in failed \cup replaced \cup overlapped
           => h \in failed' \cup replaced' \cup overlapped',
         \/ h \in failed' \cup replaced' \cup overlapped'
         \/ buffer[h] = <<>> /\ flight[h] = <<>>
  PROVE  Sound(h)'
PROOF
<1>1. Content \in Seq(Byte) /\ Content' = Content
  BY FileFacts DEF Content
<1>2. Line(h)' = Content
  <2>1. Line(h)' = (Content \o <<>>) \o <<>>
    BY <1>1 DEF Line
  <2> QED BY <1>1, <2>1, ConcatEmptySeq
<1>3. CASE buffer[h] = <<>> /\ flight[h] = <<>>
  <2>1. Line(h) = Content
    <3>1. Line(h) = (Content \o <<>>) \o <<>>
      BY <1>3 DEF Line
    <3> QED BY <1>1, <3>1, ConcatEmptySeq
  <2> QED BY <1>2, <2>1, SoundStays
<1>4. CASE h \in failed' \cup replaced' \cup overlapped'
  <2>1. InOrder(Content, h)
    <3> DEFINE t == flight[h] \o buffer[h]
    <3>1. Line(h) = Content \o t /\ t \in Seq(Byte) /\ InOrder(Line(h), h)
      BY LineFacts DEF Sound
    <3> HIDE DEF t
    <3> QED BY <1>1, <3>1, OrderOfJoin
  <2>2. Numbers(Content, h) \subseteq 1 .. sent[h]
    BY LineFacts DEF Sound
  <2> QED BY <1>2, <1>4, <2>1, <2>2 DEF Sound
<1> QED BY <1>3, <1>4

(* What was read is right while the file is the same. *)
LEMMA ReadStays ==
  ASSUME Content' = Content, NEW h, Faithful(h),
         offset'[h] = offset[h], from'[h] = from[h], got'[h] = got[h]
  PROVE  Faithful(h)'
PROOF
BY DEF Faithful, FileSize

(* A handle that has moved has read nothing there. *)
LEMMA MovedRead ==
  ASSUME NEW h \in Handles, NEW n \in Nat, offset'[h] = n, from'[h] = n,
         got'[h] = <<>>
  PROVE  Faithful(h)'
PROOF
<1>1. Len(<<>>) = 0 /\ DOMAIN <<>> = {} /\ n = n + 0
  OBVIOUS
<1> QED BY <1>1 DEF Faithful

(* A copy is what it was while the file is the same. *)
LEMMA CopyStays ==
  ASSUME Copies, UNCHANGED <<chain, copying>>,
         Copy \in replaced \cup cut => Copy \in replaced' \cup cut'
  PROVE  Copies'
PROOF
<1>1. UNCHANGED <<phase, next, pending, copy, initially>>
  BY DEF copying
<1>2. Content' = Content /\ FileSize' = FileSize
  BY DEF Content, FileSize
<1> QED BY <1>1, <1>2 DEF Copies

(* A step of one handle that leaves the file alone, and the others, keeps  *)
(* the invariant if it keeps what is said of this handle; and if it begins *)
(* an append, all that are under way have overlapped.                      *)
LEMMA QuietStep ==
  ASSUME FileInv, NEW h \in Handles, Shapes', UNCHANGED <<chain, copying>>,
         \A g \in Handles \ {h} : Kept(g) /\ step'[g] = step[g],
         UNCHANGED <<replaced, cut>>,
         failed \subseteq failed', overlapped \subseteq overlapped',
         Stage(h)', Carries(h)', Own(h)', Sound(h)', Follows(h)',
         h \notin replaced \cup cut => Faithful(h)',
         Appending(h)' /\ ~Appending(h) =>
           \A g \in Handles \ {h} : Appending(g) => {g, h} \subseteq overlapped'
  PROVE  FileInv'
PROOF
<1>1. /\ Shapes /\ Stages /\ Flights /\ Buffers /\ Together /\ Since
      /\ Lines /\ Reads /\ Copies
  BY DEF FileInv
<1>2. ASSUME NEW g \in Handles \ {h}
      PROVE  /\ Stage(g)' /\ Carries(g)' /\ Own(g)'
             /\ Appending(g)' => Appending(g)
  BY <1>1, OthersStay DEF Pushed
<1>3. Stages' /\ Flights' /\ Buffers'
  BY <1>2 DEF Stages, Flights, Buffers
<1>4. Together'
  <2> SUFFICES ASSUME NEW f \in Handles, NEW g \in Handles, f # g,
                      Appending(f)', Appending(g)'
               PROVE  f \in overlapped'
    BY DEF Together
  <2>1. CASE Appending(f) /\ Appending(g)
    BY <1>1, <2>1 DEF Together
  <2>2. CASE ~Appending(f) \/ ~Appending(g)
    <3>1. CASE f = h
      <4>1. g \in Handles \ {h} /\ Appending(g)
        BY <1>2, <3>1
      <4> QED BY <2>2, <3>1, <4>1
    <3>2. CASE f # h
      <4>1. f \in Handles \ {h} /\ Appending(f)
        BY <1>2, <3>2
      <4>2. g = h
        BY <1>2, <2>2, <4>1
      <4> QED BY <2>2, <4>1, <4>2
    <3> QED BY <3>1, <3>2
  <2> QED BY <2>1, <2>2
<1>5. Since'
  <2> SUFFICES ASSUME NEW g \in Handles \ {h}
               PROVE  Follows(g)'
    BY DEF Since
  <2>1. Follows(g)
    BY <1>1 DEF Since
  <2>2. step'[g] = step[g] /\ tail'[g] = tail[g]
    BY DEF Kept
  <2> QED BY <2>1, <2>2 DEF Follows
<1>6. Content' = Content
  BY DEF Content
<1>7. Lines'
  <2> SUFFICES ASSUME NEW g \in Handles \ {h}
               PROVE  Sound(g)'
    BY DEF Lines
  <2>1. Sound(g)
    BY <1>1 DEF Lines
  <2>2. Line(g)' = Line(g) /\ sent'[g] = sent[g]
    BY <1>6 DEF Line, Kept
  <2> QED BY <2>1, <2>2, SoundStays
<1>8. Reads'
  <2> SUFFICES ASSUME NEW g \in Handles \ {h}, g \notin replaced \cup cut
               PROVE  Faithful(g)'
    BY DEF Reads
  <2>1. Faithful(g)
    BY <1>1 DEF Reads
  <2> QED BY <1>6, <2>1, ReadStays DEF Kept
<1>9. Copies'
  BY <1>1, CopyStays
<1> QED BY <1>3, <1>4, <1>5, <1>7, <1>8, <1>9 DEF FileInv

-----------------------------------------------------------------------------
(* What an append links to the tail it has found. *)

(* What two chains joined hold is what they hold, joined. *)
LEMMA FlatJoin ==
  ASSUME NEW B, NEW s \in Seq(Seq(B)), NEW t \in Seq(Seq(B))
  PROVE  FlattenSeq(s \o t) = FlattenSeq(s) \o FlattenSeq(t)
PROOF
<1> DEFINE S == {k \in Nat : \A u \in Seq(Seq(B)) : Len(u) = k =>
                   FlattenSeq(s \o u) = FlattenSeq(s) \o FlattenSeq(u)}
<1>0. FlattenSeq(s) \in Seq(B)
  BY FlatType
<1>1. 0 \in S
  <2> SUFFICES ASSUME NEW u \in Seq(Seq(B)), Len(u) = 0
               PROVE  FlattenSeq(s \o u) = FlattenSeq(s) \o FlattenSeq(u)
    OBVIOUS
  <2>1. u = <<>>
    BY EmptySeq
  <2>2. s \o <<>> = s
    BY ConcatEmptySeq
  <2>3. FlattenSeq(s) \o <<>> = FlattenSeq(s)
    BY <1>0, ConcatEmptySeq
  <2> QED BY <2>1, <2>2, <2>3, FlatEmpty
<1>2. ASSUME NEW k \in Nat, k \in S PROVE k + 1 \in S
  <2> SUFFICES ASSUME NEW u \in Seq(Seq(B)), Len(u) = k + 1
               PROVE  FlattenSeq(s \o u) = FlattenSeq(s) \o FlattenSeq(u)
    OBVIOUS
  <2>1. PICK v \in Seq(Seq(B)), x \in Seq(B) : u = Append(v, x) /\ Len(v) = k
    <3> DEFINE v == SubSeq(u, 1, k)
    <3>1. v \in Seq(Seq(B)) /\ Len(v) = k /\ u = Append(v, u[k + 1])
      OBVIOUS
    <3>2. u[k + 1] \in Seq(B)
      OBVIOUS
    <3> HIDE DEF v
    <3> QED BY <3>1, <3>2
  <2>2. FlattenSeq(s \o v) = FlattenSeq(s) \o FlattenSeq(v)
    BY <1>2, <2>1
  <2>3. FlattenSeq(u) = FlattenSeq(v) \o x /\ FlattenSeq(v) \in Seq(B)
    BY <2>1, FlatAppend, FlatType
  <2>4. s \o v \in Seq(Seq(B))
    BY Joining
  <2>5. s \o Append(v, x) = Append(s \o v, x)
    <3> DEFINE E == Seq(B)
    <3>1. s \in Seq(E) /\ v \in Seq(E) /\ x \in E
      BY <2>1
    <3> HIDE DEF E
    <3>2. <<x>> \in Seq(E) /\ s \o v \in Seq(E)
      BY <3>1, Joining
    <3>3. Append(v, x) = v \o <<x>> /\ Append(s \o v, x) = (s \o v) \o <<x>>
      BY <3>1, <3>2, AppendIsConcat
    <3> QED BY <3>1, <3>2, <3>3, JoinsAgree
  <2>6. FlattenSeq(Append(s \o v, x)) = FlattenSeq(s \o v) \o x
    BY <2>4, FlatAppend
  <2> DEFINE p == FlattenSeq(s)
             q == FlattenSeq(v)
  <2>7. p \in Seq(B) /\ q \in Seq(B)
    BY <1>0, <2>3
  <2> HIDE DEF p, q
  <2>8. p \o (q \o x) = (p \o q) \o x
    BY <2>1, <2>7, JoinsAgree
  <2>9. FlattenSeq(s \o u) = (p \o q) \o x
    <3>1. FlattenSeq(s \o v) = p \o q
      BY <2>2 DEF p, q
    <3>2. s \o u = Append(s \o v, x)
      BY <2>1, <2>5
    <3> QED BY <2>6, <3>1, <3>2
  <2>10. FlattenSeq(u) = q \o x
    BY <2>3 DEF q
  <2>11. FlattenSeq(s \o u) = p \o FlattenSeq(u)
    BY <2>8, <2>9, <2>10
  <2> QED BY <2>11 DEF p
<1> HIDE DEF S
<1>3. Nat \subseteq S
  BY <1>1, <1>2, SetInduction
<1>4. Len(t) \in S
  BY <1>3, LenProperties
<1> QED BY <1>4 DEF S

(* The bytes of those whose appends overlapped, and those of one handle. *)
Loose == {b \in Byte : b[1] \in overlapped}
Mine(h) == {b \in Byte : b[1] = h}

(* LinkExtents, and AppendNew, where the tail found is none. *)
Links(h) ==
  \E pieces \in Pieces(flight[h]) : chain' = SubSeq(chain, 1, tail[h]) \o pieces

(* The extents up to the tail stay; those after it, if there are any, have *)
(* only bytes of appends that overlapped.                                  *)
LEMMA ChainAtTail ==
  ASSUME Shapes, Since, NEW h \in Handles, step[h] = "found"
  PROVE  LET n == tail[h]
             after == SubSeq(chain, n + 1, Len(chain))
         IN  /\ n \in Nat /\ n <= Len(chain) /\ Len(chain) \in Nat
             /\ SubSeq(chain, 1, n) \in Seq(Extent) /\ Len(SubSeq(chain, 1, n)) = n
             /\ \A k \in 1 .. n : SubSeq(chain, 1, n)[k] = chain[k]
             /\ after \in Seq(Seq(Loose))
             /\ chain = SubSeq(chain, 1, n) \o after
PROOF
<1> DEFINE n == tail[h]
           after == SubSeq(chain, n + 1, Len(chain))
<1>1. /\ chain \in Seq(Extent) /\ chain \in Seq(Seq(Byte)) /\ n \in Nat
      /\ Len(chain) \in Nat
  BY FileFacts, LenProperties
<1>2. /\ n <= Len(chain)
      /\ \A k \in DOMAIN chain : k > n =>
           \A i \in DOMAIN chain[k] : chain[k][i][1] \in overlapped
  BY DEF Since, Follows
<1> HIDE DEF n
<1>3. /\ SubSeq(chain, 1, n) \in Seq(Extent) /\ Len(SubSeq(chain, 1, n)) = n
      /\ \A k \in 1 .. n : SubSeq(chain, 1, n)[k] = chain[k]
  <2>1. n \in Int /\ 0 \in Nat /\ n <= Len(chain) /\ 1 = 0 + 1
    BY <1>1, <1>2
  <2>2. /\ SubSeq(chain, 0 + 1, n) \in Seq(Extent)
        /\ Len(SubSeq(chain, 0 + 1, n)) = IF 0 < n THEN n - 0 ELSE 0
        /\ \A i \in 1 .. (n - 0) : SubSeq(chain, 0 + 1, n)[i] = chain[0 + i]
    BY <1>1, <2>1, Part
  <2>3. n - 0 = n /\ (~(0 < n) => n = 0)
    BY <1>1
  <2> QED BY <2>1, <2>2, <2>3
<1>4. after \in Seq(Seq(Loose))
  <2>1. ASSUME NEW k \in (n + 1) .. Len(chain)
        PROVE  chain[k] \in Seq(Loose)
    <3>1. k \in DOMAIN chain /\ k > n
      BY <1>1, <2>1, LenProperties
    <3> DEFINE x == chain[k]
    <3>2. x \in Seq(Byte) /\ \A i \in DOMAIN x : x[i][1] \in overlapped
      BY <1>1, <1>2, <3>1, ElementOfSeq
    <3> HIDE DEF x
    <3>3. \A i \in 1 .. Len(x) : x[i] \in Loose
      <4>1. \A i \in 1 .. Len(x) : i \in DOMAIN x /\ x[i] \in Byte
        BY <3>2, LenProperties, ElementOfSeq
      <4> QED BY <3>2, <4>1 DEF Loose
    <3>4. x \in Seq(Loose)
      <4>1. Len(x) \in Nat /\ x = [i \in 1 .. Len(x) |-> x[i]]
        BY <3>2, LenProperties
      <4> QED BY <3>3, <4>1, IsASeq
    <3> QED BY <3>4 DEF x
  <2> HIDE DEF Loose
  <2> QED BY <1>1, <2>1, SubSeqProperties
<1>5. chain = SubSeq(chain, 1, n) \o after
  <2>1. /\ SubSeq(chain, 1, Least(n, Len(chain))) \o after = chain
    BY <1>1, Halves
  <2>2. Least(n, Len(chain)) = n
    BY <1>1, <1>2 DEF Least
  <2> QED BY <2>1, <2>2
<1> QED BY <1>1, <1>2, <1>3, <1>4, <1>5 DEF n

(* What is in the file up to the tail is kept; what comes after is cut     *)
(* off, and has bytes only of appends that overlapped; and what was on its *)
(* way is now there.                                                       *)
LEMMA LinkFacts ==
  ASSUME Shapes, Flights, Buffers, Since, NEW h \in Handles, step[h] = "found",
         Links(h)
  PROVE  \E kept \in Seq(Byte), off \in Seq(Byte), pieces \in Seq(Seq(Mine(h)) \ {<<>>}) :
           /\ kept = FlattenSeq(SubSeq(chain, 1, tail[h]))
           /\ Content = kept \o off /\ Content' = kept \o flight[h]
           /\ \A i \in DOMAIN off : off[i][1] \in overlapped
           /\ chain' = SubSeq(chain, 1, tail[h]) \o pieces
           /\ chain' \in Seq(Extent)
PROOF
<1> DEFINE n == tail[h]
           before == SubSeq(chain, 1, n)
           after == SubSeq(chain, n + 1, Len(chain))
           data == flight[h]
           kept == FlattenSeq(before)
           off == FlattenSeq(after)
<1>1. /\ before \in Seq(Extent) /\ after \in Seq(Seq(Loose))
      /\ chain = before \o after
  BY ChainAtTail
<1>2. PICK pieces \in Pieces(data) : chain' = before \o pieces
  BY DEF Links
<1>3. data \in Seq(Byte) /\ data # <<>> /\ \A i \in DOMAIN data : data[i][1] = h
  BY FileFacts DEF Flights, Carries, Buffers, Own
<1> HIDE DEF data, before, after
<1>4. data \in Seq(Mine(h))
  <2>1. \A i \in 1 .. Len(data) : i \in DOMAIN data /\ data[i] \in Byte
    BY <1>3, LenProperties, ElementOfSeq
  <2>2. \A i \in 1 .. Len(data) : data[i] \in Mine(h)
    BY <1>3, <2>1 DEF Mine
  <2>3. Len(data) \in Nat /\ data = [i \in 1 .. Len(data) |-> data[i]]
    BY <1>3, LenProperties
  <2> HIDE DEF Mine
  <2> QED BY <2>2, <2>3, IsASeq
<1>5. pieces \in Seq(Seq(Mine(h)) \ {<<>>})
  <2>1. <<>> \in Seq(Seq(Mine(h)) \ {<<>>})
    OBVIOUS
  <2> QED BY <1>2, <1>3, <1>4, <2>1, PiecesFacts
<1>6. before \in Seq(Seq(Byte) \ {<<>>}) /\ before \in Seq(Seq(Byte))
  <2>1. \A x \in Extent : x \in Seq(Byte) /\ x # <<>>
    BY DEF Extent
  <2>2. \A x \in Extent : x \in Seq(Byte) \ {<<>>}
    BY <2>1
  <2> QED BY <1>1, <2>1, <2>2, SeqMonotonic
<1>7. chain' \in Seq(Extent) /\ Content' = kept \o data
  <2>1. /\ before \o pieces \in Seq(Seq(Byte) \ {<<>>})
        /\ FlattenSeq(before \o pieces) = FlattenSeq(before) \o data
    <3>1. pieces \in Pieces(data)
      BY <1>2
    <3>2. before \in Seq(Seq(Byte) \ {<<>>})
      BY <1>6
    <3>3. data \in Seq(Byte) /\ data # <<>>
      BY <1>3
    <3> QED BY <3>1, <3>2, <3>3, PiecesFacts
  <2>2. Content' = FlattenSeq(chain')
    BY DEF Content
  <2>3. chain' \in Seq(Extent)
    BY <1>2, <2>1 DEF Extent
  <2>4. Content' = kept \o data
    BY <1>2, <2>1, <2>2
  <2> QED BY <2>3, <2>4
<1>8. off \in Seq(Loose) /\ after \in Seq(Seq(Byte))
  <2>1. \A x \in Loose : x \in Byte
    BY DEF Loose
  <2>2. \A x \in Seq(Loose) : x \in Seq(Byte)
    BY <2>1, SeqMonotonic
  <2> QED BY <1>1, <2>2, FlatType, SeqMonotonic
<1>9. kept \in Seq(Byte) /\ off \in Seq(Byte)
  BY <1>6, <1>8, FlatType
<1>10. \A i \in DOMAIN off : off[i][1] \in overlapped
  <2> HIDE DEF off
  <2>1. \A i \in DOMAIN off : off[i] \in Loose
    BY <1>8, LenProperties, ElementOfSeq
  <2> QED BY <2>1 DEF Loose
<1>11. Content = kept \o off
  BY <1>1, <1>6, <1>8, FlatJoin DEF Content
<1> QED BY <1>2, <1>5, <1>7, <1>9, <1>10, <1>11 DEF before, data

(* Where others' bytes give way to others' bytes, before those of a        *)
(* client, its own stay in order; and none is lost, if none was there.     *)
LEMMA OthersBetween ==
  ASSUME NEW g, NEW p \in Seq(Byte), NEW c \in Seq(Byte), NEW d \in Seq(Byte),
         NEW t \in Seq(Byte), \A i \in DOMAIN d : d[i][1] # g,
         NEW l, l = (p \o c) \o t, NEW m, m = (p \o d) \o t, InOrder(l, g)
  PROVE  /\ InOrder(m, g) /\ Numbers(m, g) \subseteq Numbers(l, g)
         /\ Numbers(c, g) = {} => Numbers(l, g) \subseteq Numbers(m, g)
PROOF
<1>1. Numbers(d, g) = {} /\ InOrder(d, g)
  BY NumbersOfNone
<1> DEFINE u == p \o c
           v == p \o d
<1>2. /\ u \in Seq(Byte) /\ v \in Seq(Byte)
      /\ Numbers(u, g) = Numbers(p, g) \cup Numbers(c, g)
      /\ Numbers(v, g) = Numbers(p, g) \cup Numbers(d, g)
  BY Joining, NumbersOfJoin
<1>3. InOrder(u, g) => InOrder(p, g)
  BY OrderOfJoin
<1>4. InOrder(p, g) => InOrder(v, g)
  <2> SUFFICES ASSUME InOrder(p, g) PROVE InOrder(v, g)
    OBVIOUS
  <2>1. \A x \in Numbers(p, g) : \A y \in Numbers(d, g) : x < y
    BY <1>1
  <2> QED BY <1>1, <2>1, OrderOfJoin
<1>5. l = u \o t /\ m = v \o t /\ InOrder(u \o t, g)
  OBVIOUS
<1> HIDE DEF u, v
<1>6. /\ Numbers(u \o t, g) = Numbers(u, g) \cup Numbers(t, g)
      /\ Numbers(v \o t, g) = Numbers(v, g) \cup Numbers(t, g)
  BY <1>2, NumbersOfJoin
<1>7. /\ InOrder(u, g) /\ InOrder(t, g)
      /\ \A x \in Numbers(u, g) : \A y \in Numbers(t, g) : x < y
  BY <1>2, <1>5, OrderOfJoin
<1>8. InOrder(v \o t, g)
  <2>1. \A x \in Numbers(v, g) : \A y \in Numbers(t, g) : x < y
    BY <1>1, <1>2, <1>7
  <2> QED BY <1>2, <1>3, <1>4, <1>7, <2>1, OrderOfJoin
<1> QED BY <1>1, <1>2, <1>5, <1>6, <1>8

(* Bytes of one handle are in extents of the file. *)
LEMMA MineIsByte ==
  ASSUME NEW h, NEW pieces \in Seq(Seq(Mine(h)) \ {<<>>})
  PROVE  /\ pieces \in Seq(Extent)
         /\ \A k \in DOMAIN pieces : \A i \in DOMAIN pieces[k] : pieces[k][i][1] = h
PROOF
<1>1. \A x \in Seq(Mine(h)) : x \in Seq(Byte)
  <2>1. Mine(h) \subseteq Byte
    BY DEF Mine
  <2> QED BY <2>1, SeqMonotonic
<1>2. Seq(Mine(h)) \ {<<>>} \subseteq Extent
  BY <1>1 DEF Extent
<1>3. pieces \in Seq(Extent)
  BY <1>2, SeqMonotonic
<1>4. ASSUME NEW k \in DOMAIN pieces, NEW i \in DOMAIN pieces[k]
      PROVE  pieces[k][i][1] = h
  <2> DEFINE x == pieces[k]
  <2>1. x \in Seq(Mine(h))
    BY LenProperties, ElementOfSeq
  <2> HIDE DEF x
  <2>2. \A j \in DOMAIN x : x[j] \in Mine(h)
    BY <2>1, LenProperties, ElementOfSeq
  <2>3. x[i][1] = h
    BY <2>2 DEF Mine, x
  <2> QED BY <2>3 DEF x
<1> QED BY <1>3, <1>4

(* A client's bytes stay in order when an append is linked: its own go     *)
(* from its hands to the file, others' come before those that have still   *)
(* to, and only those of overlapping appends are cut off.                  *)
LEMMA LinkedLine ==
  ASSUME FileInv, NEW h \in Handles, step[h] = "found", Links(h),
         NEW g \in Handles, sent'[g] = sent[g], buffer'[g] = buffer[g],
         flight'[g] = IF g = h THEN <<>> ELSE flight[g],
         UNCHANGED <<failed, overlapped, replaced>>
  PROVE  Sound(g)'
PROOF
<1>1. /\ Shapes /\ Stages /\ Flights /\ Buffers /\ Since /\ Sound(g)
  BY DEF FileInv, Lines
<1>2. PICK kept \in Seq(Byte), off \in Seq(Byte) :
        /\ Content = kept \o off /\ Content' = kept \o flight[h]
        /\ \A i \in DOMAIN off : off[i][1] \in overlapped
  BY <1>1, LinkFacts
<1> DEFINE rest_of == flight[g] \o buffer[g]
           mine == IF g = h THEN <<>> ELSE flight[h]
<1>3. /\ Line(g) = (kept \o off) \o rest_of
      /\ rest_of \in Seq(Byte) /\ flight[h] \in Seq(Byte)
      /\ flight[g] \in Seq(Byte) /\ buffer[g] \in Seq(Byte)
  BY <1>1, <1>2, LineFacts, FileFacts
<1>4. mine \in Seq(Byte) /\ \A i \in DOMAIN mine : mine[i][1] # g
  <2>1. <<>> \in Seq(Byte) /\ DOMAIN <<>> = {}
    OBVIOUS
  <2>2. \A i \in DOMAIN flight[h] : flight[h][i][1] = h
    BY <1>1 DEF Buffers, Own
  <2> QED BY <1>3, <2>1, <2>2
<1>5. Line(g)' = (kept \o mine) \o rest_of
  <2>1. Line(g)' = ((kept \o flight[h]) \o flight'[g]) \o buffer[g]
    BY <1>2 DEF Line
  <2> DEFINE f == flight[h]
             e == flight[g]
             b == buffer[g]
  <2>2. f \in Seq(Byte) /\ e \in Seq(Byte) /\ b \in Seq(Byte)
    BY <1>3
  <2>3. /\ Line(g)' = ((kept \o f) \o (IF g = h THEN <<>> ELSE e)) \o b
        /\ mine = (IF g = h THEN <<>> ELSE f) /\ rest_of = e \o b
        /\ g = h => e = f
    BY <2>1
  <2> HIDE DEF f, e, b, mine, rest_of
  <2>4. /\ ((kept \o f) \o <<>>) \o b = (kept \o <<>>) \o (f \o b)
        /\ ((kept \o f) \o e) \o b = (kept \o f) \o (e \o b)
    <3>1. PICK x \in Seq(Byte), y \in Seq(Byte), z \in Seq(Byte) :
            x = f /\ y = e /\ z = b
      BY <2>2
    <3>2. PICK q \in Seq(Byte) : q = kept \o x
      BY Joining
    <3>3. q \o (y \o z) = (q \o y) \o z
      OBVIOUS
    <3>4. kept \o (x \o z) = (kept \o x) \o z
      OBVIOUS
    <3>5. q \o <<>> = q /\ kept \o <<>> = kept
      BY ConcatEmptySeq
    <3> QED BY <3>1, <3>2, <3>3, <3>4, <3>5
  <2> QED BY <2>3, <2>4
<1> HIDE DEF rest_of, mine
<1>6. /\ InOrder(Line(g)', g) /\ Numbers(Line(g)', g) \subseteq Numbers(Line(g), g)
      /\ Numbers(off, g) = {} => Numbers(Line(g)', g) = Numbers(Line(g), g)
  <2>1. InOrder(Line(g), g)
    BY <1>1 DEF Sound
  <2>2. PICK d \in Seq(Byte), t \in Seq(Byte) : d = mine /\ t = rest_of
    BY <1>3, <1>4
  <2>3. \A i \in DOMAIN d : d[i][1] # g
    BY <1>4, <2>2
  <2>4. PICK l, m : l = Line(g) /\ m = Line(g)'
    OBVIOUS
  <2>5. l = (kept \o off) \o t /\ m = (kept \o d) \o t /\ InOrder(l, g)
    BY <1>3, <1>5, <2>1, <2>2, <2>4
  <2>6. /\ InOrder(m, g) /\ Numbers(m, g) \subseteq Numbers(l, g)
        /\ Numbers(off, g) = {} => Numbers(m, g) = Numbers(l, g)
    <3>1. InOrder(m, g)
      BY <2>3, <2>5, OthersBetween
    <3>2. Numbers(m, g) \subseteq Numbers(l, g)
      BY <2>3, <2>5, OthersBetween
    <3>3. ASSUME Numbers(off, g) = {}
          PROVE  Numbers(l, g) \subseteq Numbers(m, g)
      BY <2>3, <2>5, <3>3, OthersBetween
    <3> QED BY <3>1, <3>2, <3>3
  <2> QED BY <2>4, <2>6
<1>7. g \notin overlapped => Numbers(off, g) = {}
  <2> SUFFICES ASSUME g \notin overlapped PROVE Numbers(off, g) = {}
    OBVIOUS
  <2>1. \A i \in DOMAIN off : off[i][1] # g
    BY <1>2
  <2> QED BY <2>1, NumbersOfNone
<1> QED BY <1>1, <1>6, <1>7 DEF Sound

(* What was read before the tail is there still. *)
LEMMA LinkedRead ==
  ASSUME FileInv, NEW h \in Handles, step[h] = "found", Links(h),
         Keeps(tail[h]), NEW g \in Handles, Faithful(g), g \notin cut',
         offset'[g] = offset[g], from'[g] = from[g], got'[g] = got[g]
  PROVE  Faithful(g)'
PROOF
<1>1. Shapes /\ Flights /\ Buffers /\ Since
  BY DEF FileInv
<1>2. PICK kept \in Seq(Byte), off \in Seq(Byte) :
        /\ kept = FlattenSeq(SubSeq(chain, 1, tail[h]))
        /\ Content = kept \o off /\ Content' = kept \o flight[h]
  BY <1>1, LinkFacts
<1>3. /\ flight[h] \in Seq(Byte) /\ from[g] \in Nat /\ offset[g] \in Nat
      /\ got[g] \in Seq(Byte) /\ FileSize \in Nat /\ Content \in Seq(Byte)
  BY <1>1, FileFacts
<1>4. /\ offset[g] = from[g] + Len(got[g])
      /\ \A i \in DOMAIN got[g] :
           from[g] + i <= FileSize /\ got[g][i] = Content[from[g] + i]
  BY DEF Faithful
<1>5. Len(got[g]) \in Nat /\ DOMAIN got[g] = 1 .. Len(got[g])
  BY <1>3, LenProperties
<1>6. Len(kept) \in Nat /\ Len(kept) <= Len(Content')
      /\ (\A i \in 1 .. Len(kept) : Content'[i] = kept[i] /\ Content[i] = kept[i])
  <2> DEFINE f == flight[h]
  <2>1. f \in Seq(Byte)
    BY <1>3
  <2> HIDE DEF f
  <2>2. /\ Len(kept \o f) = Len(kept) + Len(f) /\ Len(kept) \in Nat /\ Len(f) \in Nat
        /\ \A i \in 1 .. Len(kept) : (kept \o f)[i] = kept[i]
        /\ \A i \in 1 .. Len(kept) : (kept \o off)[i] = kept[i]
    BY <2>1, Joining
  <2>3. Content' = kept \o f /\ Content = kept \o off
    BY <1>2 DEF f
  <2> QED BY <2>2, <2>3
<1>7. got[g] = <<>> \/ offset[g] <= Len(kept)
  <2>1. CASE tail[h] = Len(chain)
    <3>1. kept = Content
      <4>1. SubSeq(chain, 1, Len(chain)) = chain
        BY <1>1, FileFacts, SubSeqFull
      <4> QED BY <1>2, <2>1, <4>1 DEF Content
    <3>2. ASSUME got[g] # <<>>
          PROVE  offset[g] <= Len(kept)
      <4>1. Len(got[g]) \in DOMAIN got[g]
        BY <1>3, <1>5, <3>2, EmptySeq
      <4> QED BY <1>4, <3>1, <4>1 DEF FileSize
    <3> QED BY <3>2
  <2>2. CASE tail[h] # Len(chain)
    <3>1. ~(got[g] # <<>> /\ offset[g] > Len(kept))
      BY <1>2, <2>2 DEF Keeps
    <3> QED BY <1>3, <1>6, <3>1
  <2> QED BY <2>1, <2>2
<1>8. ASSUME NEW i \in DOMAIN got[g]
      PROVE  from[g] + i <= Len(Content') /\ got[g][i] = Content'[from[g] + i]
  <2>1. got[g] # <<>>
    <3>1. DOMAIN <<>> = {}
      OBVIOUS
    <3> QED BY <3>1
  <2>2. from[g] + i \in 1 .. Len(kept)
    <3>1. offset[g] <= Len(kept) /\ i \in 1 .. Len(got[g])
      BY <1>5, <1>7, <2>1
    <3> QED BY <1>3, <1>4, <1>5, <1>6, <3>1
  <2>3. from[g] + i <= Len(kept) /\ Len(Content') >= Len(kept)
    BY <1>6, <2>2
  <2>4. Len(Content') \in Nat
    <3>1. kept \o flight[h] \in Seq(Byte)
      BY <1>3, Joining
    <3> QED BY <1>2, <3>1, LenProperties
  <2>5. got[g][i] = Content'[from[g] + i]
    BY <1>4, <1>6, <2>2
  <2> QED BY <1>3, <1>5, <1>6, <2>2, <2>3, <2>4, <2>5
<1>9. FileSize' = Len(Content')
  BY DEF FileSize
<1> QED BY <1>4, <1>8, <1>9 DEF Faithful

(* The content has data more at its end, in extents of their own. *)
Grows(data, pieces) ==
  /\ data \in Seq(Byte) /\ pieces \in Seq(Extent) /\ chain' = chain \o pieces
  /\ Content' = Content \o data

(* What a copy has taken is the beginning of the file still. *)
LEMMA GrownCopies ==
  ASSUME Shapes, Copies, NEW data, NEW pieces, Grows(data, pieces),
         UNCHANGED copying, Copy \in replaced \cup cut => Copy \in replaced' \cup cut'
  PROVE  Copies'
PROOF
<1> DEFINE all == copy \o pending
<1>1. UNCHANGED <<phase, next, pending, copy, initially>>
  BY DEF copying
<1>2. /\ Content \in Seq(Byte) /\ data \in Seq(Byte) /\ chain \in Seq(Extent)
      /\ Content' = Content \o data /\ all \in Seq(Byte) /\ next \in Nat
      /\ initially \in Nat /\ FileSize \in Nat
      /\ pieces \in Seq(Extent) /\ chain' = chain \o pieces
  BY FileFacts DEF Grows, Shapes
<1>3. FileSize <= FileSize' /\ FileSize' \in Nat
  <2>1. /\ Len(Content \o data) = Len(Content) + Len(data)
        /\ Len(Content) \in Nat /\ Len(data) \in Nat
    BY <1>2, Joining
  <2>2. FileSize' = Len(Content \o data)
    BY <1>2 DEF FileSize
  <2> QED BY <2>1, <2>2 DEF FileSize
<1> SUFFICES ASSUME Copy \notin replaced \cup cut, phase \in {"copying", "done"}
             PROVE  /\ initially <= FileSize'
                    /\ next # 0 =>
                         /\ next <= Len(chain')
                         /\ all = FlattenSeq(SubSeq(chain', 1, next - 1))
                    /\ next = 0 => /\ IsPrefix(all, Content')
                                   /\ initially <= Len(all)
  BY <1>1 DEF Copies
<1>4. /\ initially <= FileSize
      /\ next # 0 => /\ next <= Len(chain)
                     /\ all = FlattenSeq(SubSeq(chain, 1, next - 1))
      /\ next = 0 => IsPrefix(all, Content) /\ initially <= Len(all)
  BY DEF Copies
<1> HIDE DEF all
<1>5. initially <= FileSize'
  BY <1>2, <1>3, <1>4
<1>6. next = 0 => IsPrefix(all, Content') /\ initially <= Len(all)
  BY <1>2, <1>4, PrefixOfJoin
<1>7. ASSUME next # 0
      PROVE  /\ next <= Len(chain')
             /\ all = FlattenSeq(SubSeq(chain', 1, next - 1))
  <2>1. /\ Len(chain \o pieces) = Len(chain) + Len(pieces)
        /\ Len(chain) \in Nat /\ Len(pieces) \in Nat
    BY <1>2, Joining
  <2>2. SubSeq(chain \o pieces, 1, next - 1) = SubSeq(chain, 1, next - 1)
    <3>1. CASE next = 1
      <4>1. next - 1 = 0
        BY <3>1
      <4>2. SubSeq(chain \o pieces, 1, 0) = <<>> /\ SubSeq(chain, 1, 0) = <<>>
        BY SubSeqEmpty
      <4> QED BY <4>1, <4>2
    <3>2. CASE next # 1
      <4>1. next - 1 \in 1 .. Len(chain) /\ 1 \in 1 .. Len(chain)
        BY <1>2, <1>4, <1>7, <2>1, <3>2
      <4> QED BY <1>2, <4>1, SubSeqOfConcat1
    <3> QED BY <3>1, <3>2
  <2>3. next <= Len(chain \o pieces)
    BY <1>2, <1>4, <1>7, <2>1
  <2> QED BY <1>2, <1>4, <1>7, <2>2, <2>3
<1> QED BY <1>5, <1>6, <1>7

(* A copy whose extents are not cut off sees the file grow. *)
LEMMA LinkedCopy ==
  ASSUME FileInv, NEW h \in Handles, step[h] = "found", Links(h),
         Keeps(tail[h]), UNCHANGED <<copying, replaced>>
  PROVE  Copies'
PROOF
<1>1. Shapes /\ Flights /\ Buffers /\ Since /\ Copies
  BY DEF FileInv
<1>2. UNCHANGED <<phase, next, pending, copy, initially>>
  BY DEF copying
<1>3. cut \subseteq cut'
  BY DEF Keeps
<1>4. CASE tail[h] = Len(chain)
  <2>1. PICK off \in Seq(Byte), pieces \in Seq(Seq(Mine(h)) \ {<<>>}) :
          /\ Content' = FlattenSeq(SubSeq(chain, 1, tail[h])) \o flight[h]
          /\ chain' = SubSeq(chain, 1, tail[h]) \o pieces
    BY <1>1, LinkFacts
  <2>2. SubSeq(chain, 1, Len(chain)) = chain
    BY <1>1, FileFacts, SubSeqFull
  <2>3. flight[h] \in Seq(Byte) /\ pieces \in Seq(Extent)
    BY <1>1, FileFacts, MineIsByte
  <2>4. Content' = Content \o flight[h] /\ chain' = chain \o pieces
    BY <1>4, <2>1, <2>2 DEF Content
  <2>5. Grows(flight[h], pieces)
    BY <2>3, <2>4 DEF Grows
  <2> QED BY <1>1, <1>3, <2>5, GrownCopies
<1>5. CASE tail[h] # Len(chain)
  <2>1. phase # "idle" => Copy \in cut'
    BY <1>5 DEF Keeps
  <2> QED BY <1>1, <1>2, <2>1 DEF Copies
<1> QED BY <1>4, <1>5

(* What the file has after the tail of another append is of appends that   *)
(* overlapped: of this one, or of those that were there already.           *)
LEMMA LinkedSince ==
  ASSUME FileInv, NEW h \in Handles, step[h] = "found", Links(h),
         UNCHANGED overlapped,
         NEW g \in Handles \ {h}, Pushed(g), tail'[g] = tail[g],
         step'[g] = "found" => step[g] = "found" /\ tail[g] <= tail[h]
  PROVE  Follows(g)'
PROOF
<1>1. Shapes /\ Stages /\ Flights /\ Buffers /\ Together /\ Since
  BY DEF FileInv
<1>2. step[g] = "found" => g \in overlapped /\ h \in overlapped
  <2>1. Appending(h) /\ (step[g] = "found" => Appending(g))
    BY <1>1 DEF Stages, Stage, Appending
  <2> QED BY <1>1, <2>1 DEF Together
<1>3. step'[g] = "cutoff" => g \in overlapped'
  BY <1>1, <1>2 DEF Pushed, Since, Follows
<1>4. ASSUME step'[g] = "found"
      PROVE  /\ tail[g] <= Len(chain')
             /\ \A k \in DOMAIN chain' : k > tail[g] =>
                  \A i \in DOMAIN chain'[k] : chain'[k][i][1] \in overlapped
  <2>1. step[g] = "found" /\ tail[g] <= tail[h] /\ tail[g] \in Nat
    BY <1>1, <1>4, FileFacts
  <2>2. /\ tail[h] \in Nat /\ SubSeq(chain, 1, tail[h]) \in Seq(Extent)
        /\ Len(SubSeq(chain, 1, tail[h])) = tail[h]
        /\ \A k \in 1 .. tail[h] : SubSeq(chain, 1, tail[h])[k] = chain[k]
        /\ tail[h] <= Len(chain) /\ Len(chain) \in Nat
    BY <1>1, ChainAtTail
  <2>3. PICK pieces \in Seq(Seq(Mine(h)) \ {<<>>}) :
          chain' = SubSeq(chain, 1, tail[h]) \o pieces
    BY <1>1, LinkFacts
  <2>4. /\ pieces \in Seq(Extent)
        /\ \A k \in DOMAIN pieces : \A i \in DOMAIN pieces[k] : pieces[k][i][1] = h
    BY MineIsByte
  <2> DEFINE n == tail[h]
             before == SubSeq(chain, 1, n)
  <2>5. /\ before \in Seq(Extent) /\ Len(before) = n /\ n \in Nat
        /\ chain' = before \o pieces
    BY <2>2, <2>3
  <2>6. \A k \in 1 .. n : before[k] = chain[k]
    BY <2>2
  <2>7. \A k \in 1 .. n : k > tail[g] =>
          \A i \in DOMAIN chain[k] : chain[k][i][1] \in overlapped
    <3>1. \A k \in 1 .. n : k \in DOMAIN chain
      BY <2>2, <1>1, FileFacts, LenProperties
    <3> QED BY <1>1, <2>1, <3>1 DEF Since, Follows
  <2>8. tail[g] <= n
    BY <2>1
  <2> HIDE DEF n, before
  <2>9. /\ Len(before \o pieces) = n + Len(pieces) /\ Len(pieces) \in Nat
        /\ DOMAIN (before \o pieces) = 1 .. (n + Len(pieces))
        /\ DOMAIN pieces = 1 .. Len(pieces)
        /\ \A k \in 1 .. n : (before \o pieces)[k] = before[k]
        /\ \A k \in 1 .. Len(pieces) : (before \o pieces)[n + k] = pieces[k]
    <3> DEFINE E == Extent
    <3>1. before \in Seq(E) /\ pieces \in Seq(E) /\ Len(before) = n
      BY <2>4, <2>5
    <3> HIDE DEF E
    <3>2. /\ Len(before \o pieces) = Len(before) + Len(pieces)
          /\ Len(pieces) \in Nat
          /\ DOMAIN pieces = 1 .. Len(pieces)
          /\ DOMAIN (before \o pieces) = 1 .. (Len(before) + Len(pieces))
      <4>1. Len(before \o pieces) = Len(before) + Len(pieces)
        BY <3>1, Joining
      <4>2. Len(pieces) \in Nat /\ DOMAIN pieces = 1 .. Len(pieces)
        BY <3>1, Joining
      <4>3. before \o pieces \in Seq(E)
        BY <3>1, Joining
      <4>4. DOMAIN (before \o pieces) = 1 .. Len(before \o pieces)
        BY <4>3, LenProperties
      <4> QED BY <4>1, <4>2, <4>4
    <3>3. \A k \in 1 .. Len(before) : (before \o pieces)[k] = before[k]
      BY <3>1, Joining
    <3>4. \A k \in 1 .. Len(pieces) :
            (before \o pieces)[Len(before) + k] = pieces[k]
      BY <3>1, Joining
    <3>5. /\ Len(before \o pieces) = n + Len(pieces) /\ Len(pieces) \in Nat
          /\ DOMAIN (before \o pieces) = 1 .. (n + Len(pieces))
          /\ DOMAIN pieces = 1 .. Len(pieces)
      BY <3>1, <3>2, Zenon
    <3>6. \A k \in 1 .. n : (before \o pieces)[k] = before[k]
      BY <3>1, <3>3, Zenon
    <3>7. \A k \in 1 .. Len(pieces) : (before \o pieces)[n + k] = pieces[k]
      BY <3>1, <3>4, Zenon
    <3> QED BY <3>5, <3>6, <3>7, Zenon
  <2>10. ASSUME NEW k \in DOMAIN chain', k > tail[g], NEW i \in DOMAIN chain'[k]
         PROVE  chain'[k][i][1] \in overlapped
    <3>1. CASE k <= n
      <4>1. k \in 1 .. n /\ chain'[k] = chain[k]
        BY <2>5, <2>6, <2>9, <2>10, <3>1
      <4> QED BY <2>7, <2>10, <4>1
    <3>2. CASE ~(k <= n)
      <4>1. k - n \in 1 .. Len(pieces) /\ n + (k - n) = k
        BY <2>5, <2>9, <2>10, <3>2
      <4>2. k - n \in DOMAIN pieces /\ chain'[k] = pieces[k - n]
        BY <2>5, <2>9, <4>1
      <4>3. chain'[k][i][1] = h
        BY <2>4, <2>10, <4>2
      <4> QED BY <1>2, <2>1, <4>3
    <3> QED BY <3>1, <3>2
  <2>11. tail[g] <= Len(chain')
    BY <2>1, <2>5, <2>8, <2>9
  <2> QED BY <2>10, <2>11
<1> QED BY <1>3, <1>4 DEF Follows

(* An append that is linked keeps the invariant. *)
LEMMA LinkStep ==
  ASSUME FileInv, NEW h \in Handles, step[h] = "found", Links(h), Shapes',
         Keeps(tail[h]), UNCHANGED <<copying, failed, overlapped, replaced>>,
         \A g \in Handles \ {h} :
           /\ Kept(g) /\ Pushed(g)
           /\ step'[g] = "found" => step[g] = "found" /\ tail[g] <= tail[h],
         step'[h] \notin {"found", "cutoff"}, Appending(h)' => Appending(h),
         sent'[h] = sent[h], buffer'[h] = buffer[h], flight'[h] = <<>>,
         Stage(h)', Carries(h)',
         \/ offset'[h] = offset[h] /\ from'[h] = from[h] /\ got'[h] = got[h]
         \/ \E n \in Nat : offset'[h] = n /\ from'[h] = n /\ got'[h] = <<>>
  PROVE  FileInv'
PROOF
<1>1. /\ Shapes /\ Stages /\ Flights /\ Buffers /\ Together /\ Since
      /\ Lines /\ Reads /\ Copies
  BY DEF FileInv
<1>2. ASSUME NEW g \in Handles \ {h}
      PROVE  /\ Stage(g)' /\ Carries(g)' /\ Own(g)'
             /\ Appending(g)' => Appending(g)
  BY <1>1, OthersStay
<1>3. Own(h)'
  <2>1. DOMAIN <<>> = {}
    OBVIOUS
  <2> QED BY <1>1, <2>1 DEF Buffers, Own
<1>4. Stages' /\ Flights' /\ Buffers'
  BY <1>2, <1>3 DEF Stages, Flights, Buffers
<1>5. Together'
  <2>1. \A g \in Handles : Appending(g)' => Appending(g)
    BY <1>2
  <2> QED BY <1>1, <2>1 DEF Together
<1>6. Since'
  <2>1. Follows(h)'
    BY DEF Follows
  <2>2. \A g \in Handles \ {h} : Follows(g)'
    BY LinkedSince DEF Kept
  <2> QED BY <2>1, <2>2 DEF Since
<1>7. Lines'
  <2> SUFFICES ASSUME NEW g \in Handles PROVE Sound(g)'
    BY DEF Lines
  <2>1. /\ sent'[g] = sent[g] /\ buffer'[g] = buffer[g]
        /\ flight'[g] = IF g = h THEN <<>> ELSE flight[g]
    BY DEF Kept
  <2> QED BY <2>1, LinkedLine
<1>8. Reads'
  <2> SUFFICES ASSUME NEW g \in Handles, g \notin replaced' \cup cut'
               PROVE  Faithful(g)'
    BY DEF Reads
  <2>1. cut \subseteq cut'
    BY DEF Keeps
  <2>2. Faithful(g)
    BY <1>1, <2>1 DEF Reads
  <2>3. CASE offset'[g] = offset[g] /\ from'[g] = from[g] /\ got'[g] = got[g]
    BY <2>2, <2>3, LinkedRead
  <2>4. CASE g = h /\ \E n \in Nat : offset'[h] = n /\ from'[h] = n /\ got'[h] = <<>>
    BY <2>4, MovedRead
  <2> QED BY <2>3, <2>4 DEF Kept
<1>9. Copies'
  BY LinkedCopy
<1> QED BY <1>4, <1>5, <1>6, <1>7, <1>8, <1>9 DEF FileInv

-----------------------------------------------------------------------------
(* The calls that store bytes: each moves its handle, or none. *)

(* A move is of one handle. *)
LEMMA MoveFacts ==
  ASSUME Shapes, NEW h \in Handles, NEW m \in Nat, MoveTo(h, m)
  PROVE  /\ offset' \in [Handles -> Nat] /\ from' \in [Handles -> Nat]
         /\ got' \in [Handles -> Seq(Byte)]
         /\ offset'[h] = m /\ from'[h] = m /\ got'[h] = <<>>
         /\ \A g \in Handles \ {h} :
              offset'[g] = offset[g] /\ from'[g] = from[g] /\ got'[g] = got[g]
PROOF
<1>1. /\ offset \in [Handles -> Nat] /\ from \in [Handles -> Nat]
      /\ got \in [Handles -> Seq(Byte)] /\ <<>> \in Seq(Byte)
  BY DEF Shapes
<1> QED BY <1>1 DEF MoveTo

(* The next bytes of a client, at the end of its line. *)
LEMMA NextBytes ==
  ASSUME Shapes, NEW h \in Handles, Sound(h), NEW n \in Nat,
         sent[h] + n <= MaxSent, sent'[h] = sent[h] + n,
         Line(h)' = Line(h) \o Data(h, n),
         h \in failed \cup replaced \cup overlapped
           => h \in failed' \cup replaced' \cup overlapped'
  PROVE  Sound(h)'
PROOF
<1> DEFINE l == Line(h)
           d == Data(h, n)
           k == sent[h]
<1>1. l \in Seq(Byte) /\ k \in Nat /\ n \in Nat
  <2>1. k \in Nat
    BY FileFacts
  <2>2. Line(h) \in Seq(Byte)
    BY LineFacts
  <2> QED BY <2>1, <2>2
<1>2. /\ d \in Seq(Byte) /\ InOrder(d, h)
      /\ Numbers(d, h) = (k + 1) .. (k + n)
  BY <1>1, DataFacts
<1>3. /\ InOrder(l, h) /\ Numbers(l, h) \subseteq 1 .. k
      /\ h \notin failed \cup replaced \cup overlapped => Numbers(l, h) = 1 .. k
  BY DEF Sound
<1> HIDE DEF l, d, k
<1>4. Numbers(l \o d, h) = Numbers(l, h) \cup ((k + 1) .. (k + n))
  BY <1>1, <1>2, NumbersOfJoin
<1>5. InOrder(l \o d, h)
  <2>1. \A x \in Numbers(l, h) : \A y \in Numbers(d, h) : x < y
    <3>1. \A x \in 1 .. k : \A y \in (k + 1) .. (k + n) : x < y
      BY <1>1
    <3> QED BY <1>2, <1>3, <3>1
  <2> QED BY <1>1, <1>2, <1>3, <2>1, OrderOfJoin
<1>6. (1 .. k) \cup ((k + 1) .. (k + n)) = 1 .. (k + n)
  BY <1>1
<1>7. sent'[h] = k + n /\ Line(h)' = l \o d
  BY DEF k, l, d
<1> QED BY <1>3, <1>4, <1>5, <1>6, <1>7 DEF Sound

(* What a buffer and the next bytes make is of the same client. *)
LEMMA ReceivedFacts ==
  ASSUME Shapes, Buffers, NEW h \in Handles, NEW n \in Nat,
           sent[h] + n <= MaxSent
  PROVE  /\ Received(h, n) = buffer[h] \o Data(h, n)
         /\ Received(h, n) \in Seq(Byte) /\ Data(h, n) \in Seq(Byte)
         /\ Len(Received(h, n)) = Len(buffer[h]) + n
         /\ \A i \in DOMAIN Received(h, n) : Received(h, n)[i][1] = h
PROOF
<1> DEFINE b == buffer[h]
           d == Data(h, n)
<1>1. b \in Seq(Byte) /\ sent[h] \in Nat
  BY FileFacts
<1>2. /\ d \in Seq(Byte) /\ Len(d) = n /\ \A i \in DOMAIN d : d[i][1] = h
  BY <1>1, DataFacts
<1>3. \A i \in DOMAIN b : b[i][1] = h
  BY DEF Buffers, Own
<1>4. Received(h, n) = b \o d
  BY DEF Received
<1> HIDE DEF b, d
<1>5. /\ b \o d \in Seq(Byte) /\ Len(b \o d) = Len(b) + Len(d)
      /\ Len(b) \in Nat /\ Len(d) \in Nat
      /\ DOMAIN b = 1 .. Len(b) /\ DOMAIN d = 1 .. Len(d)
      /\ DOMAIN (b \o d) = 1 .. (Len(b) + Len(d))
      /\ \A i \in 1 .. Len(b) : (b \o d)[i] = b[i]
      /\ \A i \in 1 .. Len(d) : (b \o d)[Len(b) + i] = d[i]
  <2>1. b \in Seq(Byte) /\ d \in Seq(Byte)
    BY <1>1, <1>2
  <2> QED BY <2>1, Joining
<1>6. \A i \in DOMAIN (b \o d) : (b \o d)[i][1] = h
  <2> TAKE i \in DOMAIN (b \o d)
  <2>1. CASE i <= Len(b)
    <3>1. i \in DOMAIN b /\ (b \o d)[i] = b[i]
      BY <1>5, <2>1
    <3> QED BY <1>3, <3>1
  <2>2. CASE ~(i <= Len(b))
    <3>1. i - Len(b) \in 1 .. Len(d) /\ Len(b) + (i - Len(b)) = i
      BY <1>5, <2>2
    <3>2. i - Len(b) \in DOMAIN d /\ (b \o d)[i] = d[i - Len(b)]
      BY <1>5, <3>1
    <3> QED BY <1>2, <3>2
  <2> QED BY <2>1, <2>2
<1> QED BY <1>2, <1>4, <1>5, <1>6 DEF b, d

(* Keep, or the beginning of an append, of a buffer with n new bytes; with *)
(* none, the flush of what it has.                                         *)
Stores(h, n) ==
  LET data == Received(h, n)
  IN  /\ sent[h] + n <= MaxSent
      /\ sent' = [sent EXCEPT ![h] = @ + n]
      /\ \/ Keep(h, data)
         \/ /\ data # <<>> /\ UNCHANGED tail
            /\ \E m \in Nat : Fappend(h, data, m)
      /\ UNCHANGED <<uses, file, copying, failed, replaced, cut, failures>>

(* What is kept is less than a chunk; what is appended is on its way, and  *)
(* all that are under way then have overlapped.                            *)
LEMMA StoredFacts ==
  ASSUME Shapes, Stages, Flights, Buffers, NEW h \in Handles, step[h] = "none",
         state[h] # "truncating", NEW n \in Nat, Stores(h, n)
  PROVE  /\ buffer' \in [Handles -> Seq(Byte)] /\ flight' \in [Handles -> Seq(Byte)]
         /\ total' \in [Handles -> Nat] /\ gain' \in [Handles -> Nat]
         /\ step' \in [Handles -> Steps] /\ tail' = tail
         /\ overlapped \subseteq overlapped' /\ overlapped' \subseteq Handles
         /\ \/ /\ buffer'[h] = Received(h, n) /\ Len(Received(h, n)) < ChunkSize
               /\ flight'[h] = <<>> /\ step'[h] = "none"
            \/ /\ buffer'[h] = <<>> /\ flight'[h] = Received(h, n)
               /\ Received(h, n) # <<>>
               /\ step'[h] \in {"found", "resolved"}
               /\ step'[h] = "found" => chain = <<>>
               /\ \A g \in Handles \ {h} : Appending(g) => {g, h} \subseteq overlapped'
         /\ \A g \in Handles \ {h} :
              buffer'[g] = buffer[g] /\ flight'[g] = flight[g] /\ step'[g] = step[g]
PROOF
<1> DEFINE data == Received(h, n)
<1>1. /\ buffer \in [Handles -> Seq(Byte)] /\ flight \in [Handles -> Seq(Byte)]
      /\ total \in [Handles -> Nat] /\ gain \in [Handles -> Nat]
      /\ step \in [Handles -> Steps] /\ overlapped \subseteq Handles
      /\ length \in Nat /\ <<>> \in Seq(Byte)
  BY DEF Shapes
<1>2. data \in Seq(Byte) /\ Len(data) \in Nat
  <2>1. data \in Seq(Byte)
    BY ReceivedFacts DEF Stores
  <2> QED BY <2>1, LenProperties
<1>3. flight[h] = <<>>
  BY DEF Flights, Carries
<1>4. CASE Keep(h, data)
  <2>1. /\ buffer' = [buffer EXCEPT ![h] = data] /\ ~Full(data)
        /\ UNCHANGED <<step, flight, tail, total, gain, overlapped>>
    BY <1>4 DEF Keep, flying
  <2>2. Len(data) < ChunkSize
    BY <1>2, <2>1, SizeAssumption DEF Full
  <2> HIDE DEF data
  <2>3. /\ buffer' \in [Handles -> Seq(Byte)] /\ buffer'[h] = data
        /\ \A g \in Handles \ {h} : buffer'[g] = buffer[g]
    BY <1>1, <1>2, <2>1
  <2> QED BY <1>1, <1>3, <2>1, <2>2, <2>3 DEF data
<1>5. CASE data # <<>> /\ UNCHANGED tail /\ \E m \in Nat : Fappend(h, data, m)
  <2>1. PICK m \in Nat : Fappend(h, data, m)
    BY <1>5
  <2> HIDE DEF data
  <2>2. /\ buffer' = [buffer EXCEPT ![h] = <<>>]
        /\ flight' = [flight EXCEPT ![h] = data]
        /\ total' = [total EXCEPT ![h] = length + Len(data)]
        /\ gain' = [gain EXCEPT ![h] = m]
        /\ step' = [step EXCEPT ![h] = IF chain = <<>> THEN "found" ELSE "resolved"]
    BY <2>1 DEF Fappend, Taken
  <2>3. LET others == {g \in Handles \ {h} : Appending(g)}
        IN  overlapped' = IF others = {} THEN overlapped
                          ELSE overlapped \cup others \cup {h}
    BY <2>1 DEF Fappend
  <2>4. length + Len(data) \in Nat
    BY <1>1, <1>2
  <2>5. /\ buffer' \in [Handles -> Seq(Byte)] /\ flight' \in [Handles -> Seq(Byte)]
        /\ buffer'[h] = <<>> /\ flight'[h] = data
        /\ \A g \in Handles \ {h} : buffer'[g] = buffer[g] /\ flight'[g] = flight[g]
    BY <1>1, <1>2, <2>2
  <2>6. total' \in [Handles -> Nat] /\ gain' \in [Handles -> Nat]
    BY <1>1, <2>2, <2>4
  <2>7. /\ step' \in [Handles -> Steps] /\ step'[h] \in {"found", "resolved"}
        /\ step'[h] = "found" => chain = <<>>
        /\ \A g \in Handles \ {h} : step'[g] = step[g]
    BY <1>1, <2>2 DEF Steps
  <2>8. /\ overlapped \subseteq overlapped' /\ overlapped' \subseteq Handles
        /\ \A g \in Handles \ {h} : Appending(g) => {g, h} \subseteq overlapped'
    BY <1>1, <2>3
  <2> QED BY <1>5, <2>5, <2>6, <2>7, <2>8 DEF data
<1> QED BY <1>4, <1>5 DEF Stores

(* A call that stores, and moves its handle or not, keeps the invariant. *)
LEMMA StoreStep ==
  ASSUME FileInv, NEW h \in Handles, step[h] = "none", state[h] # "truncating",
         NEW n \in Nat, Stores(h, n),
         (\E m \in Nat : MoveTo(h, m)) \/ UNCHANGED <<offset, from, got>>,
         UNCHANGED size, state' \in [Handles -> States], DOMAIN rest' = Handles,
         \A g \in Handles \ {h} : state'[g] = state[g] /\ rest'[g] = rest[g],
         state'[h] \in {"open", "flushing", "reading"}, Queue(h)',
         state'[h] = "reading" => step'[h] = "none" /\ buffer'[h] = <<>>,
         rest'[h] # <<>> => state'[h] = "open"
  PROVE  FileInv'
PROOF
<1> DEFINE data == Received(h, n)
<1>1. Shapes /\ Stages /\ Flights /\ Buffers /\ Lines /\ Reads
  BY DEF FileInv
<1>2. /\ sent[h] + n <= MaxSent /\ sent' = [sent EXCEPT ![h] = @ + n]
      /\ UNCHANGED <<uses, chain, length, copying, failed, replaced, cut, failures>>
  BY DEF Stores, file
<1>3. /\ buffer' \in [Handles -> Seq(Byte)] /\ flight' \in [Handles -> Seq(Byte)]
      /\ total' \in [Handles -> Nat] /\ gain' \in [Handles -> Nat]
      /\ step' \in [Handles -> Steps] /\ tail' = tail
      /\ overlapped \subseteq overlapped' /\ overlapped' \subseteq Handles
      /\ \/ /\ buffer'[h] = data /\ Len(data) < ChunkSize
            /\ flight'[h] = <<>> /\ step'[h] = "none"
         \/ /\ buffer'[h] = <<>> /\ flight'[h] = data
            /\ data # <<>>
            /\ step'[h] \in {"found", "resolved"}
            /\ step'[h] = "found" => chain = <<>>
            /\ \A g \in Handles \ {h} : Appending(g) => {g, h} \subseteq overlapped'
      /\ \A g \in Handles \ {h} :
           buffer'[g] = buffer[g] /\ flight'[g] = flight[g] /\ step'[g] = step[g]
  BY <1>1, StoredFacts
<1>4. /\ offset' \in [Handles -> Nat] /\ from' \in [Handles -> Nat]
      /\ got' \in [Handles -> Seq(Byte)]
      /\ \A g \in Handles \ {h} :
           offset'[g] = offset[g] /\ from'[g] = from[g] /\ got'[g] = got[g]
  <2>1. CASE \E m \in Nat : MoveTo(h, m)
    BY <1>1, <2>1, MoveFacts
  <2>2. CASE UNCHANGED <<offset, from, got>>
    BY <1>1, <2>2 DEF Shapes
  <2> QED BY <2>1, <2>2
<1>5. /\ sent \in [Handles -> 0 .. MaxSent] /\ MaxSent \in Nat
      /\ sent[h] \in Nat
  BY <1>1, FileFacts, SizeAssumption DEF Shapes
<1>6. /\ sent' \in [Handles -> 0 .. MaxSent] /\ sent'[h] = sent[h] + n
      /\ \A g \in Handles \ {h} : sent'[g] = sent[g]
  <2>1. sent[h] + n \in 0 .. MaxSent
    BY <1>2, <1>5
  <2> QED BY <1>2, <1>5, <2>1
<1>7. Shapes'
  BY <1>1, <1>2, <1>3, <1>4, <1>6 DEF Shapes, copying
<1>8. \A g \in Handles \ {h} : Kept(g) /\ step'[g] = step[g]
  BY <1>3, <1>4, <1>6 DEF Kept
<1>9. /\ data \in Seq(Byte) /\ data = buffer[h] \o Data(h, n)
      /\ Data(h, n) \in Seq(Byte) /\ \A i \in DOMAIN data : data[i][1] = h
  BY <1>1, <1>2, ReceivedFacts
<1> HIDE DEF data
<1>10. Own(h)'
  <2>1. Len(<<>>) < ChunkSize /\ DOMAIN <<>> = {}
    BY SizeAssumption
  <2> QED BY <1>3, <1>9, <2>1 DEF Own
<1>11. Carries(h)'
  <2>1. tail[h] = 0
    BY <1>1 DEF Flights, Carries
  <2> QED BY <1>3, <2>1 DEF Carries, Appending
<1>12. Stage(h)'
  BY <1>3 DEF Stage
<1>13. Follows(h)'
  <2>1. tail'[h] = 0
    BY <1>1, <1>3 DEF Flights, Carries
  <2>2. step'[h] = "found" => Len(chain') = 0 /\ DOMAIN chain' = {}
    BY <1>2, <1>3
  <2>3. step'[h] # "cutoff"
    BY <1>3
  <2> QED BY <2>1, <2>2, <2>3 DEF Follows
<1>14. Sound(h)'
  <2> DEFINE b == buffer[h]
             d == Data(h, n)
  <2>1. Content \in Seq(Byte) /\ b \in Seq(Byte) /\ d \in Seq(Byte) /\ data = b \o d
    BY <1>1, <1>9, FileFacts
  <2>2. Content' = Content
    BY <1>2 DEF Content
  <2>3. Line(h) = Content \o b
    <3>1. Line(h) = (Content \o <<>>) \o b
      BY <1>1 DEF Line, Flights, Carries
    <3> QED BY <2>1, <3>1, ConcatEmptySeq
  <2>4. Line(h)' = Content \o data
    <3>1. CASE buffer'[h] = data /\ flight'[h] = <<>>
      <4>1. Line(h)' = (Content \o <<>>) \o data
        BY <2>2, <3>1 DEF Line
      <4> QED BY <2>1, <4>1, ConcatEmptySeq
    <3>2. CASE buffer'[h] = <<>> /\ flight'[h] = data
      <4>1. Line(h)' = (Content \o data) \o <<>>
        BY <2>2, <3>2 DEF Line
      <4>2. Content \o data \in Seq(Byte)
        BY <1>9, <2>1, Joining
      <4> QED BY <4>1, <4>2, ConcatEmptySeq
    <3> QED BY <1>3, <3>1, <3>2
  <2> HIDE DEF b, d
  <2>5. Content \o (b \o d) = (Content \o b) \o d
    <3>1. PICK q \in Seq(Byte) : q = Content
      BY <2>1
    <3>2. q \o (b \o d) = (q \o b) \o d
      BY <2>1
    <3> QED BY <3>1, <3>2
  <2>6. Line(h)' = Line(h) \o d
    BY <2>1, <2>3, <2>4, <2>5
  <2>7. Sound(h)
    BY <1>1 DEF Lines
  <2>8. h \in failed \cup replaced \cup overlapped
          => h \in failed' \cup replaced' \cup overlapped'
    BY <1>2, <1>3
  <2> QED BY <1>1, <1>2, <1>6, <2>6, <2>7, <2>8, NextBytes DEF d
<1>15. h \notin replaced \cup cut => Faithful(h)'
  <2>1. CASE \E m \in Nat : MoveTo(h, m)
    <3>1. PICK m \in Nat : MoveTo(h, m)
      BY <2>1
    <3>2. offset'[h] = m /\ from'[h] = m /\ got'[h] = <<>>
      BY <1>1, <3>1, MoveFacts
    <3> QED BY <3>2, MovedRead
  <2>2. CASE UNCHANGED <<offset, from, got>>
    <3>1. Content' = Content
      BY <1>2 DEF Content
    <3>2. h \notin replaced \cup cut => Faithful(h)
      BY <1>1 DEF Reads
    <3> QED BY <2>2, <3>1, <3>2, ReadStays
  <2> QED BY <2>1, <2>2
<1>16. Appending(h)' /\ ~Appending(h) =>
         \A g \in Handles \ {h} : Appending(g) => {g, h} \subseteq overlapped'
  BY <1>3 DEF Appending
<1>17. /\ UNCHANGED <<chain, copying>> /\ UNCHANGED <<replaced, cut>>
       /\ failed \subseteq failed' /\ overlapped \subseteq overlapped'
  BY <1>2, <1>3
<1> QED BY <1>7, <1>8, <1>10, <1>11, <1>12, <1>13, <1>14, <1>15, <1>16, <1>17,
           QuietStep

(* A buffer that is full has something in it. *)
LEMMA FullIsSomething ==
  ASSUME NEW data \in Seq(Byte), Full(data)
  PROVE  data # <<>>
PROOF
<1>1. Len(data) >= ChunkSize /\ ChunkSize > 0 /\ Len(<<>>) = 0
  BY SizeAssumption DEF Full
<1> QED BY <1>1, SizeAssumption

(* A client sends at least a byte. *)
LEMMA SizesFacts ==
  ASSUME NEW n \in WriteSizes
  PROVE  n \in Nat /\ n # 0
PROOF
BY SizeAssumption

(* write_bytes. *)
LEMMA WriteBytesKeeps ==
  ASSUME FileInv, NEW h \in Handles, NEW n \in WriteSizes, WriteBytes(h, n),
         UNCHANGED uses
  PROVE  FileInv'
PROOF
<1> DEFINE data == Received(h, n)
<1>1. Shapes /\ Buffers
  BY DEF FileInv
<1>2. n \in Nat
  BY SizesFacts
<1>3. /\ Idle(h) /\ Send(h, n)
      /\ UNCHANGED <<file, state, size, rest, copying, failed, replaced, cut, failures>>
  BY DEF WriteBytes
<1>4. \/ Keep(h, data) /\ MoveTo(h, offset[h] + n)
      \/ /\ Full(data) /\ Fappend(h, data, n) /\ UNCHANGED tail
         /\ UNCHANGED <<offset, from, got>>
  BY DEF WriteBytes
<1>5. sent[h] + n <= MaxSent /\ sent' = [sent EXCEPT ![h] = @ + n]
  BY <1>3 DEF Send
<1>6. data \in Seq(Byte)
  BY <1>1, <1>2, <1>5, ReceivedFacts
<1>7. offset[h] + n \in Nat
  <2>1. offset[h] \in Nat
    BY <1>1, FileFacts
  <2> QED BY <1>2, <2>1
<1> HIDE DEF data
<1>8. Full(data) => data # <<>>
  BY <1>6, FullIsSomething
<1>9. Stores(h, n)
  <2>1. \/ Keep(h, data)
        \/ data # <<>> /\ UNCHANGED tail /\ \E m \in Nat : Fappend(h, data, m)
    BY <1>2, <1>4, <1>8
  <2>2. UNCHANGED <<uses, file, copying, failed, replaced, cut, failures>>
    BY <1>3
  <2> QED BY <1>5, <2>1, <2>2 DEF Stores, data
<1>10. (\E m \in Nat : MoveTo(h, m)) \/ UNCHANGED <<offset, from, got>>
  BY <1>4, <1>7
<1>11. /\ state'[h] = "open" /\ rest'[h] = <<>> /\ step[h] = "none"
       /\ state[h] # "truncating"
  BY <1>3 DEF Idle
<1>12. Queue(h)'
  BY <1>11 DEF Queue
<1>13. state' \in [Handles -> States] /\ DOMAIN rest' = Handles
  BY <1>1, <1>3 DEF Shapes
<1>14. UNCHANGED <<state, rest, size>>
  BY <1>3
<1> QED BY <1>2, <1>9, <1>10, <1>11, <1>12, <1>13, <1>14, StoreStep

(* One piece of write_buf. *)
LEMMA WritePieceKeeps ==
  ASSUME FileInv, NEW h \in Handles, WritePiece(h), UNCHANGED uses
  PROVE  FileInv'
PROOF
<1> DEFINE n == Head(rest[h])
           data == Received(h, n)
<1>1. Shapes /\ Stages /\ Buffers
  BY DEF FileInv
<1>2. /\ rest[h] # <<>> /\ step[h] = "none"
      /\ rest' = [rest EXCEPT ![h] = Tail(@)]
      /\ sent' = [sent EXCEPT ![h] = @ + n]
      /\ MoveTo(h, offset[h] + n)
      /\ Keep(h, data) \/ (Full(data) /\ Fappend(h, data, 0) /\ UNCHANGED tail)
      /\ UNCHANGED <<file, state, size, copying, failed, replaced, cut, failures>>
  BY DEF WritePiece
<1>3. /\ Queue(h) /\ state[h] = "open" /\ DOMAIN rest = Handles
      /\ sent[h] \in Nat /\ MaxSent \in Nat
  <2>1. sent[h] \in Nat /\ MaxSent \in Nat
    BY <1>1, FileFacts, SizeAssumption
  <2>2. Queue(h) /\ state[h] = "open"
    BY <1>1, <1>2 DEF Stages, Stage
  <2> QED BY <1>1, <2>1, <2>2 DEF Shapes
<1>4. /\ n \in Nat /\ sent[h] + n <= MaxSent
      /\ \/ Tail(rest[h]) = <<>>
         \/ \E k \in WriteSizes : /\ Tail(rest[h]) = <<k>>
                                  /\ (sent[h] + n) + k <= MaxSent
  <2>1. CASE \E k \in WriteSizes : rest[h] = <<k>> /\ sent[h] + k <= MaxSent
    <3>1. PICK k \in WriteSizes : rest[h] = <<k>> /\ sent[h] + k <= MaxSent
      BY <2>1
    <3>2. Head(<<k>>) = k /\ Tail(<<k>>) = <<>>
      OBVIOUS
    <3> QED BY <3>1, <3>2, SizesFacts
  <2>2. CASE \E k, m \in WriteSizes :
               rest[h] = <<k, m>> /\ sent[h] + k + m <= MaxSent
    <3>1. PICK k \in WriteSizes, m \in WriteSizes :
            rest[h] = <<k, m>> /\ sent[h] + k + m <= MaxSent
      BY <2>2
    <3>2. Head(<<k, m>>) = k /\ Tail(<<k, m>>) = <<m>>
      OBVIOUS
    <3>3. k \in Nat /\ m \in Nat
      BY SizesFacts
    <3>4. sent[h] + k <= MaxSent
      BY <1>3, <3>1, <3>3
    <3> QED BY <3>1, <3>2, <3>3, <3>4
  <2> QED BY <1>2, <1>3, <2>1, <2>2 DEF Queue
<1>5. data \in Seq(Byte)
  BY <1>1, <1>4, ReceivedFacts
<1>6. offset[h] + n \in Nat
  <2>1. offset[h] \in Nat
    BY <1>1, FileFacts
  <2> QED BY <1>4, <2>1
<1>7. sent'[h] = sent[h] + n
  BY <1>1, <1>2 DEF Shapes
<1>8. Stores(h, n)
  <2>1. Full(data) => data # <<>>
    BY <1>5, FullIsSomething
  <2>2. \/ Keep(h, data)
        \/ data # <<>> /\ UNCHANGED tail /\ \E m \in Nat : Fappend(h, data, m)
    BY <1>2, <2>1
  <2>3. UNCHANGED <<uses, file, copying, failed, replaced, cut, failures>>
    BY <1>2
  <2> QED BY <1>2, <1>4, <2>2, <2>3 DEF Stores
<1> HIDE DEF n, data
<1>9. /\ \A g \in Handles \ {h} : state'[g] = state[g] /\ rest'[g] = rest[g]
      /\ rest'[h] = Tail(rest[h]) /\ DOMAIN rest' = Handles
  BY <1>2, <1>3
<1>10. Queue(h)'
  BY <1>4, <1>7, <1>9 DEF Queue
<1>11. state' \in [Handles -> States] /\ state'[h] = "open"
  BY <1>1, <1>2, <1>3 DEF Shapes
<1>12. \E m \in Nat : MoveTo(h, m)
  BY <1>2, <1>6
<1>13. UNCHANGED size
  BY <1>2
<1> QED BY <1>2, <1>3, <1>4, <1>8, <1>9, <1>10, <1>11, <1>12, <1>13, StoreStep

-----------------------------------------------------------------------------
(* Flushes. *)

(* A flush has no new bytes. *)
LEMMA NothingNew ==
  ASSUME Shapes, NEW h \in Handles
  PROVE  /\ Received(h, 0) = buffer[h]
         /\ sent[h] + 0 <= MaxSent
         /\ sent = [sent EXCEPT ![h] = @ + 0]
PROOF
<1>1. buffer[h] \in Seq(Byte) /\ sent[h] \in 0 .. MaxSent /\ MaxSent \in Nat
      /\ sent \in [Handles -> 0 .. MaxSent]
  BY FileFacts, SizeAssumption DEF Shapes
<1>2. Data(h, 0) = <<>>
  <2>1. sent[h] \in Nat /\ sent[h] + 0 <= MaxSent
    BY <1>1
  <2>2. Data(h, 0) \in Seq(Byte) /\ Len(Data(h, 0)) = 0
    BY <2>1, DataFacts
  <2> QED BY <2>2, EmptySeq
<1>3. buffer[h] \o <<>> = buffer[h]
  BY <1>1, ConcatEmptySeq
<1>4. sent[h] + 0 = sent[h]
  BY <1>1
<1>5. [sent EXCEPT ![h] = sent[h]] = sent
  BY <1>1
<1> QED BY <1>1, <1>2, <1>3, <1>4, <1>5 DEF Received

(* flush. *)
LEMMA FlushKeeps ==
  ASSUME FileInv, NEW h \in Handles, Flush(h), UNCHANGED uses
  PROVE  FileInv'
PROOF
<1>1. Shapes
  BY DEF FileInv
<1>2. /\ Idle(h) /\ buffer[h] # <<>> /\ Fappend(h, buffer[h], 0)
      /\ UNCHANGED <<file, state, offset, size, rest, tail, copying, sent, failed,
                     from, got, replaced, cut, failures>>
  BY DEF Flush, clients
<1>3. Stores(h, 0)
  <2>1. UNCHANGED <<uses, file, copying, failed, replaced, cut, failures>>
    BY <1>2
  <2> QED BY <1>1, <1>2, <2>1, NothingNew DEF Stores
<1>4. /\ state'[h] = "open" /\ rest'[h] = <<>> /\ step[h] = "none"
      /\ state[h] # "truncating"
  BY <1>2 DEF Idle
<1>5. Queue(h)'
  BY <1>4 DEF Queue
<1>6. state' \in [Handles -> States] /\ DOMAIN rest' = Handles
  BY <1>1, <1>2 DEF Shapes
<1>7. UNCHANGED <<state, rest, size, offset, from, got>>
  BY <1>2
<1> QED BY <1>3, <1>4, <1>5, <1>6, <1>7, StoreStep

(* read_bytes, up to its flush. *)
LEMMA ReadBytesKeeps ==
  ASSUME FileInv, NEW h \in Handles, ReadBytes(h), UNCHANGED uses
  PROVE  FileInv'
PROOF
<1>1. Shapes
  BY DEF FileInv
<1>2. /\ Idle(h)
      /\ UNCHANGED <<file, offset, size, rest, copying, sent, failed, from, got,
                     replaced, cut, failures>>
      /\ \/ /\ buffer[h] = <<>>
            /\ state' = [state EXCEPT ![h] = "reading"]
            /\ UNCHANGED <<buffer, flying, overlapped>>
         \/ /\ buffer[h] # <<>>
            /\ state' = [state EXCEPT ![h] = "flushing"]
            /\ Fappend(h, buffer[h], 0) /\ UNCHANGED tail
  BY DEF ReadBytes, clients
<1>3. buffer \in [Handles -> Seq(Byte)] /\ state \in [Handles -> States]
  BY <1>1 DEF Shapes
<1>4. buffer[h] = <<>> => /\ ~Full(buffer[h])
                          /\ buffer = [buffer EXCEPT ![h] = buffer[h]]
  BY <1>3, SizeAssumption DEF Full
<1>5. \/ Keep(h, buffer[h])
      \/ /\ buffer[h] # <<>> /\ UNCHANGED tail
         /\ \E m \in Nat : Fappend(h, buffer[h], m)
  BY <1>2, <1>4 DEF Keep
<1>6. Stores(h, 0)
  <2>1. UNCHANGED <<uses, file, copying, failed, replaced, cut, failures>>
    BY <1>2
  <2>2. UNCHANGED sent
    BY <1>2
  <2> QED BY <1>1, <1>5, <2>1, <2>2, NothingNew DEF Stores
<1>7. /\ state' \in [Handles -> States]
      /\ \A g \in Handles \ {h} : state'[g] = state[g]
      /\ state'[h] \in {"flushing", "reading"}
  BY <1>2, <1>3 DEF States
<1>8. state'[h] = "reading" => step'[h] = "none" /\ buffer'[h] = <<>>
  BY <1>2, <1>3 DEF Idle, flying
<1>9. rest'[h] = <<>> /\ DOMAIN rest' = Handles /\ step[h] = "none"
      /\ state[h] # "truncating"
  BY <1>1, <1>2 DEF Idle, Shapes
<1>10. Queue(h)'
  BY <1>9 DEF Queue
<1>11. UNCHANGED <<rest, size, offset, from, got>>
  BY <1>2
<1> QED BY <1>6, <1>7, <1>8, <1>9, <1>10, <1>11, StoreStep

-----------------------------------------------------------------------------
(* Steps of one handle that leave the file as it is. *)

(* The bytes of a handle are where they were. *)
LEMMA BytesStay ==
  ASSUME FileInv, NEW h \in Handles, UNCHANGED chain, flight'[h] = flight[h],
         buffer'[h] = buffer[h], sent'[h] = sent[h], failed \subseteq failed',
         replaced \subseteq replaced', overlapped \subseteq overlapped'
  PROVE  Own(h)' /\ Sound(h)'
PROOF
<1>1. Own(h) /\ Sound(h)
  BY DEF FileInv, Buffers, Lines
<1>2. Own(h)'
  BY <1>1 DEF Own
<1>3. Line(h)' = Line(h)
  BY DEF Line, Content
<1>4. h \in failed \cup replaced \cup overlapped
        => h \in failed' \cup replaced' \cup overlapped'
  OBVIOUS
<1> QED BY <1>1, <1>2, <1>3, <1>4, SoundStays

(* What a handle has read is what it was. *)
LEMMA OwnReadStays ==
  ASSUME FileInv, NEW h \in Handles, UNCHANGED chain,
         offset'[h] = offset[h], from'[h] = from[h], got'[h] = got[h]
  PROVE  h \notin replaced \cup cut => Faithful(h)'
PROOF
<1>1. h \notin replaced \cup cut => Faithful(h)
  BY DEF FileInv, Reads
<1>2. Content' = Content
  BY DEF Content
<1> QED BY <1>1, <1>2, ReadStays

(* write_buf takes its argument. *)
LEMMA WriteBufKeeps ==
  ASSUME FileInv, NEW h \in Handles, NEW m \in WriteSizes, NEW n \in WriteSizes,
         sent[h] + m + n <= MaxSent, WriteBuf(h, <<m, n>>), UNCHANGED uses
  PROVE  FileInv'
PROOF
<1>1. Shapes /\ Stages /\ Flights /\ Since
  BY DEF FileInv
<1>2. /\ Idle(h) /\ rest' = [rest EXCEPT ![h] = <<m, n>>]
      /\ UNCHANGED <<chain, length, copying, state, offset, size, buffer, step,
                     flight, tail, total, gain, sent, failed, from, got,
                     overlapped, replaced, cut, failures>>
  BY DEF WriteBuf, file, flying, clients, losses
<1>3. Shapes'
  BY <1>1, <1>2 DEF Shapes, copying
<1>4. rest'[h] = <<m, n>> /\ \A g \in Handles \ {h} : rest'[g] = rest[g]
  BY <1>1, <1>2 DEF Shapes
<1>5. \A g \in Handles \ {h} : Kept(g) /\ step'[g] = step[g]
  BY <1>2, <1>4 DEF Kept
<1>6. Stage(h)'
  <2>1. Queue(h)'
    BY <1>2, <1>4 DEF Queue
  <2> QED BY <1>1, <1>2, <2>1 DEF Stages, Stage, Idle
<1>7. Carries(h)'
  BY <1>1, <1>2 DEF Flights, Carries, Appending
<1>8. Follows(h)'
  BY <1>1, <1>2 DEF Since, Follows
<1>9. Own(h)' /\ Sound(h)'
  BY <1>2, BytesStay
<1>10. h \notin replaced \cup cut => Faithful(h)'
  BY <1>2, OwnReadStays
<1>11. Appending(h)' => Appending(h)
  BY <1>2 DEF Appending
<1> QED BY <1>2, <1>3, <1>5, <1>6, <1>7, <1>8, <1>9, <1>10, <1>11, QuietStep

(* seek, in its three forms. *)
LEMMA SeekKeeps ==
  ASSUME FileInv, NEW h \in Handles, NEW n, Seek(h, n), UNCHANGED uses
  PROVE  FileInv'
PROOF
<1>1. Shapes /\ Stages /\ Flights /\ Since
  BY DEF FileInv
<1>2. /\ Idle(h) /\ n \in 0 .. MaxOffset /\ MoveTo(h, n)
      /\ UNCHANGED <<chain, length, copying, state, size, buffer, rest, step,
                     flight, tail, total, gain, sent, failed,
                     overlapped, replaced, cut, failures>>
  BY DEF Seek, file, flying, losses
<1>3. n \in Nat
  BY <1>2
<1>4. /\ offset' \in [Handles -> Nat] /\ from' \in [Handles -> Nat]
      /\ got' \in [Handles -> Seq(Byte)]
      /\ offset'[h] = n /\ from'[h] = n /\ got'[h] = <<>>
      /\ \A g \in Handles \ {h} :
           offset'[g] = offset[g] /\ from'[g] = from[g] /\ got'[g] = got[g]
  BY <1>1, <1>2, <1>3, MoveFacts
<1>5. Shapes'
  BY <1>1, <1>2, <1>4 DEF Shapes, copying
<1>6. \A g \in Handles \ {h} : Kept(g) /\ step'[g] = step[g]
  BY <1>2, <1>4 DEF Kept
<1>7. Stage(h)'
  <2>1. Queue(h)'
    BY <1>1, <1>2 DEF Stages, Stage, Queue
  <2> QED BY <1>1, <1>2, <2>1 DEF Stages, Stage, Idle
<1>8. Carries(h)'
  BY <1>1, <1>2 DEF Flights, Carries, Appending
<1>9. Follows(h)'
  BY <1>1, <1>2 DEF Since, Follows
<1>10. Own(h)' /\ Sound(h)'
  BY <1>2, BytesStay
<1>11. Faithful(h)'
  BY <1>3, <1>4, MovedRead
<1>12. Appending(h)' => Appending(h)
  BY <1>2 DEF Appending
<1> QED BY <1>2, <1>5, <1>6, <1>7, <1>8, <1>9, <1>10, <1>11, <1>12, QuietStep

(* open, when the file has been looked at. *)
LEMMA OpenKeeps ==
  ASSUME FileInv, NEW h \in Handles, Open(h), UNCHANGED uses
  PROVE  FileInv'
PROOF
<1>1. Shapes /\ Stages /\ Flights /\ Since
  BY DEF FileInv
<1>2. /\ state[h] \in {"new", "opening"}
      /\ state' = [state EXCEPT ![h] = "open"]
      /\ size' = [size EXCEPT ![h] = length]
      /\ UNCHANGED <<chain, length, copying, offset, buffer, rest, step, flight,
                     tail, total, gain, sent, failed, from, got,
                     overlapped, replaced, cut, failures>>
  BY DEF Open, file, flying, clients, losses
<1>3. /\ state' \in [Handles -> States] /\ size' \in [Handles -> Nat]
      /\ state'[h] = "open" /\ \A g \in Handles \ {h} : state'[g] = state[g]
  BY <1>1, <1>2 DEF Shapes, States
<1>4. Shapes'
  BY <1>1, <1>2, <1>3 DEF Shapes, copying
<1>5. \A g \in Handles \ {h} : Kept(g) /\ step'[g] = step[g]
  BY <1>2, <1>3 DEF Kept
<1>6. Stage(h)' /\ step[h] = "none"
  <2>1. Stage(h)
    BY <1>1 DEF Stages
  <2>2. Queue(h)' /\ step[h] = "none"
    BY <1>2, <2>1 DEF Stage, Queue
  <2> QED BY <1>2, <1>3, <2>2 DEF Stage
<1>7. Carries(h)'
  BY <1>1, <1>2, <1>6 DEF Flights, Carries, Appending
<1>8. Follows(h)'
  BY <1>1, <1>2 DEF Since, Follows
<1>9. Own(h)' /\ Sound(h)'
  BY <1>2, BytesStay
<1>10. h \notin replaced \cup cut => Faithful(h)'
  BY <1>2, OwnReadStays
<1>11. ~Appending(h)'
  BY <1>2, <1>6 DEF Appending
<1> QED BY <1>2, <1>4, <1>5, <1>6, <1>7, <1>8, <1>9, <1>10, <1>11, QuietStep

(* open to truncate: the inode is read. *)
LEMMA TruncateReadKeeps ==
  ASSUME FileInv, NEW h \in Handles, TruncateRead(h), UNCHANGED uses
  PROVE  FileInv'
PROOF
<1>1. Shapes /\ Stages /\ Flights /\ Since
  BY DEF FileInv
<1>2. /\ state[h] = "new"
      /\ state' = [state EXCEPT ![h] = "truncating"]
      /\ step' = [step EXCEPT ![h] = IF chain = <<>> THEN "none" ELSE "freeing"]
      /\ UNCHANGED <<chain, length, copying, offset, size, buffer, rest, flight,
                     tail, total, gain, sent, failed, from, got,
                     overlapped, replaced, cut, failures>>
  BY DEF TruncateRead, file, clients, losses
<1>3. /\ state' \in [Handles -> States] /\ step' \in [Handles -> Steps]
      /\ state'[h] = "truncating" /\ step'[h] \in {"none", "freeing"}
      /\ \A g \in Handles \ {h} : state'[g] = state[g] /\ step'[g] = step[g]
  BY <1>1, <1>2 DEF Shapes, States, Steps
<1>4. Shapes'
  BY <1>1, <1>2, <1>3 DEF Shapes, copying
<1>5. \A g \in Handles \ {h} : Kept(g) /\ step'[g] = step[g]
  BY <1>2, <1>3 DEF Kept
<1>6. Stage(h)' /\ step[h] = "none"
  <2>1. Stage(h)
    BY <1>1 DEF Stages
  <2>2. Queue(h)' /\ step[h] = "none" /\ Unused(h)' /\ rest[h] = <<>>
    BY <1>2, <2>1 DEF Stage, Queue, Unused
  <2> QED BY <1>2, <1>3, <2>2 DEF Stage
<1>7. Carries(h)'
  BY <1>1, <1>2, <1>3, <1>6 DEF Flights, Carries, Appending
<1>8. Follows(h)'
  BY <1>3 DEF Follows
<1>9. Own(h)' /\ Sound(h)'
  BY <1>2, BytesStay
<1>10. h \notin replaced \cup cut => Faithful(h)'
  BY <1>2, OwnReadStays
<1>11. ~Appending(h)'
  BY <1>3 DEF Appending
<1> QED BY <1>2, <1>4, <1>5, <1>6, <1>7, <1>8, <1>9, <1>10, <1>11, QuietStep

(* The walk to the tail. *)
LEMMA FindTailKeeps ==
  ASSUME FileInv, NEW h \in Handles, FindTail(h), UNCHANGED uses
  PROVE  FileInv'
PROOF
<1>1. Shapes /\ Stages /\ Flights /\ Since
  BY DEF FileInv
<1>2. /\ step[h] = "resolved"
      /\ step' = [step EXCEPT ![h] = "found"]
      /\ tail' = [tail EXCEPT ![h] = Len(chain)]
      /\ UNCHANGED <<chain, length, copying, state, offset, size, buffer, rest,
                     flight, total, gain, sent, failed, from, got,
                     overlapped, replaced, cut, failures>>
  BY DEF FindTail, file, handle, clients, losses
<1>3. Len(chain) \in Nat /\ DOMAIN chain = 1 .. Len(chain)
  BY <1>1, FileFacts, LenProperties
<1>4. /\ step' \in [Handles -> Steps] /\ tail' \in [Handles -> Nat]
      /\ step'[h] = "found" /\ tail'[h] = Len(chain)
      /\ \A g \in Handles \ {h} : step'[g] = step[g] /\ tail'[g] = tail[g]
  BY <1>1, <1>2, <1>3 DEF Shapes, Steps
<1>5. Shapes'
  BY <1>1, <1>2, <1>4 DEF Shapes, copying
<1>6. \A g \in Handles \ {h} : Kept(g) /\ step'[g] = step[g]
  BY <1>2, <1>4 DEF Kept
<1>7. Stage(h)' /\ Appending(h)
  <2>1. Stage(h)
    BY <1>1 DEF Stages
  <2>2. Queue(h)'
    BY <1>2, <2>1 DEF Stage, Queue
  <2> QED BY <1>2, <1>4, <2>1, <2>2 DEF Stage, Unused, Appending
<1>8. Carries(h)'
  BY <1>1, <1>2, <1>4, <1>7 DEF Flights, Carries
<1>9. Follows(h)'
  BY <1>2, <1>3, <1>4 DEF Follows
<1>10. Own(h)' /\ Sound(h)'
  BY <1>2, BytesStay
<1>11. h \notin replaced \cup cut => Faithful(h)'
  BY <1>2, OwnReadStays
<1> QED BY <1>2, <1>5, <1>6, <1>7, <1>8, <1>9, <1>10, <1>11, QuietStep

-----------------------------------------------------------------------------
(* The end of an append. *)

(* Its handle has nothing on its way any more. *)
LEMMA LandedFacts ==
  ASSUME Shapes, NEW h \in Handles, Landed(h)
  PROVE  /\ flight' \in [Handles -> Seq(Byte)] /\ tail' \in [Handles -> Nat]
         /\ total' \in [Handles -> Nat] /\ gain' \in [Handles -> Nat]
         /\ flight'[h] = <<>> /\ tail'[h] = 0
         /\ \A g \in Handles \ {h} : flight'[g] = flight[g] /\ tail'[g] = tail[g]
PROOF
<1>1. /\ flight \in [Handles -> Seq(Byte)] /\ tail \in [Handles -> Nat]
      /\ total \in [Handles -> Nat] /\ gain \in [Handles -> Nat]
      /\ <<>> \in Seq(Byte)
  BY DEF Shapes
<1> QED BY <1>1 DEF Landed

(* A handle that appends is open, or reads. *)
LEMMA AppendingFacts ==
  ASSUME FileInv, NEW h \in Handles,
         step[h] \in {"resolved", "found", "cutoff", "linked"}
  PROVE  /\ state[h] \in {"open", "flushing"} /\ Appending(h)
         /\ buffer[h] = <<>> /\ Queue(h)
         /\ rest[h] # <<>> => state[h] = "open"
PROOF
<1>1. Stage(h) /\ Carries(h) /\ state[h] \in States
  BY DEF FileInv, Stages, Flights, Shapes
<1>2. state[h] \in {"open", "flushing"} /\ Appending(h)
  BY <1>1 DEF Stage, States, Appending
<1> QED BY <1>1, <1>2 DEF Stage, Carries

(* The call returns: the handle is open or reads, and has moved or not. *)
LEMMA AnswerFacts ==
  ASSUME FileInv, NEW h \in Handles, step[h] \in {"found", "linked"}, Answer(h)
  PROVE  /\ state' \in [Handles -> States] /\ state'[h] \in {"open", "reading"}
         /\ rest[h] # <<>> => state'[h] = "open"
         /\ offset' \in [Handles -> Nat] /\ from' \in [Handles -> Nat]
         /\ got' \in [Handles -> Seq(Byte)]
         /\ flight' \in [Handles -> Seq(Byte)] /\ tail' \in [Handles -> Nat]
         /\ total' \in [Handles -> Nat] /\ gain' \in [Handles -> Nat]
         /\ flight'[h] = <<>> /\ tail'[h] = 0
         /\ \A g \in Handles \ {h} : Kept(g)
         /\ \/ offset'[h] = offset[h] /\ from'[h] = from[h] /\ got'[h] = got[h]
            \/ \E n \in Nat : offset'[h] = n /\ from'[h] = n /\ got'[h] = <<>>
         /\ UNCHANGED <<size, buffer, rest, copying, sent, failed, overlapped,
                        replaced, failures>>
PROOF
<1>1. Shapes
  BY DEF FileInv
<1>2. /\ state' = [state EXCEPT ![h] = IF @ = "flushing" THEN "reading" ELSE @]
      /\ IF gain[h] = 0 THEN UNCHANGED <<offset, from, got>>
         ELSE MoveTo(h, offset[h] + gain[h])
      /\ Landed(h)
      /\ UNCHANGED <<size, buffer, rest, copying, sent, failed, overlapped,
                     replaced, failures>>
  BY DEF Answer
<1>3. /\ state[h] \in {"open", "flushing"}
      /\ rest[h] # <<>> => state[h] = "open"
  BY AppendingFacts
<1>4. /\ state' \in [Handles -> States] /\ state'[h] \in {"open", "reading"}
      /\ rest[h] # <<>> => state'[h] = "open"
      /\ \A g \in Handles \ {h} : state'[g] = state[g]
  <2>1. state \in [Handles -> States]
    BY <1>1 DEF Shapes
  <2> QED BY <1>2, <1>3, <2>1 DEF States
<1>5. /\ flight' \in [Handles -> Seq(Byte)] /\ tail' \in [Handles -> Nat]
      /\ total' \in [Handles -> Nat] /\ gain' \in [Handles -> Nat]
      /\ flight'[h] = <<>> /\ tail'[h] = 0
      /\ \A g \in Handles \ {h} : flight'[g] = flight[g] /\ tail'[g] = tail[g]
  BY <1>1, <1>2, LandedFacts
<1>6. /\ offset' \in [Handles -> Nat] /\ from' \in [Handles -> Nat]
      /\ got' \in [Handles -> Seq(Byte)]
      /\ \/ offset'[h] = offset[h] /\ from'[h] = from[h] /\ got'[h] = got[h]
         \/ \E n \in Nat : offset'[h] = n /\ from'[h] = n /\ got'[h] = <<>>
      /\ \A g \in Handles \ {h} :
           offset'[g] = offset[g] /\ from'[g] = from[g] /\ got'[g] = got[g]
  <2>1. CASE UNCHANGED <<offset, from, got>>
    BY <1>1, <2>1 DEF Shapes
  <2>2. CASE MoveTo(h, offset[h] + gain[h])
    <3>1. offset[h] \in Nat /\ gain[h] \in Nat
      BY <1>1, FileFacts
    <3> DEFINE m == offset[h] + gain[h]
    <3>2. m \in Nat /\ MoveTo(h, m)
      BY <2>2, <3>1
    <3> HIDE DEF m
    <3> QED BY <1>1, <3>2, MoveFacts
  <2> QED BY <1>2, <2>1, <2>2
<1>7. \A g \in Handles \ {h} : Kept(g)
  BY <1>2, <1>4, <1>5, <1>6 DEF Kept
<1> QED BY <1>2, <1>4, <1>5, <1>6, <1>7

(* The inode is registered. *)
LEMMA RegisterAppendKeeps ==
  ASSUME FileInv, NEW h \in Handles, RegisterAppend(h), UNCHANGED uses
  PROVE  FileInv'
PROOF
<1>1. Shapes /\ Flights
  BY DEF FileInv
<1>2. /\ step[h] = "linked" /\ step' = [step EXCEPT ![h] = "none"]
      /\ length' = total[h] /\ Answer(h) /\ UNCHANGED <<chain, cut>>
  BY DEF RegisterAppend
<1>3. /\ state' \in [Handles -> States] /\ state'[h] \in {"open", "reading"}
      /\ rest[h] # <<>> => state'[h] = "open"
      /\ offset' \in [Handles -> Nat] /\ from' \in [Handles -> Nat]
      /\ got' \in [Handles -> Seq(Byte)]
      /\ flight' \in [Handles -> Seq(Byte)] /\ tail' \in [Handles -> Nat]
      /\ total' \in [Handles -> Nat] /\ gain' \in [Handles -> Nat]
      /\ flight'[h] = <<>> /\ tail'[h] = 0
      /\ \A g \in Handles \ {h} : Kept(g)
      /\ \/ offset'[h] = offset[h] /\ from'[h] = from[h] /\ got'[h] = got[h]
         \/ \E n \in Nat : offset'[h] = n /\ from'[h] = n /\ got'[h] = <<>>
      /\ UNCHANGED <<size, buffer, rest, copying, sent, failed, overlapped,
                     replaced, failures>>
  BY <1>2, AnswerFacts
<1>4. buffer[h] = <<>> /\ Queue(h)
  BY <1>2, AppendingFacts
<1>5. /\ step' \in [Handles -> Steps] /\ step'[h] = "none"
      /\ \A g \in Handles \ {h} : step'[g] = step[g]
  BY <1>1, <1>2 DEF Shapes, Steps
<1>6. length' \in Nat
  BY <1>1, <1>2, FileFacts
<1>7. Shapes'
  BY <1>1, <1>2, <1>3, <1>5, <1>6 DEF Shapes, copying
<1>8. Stage(h)'
  <2>1. Queue(h)'
    BY <1>3, <1>4 DEF Queue
  <2> QED BY <1>3, <1>4, <1>5, <2>1 DEF Stage
<1>9. Carries(h)' /\ ~Appending(h)'
  BY <1>3, <1>5 DEF Carries, Appending
<1>10. Follows(h)'
  BY <1>5 DEF Follows
<1>11. Own(h)' /\ Sound(h)'
  <2>1. flight'[h] = flight[h]
    BY <1>1, <1>2, <1>3 DEF Flights, Carries
  <2> QED BY <1>2, <1>3, <2>1, BytesStay
<1>12. h \notin replaced \cup cut => Faithful(h)'
  <2>1. CASE \E n \in Nat : offset'[h] = n /\ from'[h] = n /\ got'[h] = <<>>
    BY <2>1, MovedRead
  <2> QED BY <1>2, <1>3, <2>1, OwnReadStays
<1> QED BY <1>2, <1>3, <1>5, <1>7, <1>8, <1>9, <1>10, <1>11, <1>12, QuietStep

(* What was on its way is in extents that are not in the file. *)
LEMMA LinkNowhereKeeps ==
  ASSUME FileInv, NEW h \in Handles, LinkNowhere(h), UNCHANGED uses
  PROVE  FileInv'
PROOF
<1>1. Shapes /\ Stages /\ Flights /\ Buffers /\ Since /\ Lines
  BY DEF FileInv
<1>2. /\ step[h] = "cutoff"
      /\ step' = [step EXCEPT ![h] = "linked"]
      /\ flight' = [flight EXCEPT ![h] = <<>>]
      /\ UNCHANGED <<chain, length, copying, state, offset, size, buffer, rest,
                     tail, total, gain, sent, failed, from, got,
                     overlapped, replaced, cut, failures>>
  BY DEF LinkNowhere, file, handle, clients, losses
<1>3. /\ step' \in [Handles -> Steps] /\ flight' \in [Handles -> Seq(Byte)]
      /\ step'[h] = "linked" /\ flight'[h] = <<>>
      /\ \A g \in Handles \ {h} : step'[g] = step[g] /\ flight'[g] = flight[g]
  <2>1. <<>> \in Seq(Byte)
    OBVIOUS
  <2> QED BY <1>1, <1>2, <2>1 DEF Shapes, Steps
<1>4. /\ buffer[h] = <<>> /\ Queue(h) /\ Appending(h)
      /\ state[h] \in {"open", "flushing"} /\ (rest[h] # <<>> => state[h] = "open")
  BY <1>2, AppendingFacts
<1>5. Shapes'
  BY <1>1, <1>2, <1>3 DEF Shapes, copying
<1>6. \A g \in Handles \ {h} : Kept(g) /\ step'[g] = step[g]
  BY <1>2, <1>3 DEF Kept
<1>7. Stage(h)'
  <2>1. Queue(h)'
    BY <1>2, <1>4 DEF Queue
  <2> QED BY <1>2, <1>3, <1>4, <2>1 DEF Stage
<1>8. Carries(h)'
  BY <1>2, <1>3, <1>4 DEF Carries
<1>9. Follows(h)'
  BY <1>3 DEF Follows
<1>10. Own(h)'
  <2>1. DOMAIN <<>> = {}
    OBVIOUS
  <2> QED BY <1>1, <1>2, <1>3, <2>1 DEF Buffers, Own
<1>11. Sound(h)'
  <2>1. h \in overlapped /\ Sound(h)
    BY <1>1, <1>2 DEF Since, Follows, Lines
  <2>2. h \in failed' \cup replaced' \cup overlapped'
    BY <1>2, <2>1
  <2>3. buffer'[h] = <<>> /\ sent'[h] = sent[h] /\ UNCHANGED chain
    BY <1>2, <1>4
  <2> QED BY <1>1, <1>3, <2>1, <2>2, <2>3, BytesDropped
<1>12. h \notin replaced \cup cut => Faithful(h)'
  BY <1>2, OwnReadStays
<1> QED BY <1>2, <1>4, <1>5, <1>6, <1>7, <1>8, <1>9, <1>10, <1>11, <1>12, QuietStep

(* No space. *)
LEMMA AppendFailsKeeps ==
  ASSUME FileInv, NEW h \in Handles, AppendFails(h), UNCHANGED uses
  PROVE  FileInv'
PROOF
<1>1. Shapes /\ Stages /\ Flights /\ Buffers /\ Since /\ Lines
  BY DEF FileInv
<1>2. /\ step[h] \in {"found", "cutoff"}
      /\ failures < MaxFailures /\ failures' = failures + 1
      /\ failed' = failed \cup {h}
      /\ step' = [step EXCEPT ![h] = "none"]
      /\ state' = [state EXCEPT ![h] = "open"]
      /\ rest' = [rest EXCEPT ![h] = <<>>]
      /\ Landed(h)
      /\ UNCHANGED <<chain, length, copying, offset, size, buffer, sent, from, got,
                     overlapped, replaced, cut>>
  BY DEF AppendFails, file, losses
<1>3. /\ flight' \in [Handles -> Seq(Byte)] /\ tail' \in [Handles -> Nat]
      /\ total' \in [Handles -> Nat] /\ gain' \in [Handles -> Nat]
      /\ flight'[h] = <<>> /\ tail'[h] = 0
      /\ \A g \in Handles \ {h} : flight'[g] = flight[g] /\ tail'[g] = tail[g]
  BY <1>1, <1>2, LandedFacts
<1>4. /\ step' \in [Handles -> Steps] /\ state' \in [Handles -> States]
      /\ step'[h] = "none" /\ state'[h] = "open" /\ rest'[h] = <<>>
      /\ DOMAIN rest' = Handles
      /\ \A g \in Handles \ {h} :
           step'[g] = step[g] /\ state'[g] = state[g] /\ rest'[g] = rest[g]
  BY <1>1, <1>2 DEF Shapes, Steps, States
<1>5. failures' \in 0 .. MaxFailures /\ failed' \subseteq Handles
  BY <1>1, <1>2, SizeAssumption DEF Shapes
<1>6. Shapes'
  BY <1>1, <1>2, <1>3, <1>4, <1>5 DEF Shapes, copying
<1>7. \A g \in Handles \ {h} : Kept(g) /\ step'[g] = step[g]
  BY <1>2, <1>3, <1>4 DEF Kept
<1>8. Stage(h)'
  BY <1>4 DEF Stage, Queue
<1>9. Carries(h)' /\ ~Appending(h)'
  BY <1>3, <1>4 DEF Carries, Appending
<1>10. Follows(h)'
  BY <1>4 DEF Follows
<1>11. buffer[h] = <<>>
  BY <1>2, AppendingFacts
<1>12. Own(h)'
  <2>1. DOMAIN <<>> = {}
    OBVIOUS
  <2> QED BY <1>1, <1>2, <1>3, <2>1 DEF Buffers, Own
<1>13. Sound(h)'
  <2>1. Sound(h) /\ h \in failed' \cup replaced' \cup overlapped'
    BY <1>1, <1>2 DEF Lines
  <2>2. buffer'[h] = <<>> /\ sent'[h] = sent[h] /\ UNCHANGED chain
    BY <1>2, <1>11
  <2> QED BY <1>1, <1>3, <2>1, <2>2, BytesDropped
<1>14. h \notin replaced \cup cut => Faithful(h)'
  BY <1>2, OwnReadStays
<1> QED BY <1>2, <1>6, <1>7, <1>8, <1>9, <1>10, <1>12, <1>13, <1>14, QuietStep

(* The drop of a handle, with what is in its buffer and on its way. *)
LEMMA CloseKeeps ==
  ASSUME FileInv, NEW h \in Handles, Close(h), UNCHANGED uses
  PROVE  FileInv'
PROOF
<1>1. Shapes /\ Stages /\ Flights /\ Buffers /\ Lines
  BY DEF FileInv
<1>2. /\ Idle(h) \/ (step[h] # "none" /\ state[h] # "truncating")
      /\ state' = [state EXCEPT ![h] = "closed"]
      /\ step' = [step EXCEPT ![h] = "none"]
      /\ buffer' = [buffer EXCEPT ![h] = <<>>]
      /\ rest' = [rest EXCEPT ![h] = <<>>]
      /\ failed' = IF Idle(h) /\ buffer[h] = <<>> THEN failed ELSE failed \cup {h}
      /\ size' = [size EXCEPT ![h] = 0]
      /\ Landed(h) /\ MoveTo(h, 0)
      /\ UNCHANGED <<chain, length, copying, sent, overlapped, replaced, cut,
                     failures>>
  BY DEF Close, file, losses
<1>3. /\ flight' \in [Handles -> Seq(Byte)] /\ tail' \in [Handles -> Nat]
      /\ total' \in [Handles -> Nat] /\ gain' \in [Handles -> Nat]
      /\ flight'[h] = <<>> /\ tail'[h] = 0
      /\ \A g \in Handles \ {h} : flight'[g] = flight[g] /\ tail'[g] = tail[g]
  BY <1>1, <1>2, LandedFacts
<1>4. /\ offset' \in [Handles -> Nat] /\ from' \in [Handles -> Nat]
      /\ got' \in [Handles -> Seq(Byte)]
      /\ offset'[h] = 0 /\ from'[h] = 0 /\ got'[h] = <<>>
      /\ \A g \in Handles \ {h} :
           offset'[g] = offset[g] /\ from'[g] = from[g] /\ got'[g] = got[g]
  BY <1>1, <1>2, MoveFacts
<1>5. /\ step' \in [Handles -> Steps] /\ state' \in [Handles -> States]
      /\ step'[h] = "none" /\ state'[h] = "closed" /\ rest'[h] = <<>>
      /\ DOMAIN rest' = Handles
      /\ \A g \in Handles \ {h} :
           step'[g] = step[g] /\ state'[g] = state[g] /\ rest'[g] = rest[g]
  BY <1>1, <1>2 DEF Shapes, Steps, States
<1>6. /\ buffer' \in [Handles -> Seq(Byte)] /\ size' \in [Handles -> Nat]
      /\ buffer'[h] = <<>> /\ \A g \in Handles \ {h} : buffer'[g] = buffer[g]
  <2>1. <<>> \in Seq(Byte)
    OBVIOUS
  <2> QED BY <1>1, <1>2, <2>1 DEF Shapes
<1>7. failed' \subseteq Handles /\ failed \subseteq failed'
  BY <1>1, <1>2 DEF Shapes
<1>8. Shapes'
  BY <1>1, <1>2, <1>3, <1>4, <1>5, <1>6, <1>7 DEF Shapes, copying
<1>9. \A g \in Handles \ {h} : Kept(g) /\ step'[g] = step[g]
  BY <1>2, <1>3, <1>4, <1>5, <1>6 DEF Kept
<1>10. Stage(h)'
  BY <1>5 DEF Stage, Queue
<1>11. Carries(h)' /\ ~Appending(h)'
  BY <1>3, <1>5 DEF Carries, Appending
<1>12. Follows(h)'
  BY <1>5 DEF Follows
<1>13. Own(h)'
  <2>1. DOMAIN <<>> = {} /\ Len(<<>>) < ChunkSize
    BY SizeAssumption
  <2> QED BY <1>3, <1>6, <2>1 DEF Own
<1>14. Sound(h)'
  <2>1. Sound(h) /\ (Idle(h) => flight[h] = <<>>)
    BY <1>1 DEF Lines, Idle, Flights, Carries
  <2>2. \/ h \in failed' \cup replaced' \cup overlapped'
        \/ buffer[h] = <<>> /\ flight[h] = <<>>
    BY <1>2, <2>1
  <2>3. h \in failed \cup replaced \cup overlapped
          => h \in failed' \cup replaced' \cup overlapped'
    BY <1>2, <1>7
  <2>4. sent'[h] = sent[h] /\ UNCHANGED chain
    BY <1>2
  <2> QED BY <1>1, <1>3, <1>6, <2>1, <2>2, <2>3, <2>4, BytesDropped
<1>15. Faithful(h)'
  BY <1>4, MovedRead
<1> QED BY <1>2, <1>7, <1>8, <1>9, <1>10, <1>11, <1>12, <1>13, <1>14, <1>15,
           QuietStep

-----------------------------------------------------------------------------
(* The steps that change the file. *)

(* What an append leaves of the file is of extents, and what it cuts off   *)
(* is of users.                                                            *)
LEMMA LinkedShapes ==
  ASSUME FileInv, NEW h \in Handles, step[h] = "found", Links(h), Keeps(tail[h])
  PROVE  chain' \in Seq(Extent) /\ cut' \subseteq Handles \cup {Copy}
PROOF
<1>1. Shapes /\ Flights /\ Buffers /\ Since
  BY DEF FileInv
<1>2. chain' \in Seq(Extent)
  BY <1>1, LinkFacts
<1>3. cut' \subseteq Handles \cup {Copy}
  BY <1>1 DEF Keeps, Shapes
<1> QED BY <1>2, <1>3

(* The stored extents become the next of the tail. *)
LEMMA LinkExtentsKeeps ==
  ASSUME FileInv, NEW h \in Handles, LinkExtents(h), UNCHANGED uses
  PROVE  FileInv'
PROOF
<1>1. Shapes /\ Stages /\ Flights
  BY DEF FileInv
<1>2. /\ step[h] = "found" /\ Links(h) /\ Keeps(tail[h])
      /\ step' = [g \in Handles |->
                    IF g = h THEN "linked"
                    ELSE IF step[g] = "found" /\ tail[g] > tail[h] THEN "cutoff"
                    ELSE step[g]]
      /\ flight' = [flight EXCEPT ![h] = <<>>]
      /\ UNCHANGED <<length, state, offset, size, buffer, rest, tail, total, gain,
                     copying, sent, failed, from, got, overlapped, replaced,
                     failures>>
  BY DEF LinkExtents, Links, handle, clients
<1>3. chain' \in Seq(Extent) /\ cut' \subseteq Handles \cup {Copy}
  BY <1>2, LinkedShapes
<1>4. step \in [Handles -> Steps]
  BY <1>1 DEF Shapes
<1>5. step' \in [Handles -> Steps] /\ step'[h] = "linked"
  BY <1>2, <1>4 DEF Steps
<1>6. /\ flight' \in [Handles -> Seq(Byte)] /\ flight'[h] = <<>>
      /\ \A g \in Handles \ {h} : flight'[g] = flight[g]
  <2>1. <<>> \in Seq(Byte)
    OBVIOUS
  <2> QED BY <1>1, <1>2, <2>1 DEF Shapes
<1>7. Shapes'
  BY <1>1, <1>2, <1>3, <1>5, <1>6 DEF Shapes, copying
<1>8. ASSUME NEW g \in Handles \ {h}
      PROVE  /\ Kept(g) /\ Pushed(g)
             /\ step'[g] = "found" => step[g] = "found" /\ tail[g] <= tail[h]
  <2>1. step'[g] = IF step[g] = "found" /\ tail[g] > tail[h] THEN "cutoff"
                   ELSE step[g]
    BY <1>2
  <2>2. tail[g] \in Nat /\ tail[h] \in Nat
    BY <1>1, FileFacts
  <2>3. Kept(g)
    BY <1>2, <1>6 DEF Kept
  <2>4. Pushed(g)
    BY <2>1 DEF Pushed
  <2> QED BY <2>1, <2>2, <2>3, <2>4
<1>9. /\ state[h] \in {"open", "flushing"} /\ Appending(h) /\ buffer[h] = <<>>
      /\ Queue(h) /\ (rest[h] # <<>> => state[h] = "open")
  BY <1>2, AppendingFacts
<1>10. Stage(h)'
  <2>1. Queue(h)'
    BY <1>2, <1>9 DEF Queue
  <2> QED BY <1>2, <1>5, <1>9, <2>1 DEF Stage
<1>11. Carries(h)'
  BY <1>2, <1>5, <1>6, <1>9 DEF Carries
<1>12. /\ sent'[h] = sent[h] /\ buffer'[h] = buffer[h]
       /\ offset'[h] = offset[h] /\ from'[h] = from[h] /\ got'[h] = got[h]
       /\ UNCHANGED <<copying, failed, overlapped, replaced>>
  BY <1>2
<1> QED BY <1>2, <1>5, <1>6, <1>7, <1>8, <1>9, <1>10, <1>11, <1>12, LinkStep

(* Where the file begins elsewhere, no append holds what it had. *)
LEMMA ElsewhereFacts ==
  ASSUME Shapes, Flights, NEW h \in Handles, Elsewhere(h)
  PROVE  /\ step' \in [Handles -> Steps] /\ step'[h] = "none"
         /\ \A g \in Handles \ {h} :
              /\ Pushed(g) /\ step'[g] # "cutoff"
              /\ step'[g] = "found" => step[g] = "found" /\ tail[g] = 0
PROOF
<1>1. step \in [Handles -> Steps]
  BY DEF Shapes
<1>2. step' = [g \in Handles |-> IF g = h THEN "none"
                                 ELSE IF Holding(g) THEN "astray" ELSE step[g]]
  BY DEF Elsewhere
<1>3. step' \in [Handles -> Steps] /\ step'[h] = "none"
  BY <1>1, <1>2 DEF Steps
<1>4. ASSUME NEW g \in Handles \ {h}
      PROVE  /\ Pushed(g) /\ step'[g] # "cutoff"
             /\ step'[g] = "found" => step[g] = "found" /\ tail[g] = 0
  <2>1. step'[g] = IF Holding(g) THEN "astray" ELSE step[g]
    BY <1>2
  <2> QED BY <2>1 DEF Pushed, Holding
<1> QED BY <1>3, <1>4

(* The first extents of a file that had none. *)
LEMMA AppendNewKeeps ==
  ASSUME FileInv, NEW h \in Handles, AppendNew(h), UNCHANGED uses
  PROVE  FileInv'
PROOF
<1>1. Shapes /\ Flights
  BY DEF FileInv
<1>2. /\ step[h] = "found" /\ tail[h] = 0
      /\ chain' \in Pieces(flight[h]) /\ length' = total[h]
      /\ Elsewhere(h) /\ Keeps(0) /\ Answer(h)
  BY DEF AppendNew
<1>3. Links(h) /\ Keeps(tail[h])
  <2>1. flight[h] \in Seq(Byte) /\ flight[h] # <<>>
    BY <1>1, <1>2, FileFacts DEF Flights, Carries
  <2> DEFINE data == flight[h]
  <2>2. data \in Seq(Byte) /\ data # <<>> /\ chain' \in Pieces(data)
    BY <1>2, <2>1
  <2> HIDE DEF data
  <2>3. chain' \in Seq(Seq(Byte) \ {<<>>})
    <3>1. <<>> \in Seq(Seq(Byte) \ {<<>>})
      OBVIOUS
    <3>2. PICK pieces \in Pieces(data) : chain' = pieces
      BY <2>2
    <3>3. pieces \in Seq(Seq(Byte) \ {<<>>})
      BY <2>2, <3>1, PiecesFacts
    <3> QED BY <3>2, <3>3
  <2>4. <<>> \o chain' = chain'
    BY <2>3, ConcatEmptySeq
  <2>5. SubSeq(chain, 1, 0) = <<>>
    BY SubSeqEmpty
  <2>6. chain' = SubSeq(chain, 1, tail[h]) \o chain'
    BY <1>2, <2>4, <2>5
  <2> QED BY <1>2, <2>6 DEF Links
<1>4. chain' \in Seq(Extent) /\ cut' \subseteq Handles \cup {Copy}
  BY <1>2, <1>3, LinkedShapes
<1>5. /\ state' \in [Handles -> States] /\ state'[h] \in {"open", "reading"}
      /\ rest[h] # <<>> => state'[h] = "open"
      /\ offset' \in [Handles -> Nat] /\ from' \in [Handles -> Nat]
      /\ got' \in [Handles -> Seq(Byte)]
      /\ flight' \in [Handles -> Seq(Byte)] /\ tail' \in [Handles -> Nat]
      /\ total' \in [Handles -> Nat] /\ gain' \in [Handles -> Nat]
      /\ flight'[h] = <<>> /\ tail'[h] = 0
      /\ \A g \in Handles \ {h} : Kept(g)
      /\ \/ offset'[h] = offset[h] /\ from'[h] = from[h] /\ got'[h] = got[h]
         \/ \E n \in Nat : offset'[h] = n /\ from'[h] = n /\ got'[h] = <<>>
      /\ UNCHANGED <<size, buffer, rest, copying, sent, failed, overlapped,
                     replaced, failures>>
  BY <1>2, AnswerFacts
<1>6. /\ step' \in [Handles -> Steps] /\ step'[h] = "none"
      /\ \A g \in Handles \ {h} :
           /\ Pushed(g) /\ step'[g] # "cutoff"
           /\ step'[g] = "found" => step[g] = "found" /\ tail[g] = 0
  BY <1>1, <1>2, ElsewhereFacts
<1>7. length' \in Nat
  BY <1>1, <1>2, FileFacts
<1>8. Shapes'
  BY <1>1, <1>4, <1>5, <1>6, <1>7 DEF Shapes, copying
<1>9. buffer[h] = <<>> /\ Queue(h)
  BY <1>2, AppendingFacts
<1>10. Stage(h)'
  <2>1. Queue(h)'
    BY <1>5, <1>9 DEF Queue
  <2> QED BY <1>5, <1>6, <1>9, <2>1 DEF Stage
<1>11. Carries(h)' /\ ~Appending(h)'
  BY <1>5, <1>6 DEF Carries, Appending
<1>12. \A g \in Handles \ {h} :
         /\ Kept(g) /\ Pushed(g)
         /\ step'[g] = "found" => step[g] = "found" /\ tail[g] <= tail[h]
  BY <1>2, <1>5, <1>6
<1>13. /\ sent'[h] = sent[h] /\ buffer'[h] = buffer[h]
       /\ UNCHANGED <<copying, failed, overlapped, replaced>>
  BY <1>5
<1> QED BY <1>2, <1>3, <1>5, <1>6, <1>8, <1>10, <1>11, <1>12, <1>13, LinkStep

(* A truncated file has no content. *)
LEMMA EmptyFile ==
  ASSUME chain' = <<>>
  PROVE  Content' = <<>> /\ FileSize' = 0
PROOF
<1>1. Content' = <<>>
  BY FlatEmpty DEF Content
<1>2. Len(<<>>) = 0
  OBVIOUS
<1> QED BY <1>1, <1>2 DEF FileSize

(* Truncation by an open: the handles and the copy that used the file are  *)
(* replaced, and those that are not have read and sent nothing.            *)
LEMMA TruncateKeeps ==
  ASSUME FileInv, NEW h \in Handles, Truncate(h), UNCHANGED uses
  PROVE  FileInv'
PROOF
<1>1. /\ Shapes /\ Stages /\ Flights /\ Buffers /\ Together
      /\ Lines /\ Reads /\ Copies
  BY DEF FileInv
<1> DEFINE users == {g \in Handles :
                       state[g] \notin {"new", "truncating", "opening"}}
                      \cup (IF phase = "idle" THEN {} ELSE {Copy})
<1>2. /\ state[h] = "truncating" /\ step[h] # "astray"
      /\ state' = [state EXCEPT ![h] = "opening"]
      /\ chain' = <<>> /\ length' = 0 /\ Elsewhere(h)
      /\ replaced' = IF chain = <<>> THEN replaced ELSE replaced \cup users
      /\ UNCHANGED <<offset, size, buffer, rest, flight, tail, total, gain, copying,
                     sent, failed, from, got, overlapped, cut, failures>>
  BY DEF Truncate, clients
<1>3. /\ state' \in [Handles -> States] /\ state'[h] = "opening"
      /\ \A g \in Handles \ {h} : state'[g] = state[g]
  BY <1>1, <1>2 DEF Shapes, States
<1>4. replaced' \subseteq Handles \cup {Copy} /\ replaced \subseteq replaced'
  <2>1. users \subseteq Handles \cup {Copy}
    OBVIOUS
  <2> QED BY <1>1, <1>2, <2>1 DEF Shapes
<1>5. \A g \in Handles : g \notin replaced' /\ chain # <<>> =>
        state[g] \in {"new", "truncating", "opening"}
  BY <1>2
<1>6. Copy \notin replaced' /\ chain # <<>> => phase = "idle"
  BY <1>2
<1> HIDE DEF users
<1>7. /\ step' \in [Handles -> Steps] /\ step'[h] = "none"
      /\ \A g \in Handles \ {h} :
           /\ Pushed(g) /\ step'[g] # "cutoff"
           /\ step'[g] = "found" => step[g] = "found" /\ tail[g] = 0
  BY <1>1, <1>2, ElsewhereFacts
<1>8. Shapes'
  <2>1. <<>> \in Seq(Extent) /\ 0 \in Nat
    OBVIOUS
  <2> QED BY <1>1, <1>2, <1>3, <1>4, <1>7, <2>1 DEF Shapes, copying
<1>9. ASSUME NEW g \in Handles \ {h}
      PROVE  /\ Stage(g)' /\ Carries(g)' /\ Own(g)'
             /\ Appending(g)' => Appending(g)
  <2>1. Kept(g) /\ Pushed(g)
    BY <1>2, <1>3, <1>7 DEF Kept
  <2> QED BY <1>1, <2>1, OthersStay
<1>10. Stage(h)' /\ Carries(h)' /\ Own(h)' /\ ~Appending(h)'
  <2>1. Stage(h) /\ Carries(h) /\ Own(h)
    BY <1>1 DEF Stages, Flights, Buffers
  <2>2. step[h] \in {"none", "freeing"} /\ Unused(h) /\ rest[h] = <<>>
    BY <1>2, <2>1 DEF Stage
  <2>3. Unused(h)' /\ Queue(h)'
    BY <1>2, <2>2 DEF Unused, Queue
  <2>4. Own(h)'
    BY <1>2, <2>1 DEF Own
  <2> QED BY <1>2, <1>3, <1>7, <2>1, <2>2, <2>3, <2>4
          DEF Stage, Carries, Appending, Unused
<1>11. Stages' /\ Flights' /\ Buffers'
  BY <1>9, <1>10 DEF Stages, Flights, Buffers
<1>12. Together'
  <2>1. \A g \in Handles : Appending(g)' => Appending(g)
    BY <1>9, <1>10
  <2> QED BY <1>1, <1>2, <2>1 DEF Together
<1>13. Since'
  <2> SUFFICES ASSUME NEW g \in Handles PROVE Follows(g)'
    BY DEF Since
  <2>1. Len(<<>>) = 0 /\ DOMAIN <<>> = {}
    OBVIOUS
  <2>2. step'[g] # "cutoff" /\ (step'[g] = "found" => tail'[g] = 0)
    BY <1>2, <1>7
  <2> QED BY <1>2, <2>1, <2>2 DEF Follows
<1>14. Content' = <<>> /\ FileSize' = 0
  BY <1>2, EmptyFile
<1>15. chain = <<>> => Content' = Content /\ chain' = chain /\ replaced' = replaced
  BY <1>2 DEF Content
<1>16. ASSUME NEW g \in Handles
       PROVE  Sound(g)'
  <2>1. Sound(g)
    BY <1>1 DEF Lines
  <2>2. CASE chain = <<>>
    <3>1. Line(g)' = Line(g)
      BY <1>2, <1>15, <2>2 DEF Line
    <3>2. sent'[g] = sent[g] /\ UNCHANGED <<failed, replaced, overlapped>>
      BY <1>2, <1>15, <2>2
    <3> QED BY <2>1, <3>1, <3>2, SoundStays
  <2>3. CASE chain # <<>>
    <3> DEFINE t == flight[g] \o buffer[g]
    <3>1. /\ Content \in Seq(Byte) /\ t \in Seq(Byte) /\ Line(g) = Content \o t
          /\ flight[g] \in Seq(Byte) /\ buffer[g] \in Seq(Byte)
      BY <1>1, LineFacts, FileFacts
    <3>2. Line(g)' = t
      <4>1. Line(g)' = (<<>> \o flight[g]) \o buffer[g]
        BY <1>2, <1>14 DEF Line
      <4> QED BY <3>1, <4>1, ConcatEmptySeq
    <3>3. InOrder(t, g) /\ Numbers(t, g) \subseteq 1 .. sent[g]
      <4>1. InOrder(Line(g), g) /\ Numbers(Line(g), g) \subseteq 1 .. sent[g]
        BY <2>1 DEF Sound
      <4> HIDE DEF t
      <4>2. Numbers(Content \o t, g) = Numbers(Content, g) \cup Numbers(t, g)
        BY <3>1, NumbersOfJoin
      <4>3. InOrder(t, g)
        BY <3>1, <4>1, OrderOfJoin
      <4> QED BY <3>1, <4>1, <4>2, <4>3
    <3>4. ASSUME g \notin replaced'
          PROVE  Numbers(t, g) = 1 .. sent[g]
      <4>1. Unused(g)
        BY <1>1, <1>5, <2>3, <3>4 DEF Stages, Stage
      <4>2. sent[g] = 0
        BY <4>1 DEF Unused
      <4>3. 1 .. 0 = {}
        OBVIOUS
      <4> QED BY <3>3, <4>2, <4>3
    <3> HIDE DEF t
    <3> QED BY <1>2, <3>2, <3>3, <3>4 DEF Sound
  <2> QED BY <2>2, <2>3
<1>17. Lines'
  BY <1>16 DEF Lines
<1>18. Reads'
  <2> SUFFICES ASSUME NEW g \in Handles, g \notin replaced' \cup cut'
               PROVE  Faithful(g)'
    BY DEF Reads
  <2>1. Faithful(g)
    BY <1>1, <1>2, <1>4 DEF Reads
  <2>2. CASE chain = <<>>
    BY <1>2, <1>15, <2>1, <2>2, ReadStays
  <2>3. CASE chain # <<>>
    <3>1. Unused(g)
      BY <1>1, <1>5, <2>3 DEF Stages, Stage
    <3>2. got'[g] = <<>> /\ offset'[g] = from'[g] + Len(got'[g])
      BY <1>2, <2>1, <3>1 DEF Unused, Faithful
    <3>3. DOMAIN <<>> = {}
      OBVIOUS
    <3> QED BY <3>2, <3>3 DEF Faithful
  <2> QED BY <2>2, <2>3
<1>19. Copies'
  <2>1. CASE chain = <<>>
    <3>1. UNCHANGED <<chain, copying, replaced, cut>>
      BY <1>2, <1>15, <2>1
    <3> QED BY <1>1, <3>1, CopyStays
  <2>2. CASE chain # <<>>
    BY <1>1, <1>2, <1>6, <2>2 DEF Copies, copying
  <2> QED BY <2>1, <2>2
<1> QED BY <1>8, <1>11, <1>12, <1>13, <1>17, <1>18, <1>19 DEF FileInv

-----------------------------------------------------------------------------
(* Reads and the copy, which leave the file as it is. *)

(* read_bytes, from its fseek: what it returns are the next bytes of the   *)
(* content.                                                                *)
LEMMA FseekKeeps ==
  ASSUME FileInv, NEW h \in Handles, NEW count \in ReadSizes, Fseek(h, count),
         UNCHANGED uses
  PROVE  FileInv'
PROOF
<1> DEFINE o == offset[h]
           data == SeekFullData(o, o + count)
           n == Least(o + count, FileSize)
<1>1. Shapes /\ Stages /\ Flights /\ Since /\ Reads
  BY DEF FileInv
<1>2. /\ state[h] = "reading"
      /\ state' = [state EXCEPT ![h] = "open"]
      /\ got' = [got EXCEPT ![h] = @ \o data]
      /\ offset' = [offset EXCEPT ![h] = @ + Len(data)]
      /\ UNCHANGED <<chain, length, size, buffer, rest, step, flight, tail, total,
                     gain, copying, sent, failed, from, overlapped, replaced,
                     cut, failures>>
  BY DEF Fseek, AsRead, file, flying, losses
<1>3. Content' = Content /\ FileSize' = FileSize
  BY <1>2 DEF Content, FileSize
<1>4. /\ o \in Nat /\ count \in Nat /\ o + count \in Nat /\ from[h] \in Nat
      /\ got[h] \in Seq(Byte) /\ Content \in Seq(Byte) /\ FileSize \in Nat
      /\ chain \in Seq(Seq(Byte))
  BY <1>1, FileFacts, SizeAssumption
<1>5. data = SubSeq(Content, o + 1, n)
  BY <1>4, SeekReturnsContent
<1>6. n \in Nat /\ n <= FileSize /\ FileSize = Len(Content)
  BY <1>4 DEF Least, FileSize
<1> HIDE DEF o, data, n
<1>7. /\ data \in Seq(Byte)
      /\ Len(data) = IF o < n THEN n - o ELSE 0
      /\ \A i \in 1 .. (n - o) : data[i] = Content[o + i]
  <2>1. n \in Int /\ n <= Len(Content)
    BY <1>6
  <2> QED BY <1>4, <1>5, <2>1, Part
<1>8. /\ got[h] \o data \in Seq(Byte)
      /\ Len(got[h] \o data) = Len(got[h]) + Len(data)
      /\ Len(got[h]) \in Nat /\ Len(data) \in Nat
      /\ DOMAIN got[h] = 1 .. Len(got[h])
      /\ DOMAIN (got[h] \o data) = 1 .. (Len(got[h]) + Len(data))
      /\ \A i \in 1 .. Len(got[h]) : (got[h] \o data)[i] = got[h][i]
      /\ \A i \in 1 .. Len(data) : (got[h] \o data)[Len(got[h]) + i] = data[i]
  <2>1. got[h] \in Seq(Byte) /\ data \in Seq(Byte)
    BY <1>4, <1>7
  <2> QED BY <2>1, Joining
<1>9. /\ got \in [Handles -> Seq(Byte)] /\ offset \in [Handles -> Nat]
      /\ state \in [Handles -> States]
  BY <1>1 DEF Shapes
<1>10. /\ got'[h] = got[h] \o data /\ offset'[h] = o + Len(data)
       /\ state'[h] = "open"
       /\ \A g \in Handles \ {h} :
            got'[g] = got[g] /\ offset'[g] = offset[g] /\ state'[g] = state[g]
  BY <1>2, <1>9 DEF o
<1>11. /\ got' \in [Handles -> Seq(Byte)]
       /\ state' \in [Handles -> States]
  BY <1>2, <1>8, <1>9 DEF States
<1>12. offset' \in [Handles -> Nat]
  <2>1. offset[h] + Len(data) \in Nat
    BY <1>4, <1>8 DEF o
  <2> QED BY <1>2, <1>9, <2>1
<1>13. Shapes'
  BY <1>1, <1>2, <1>11, <1>12 DEF Shapes, copying
<1>14. Own(h)' /\ Sound(h)'
  BY <1>2, BytesStay
<1>15. Faithful(h) => Faithful(h)'
  <2> SUFFICES ASSUME Faithful(h) PROVE Faithful(h)'
    OBVIOUS
  <2>1. /\ o = from[h] + Len(got[h])
        /\ \A i \in DOMAIN got[h] :
             from[h] + i <= FileSize /\ got[h][i] = Content[from[h] + i]
    BY DEF Faithful, o
  <2>2. offset'[h] = from'[h] + Len(got'[h])
    BY <1>2, <1>4, <1>8, <1>10, <2>1
  <2>3. ASSUME NEW i \in 1 .. (Len(got[h]) + Len(data))
        PROVE  /\ from[h] + i <= FileSize
               /\ (got[h] \o data)[i] = Content[from[h] + i]
    <3>1. CASE i <= Len(got[h])
      <4>1. i \in 1 .. Len(got[h])
        BY <3>1
      <4> QED BY <1>8, <2>1, <4>1
    <3>2. CASE ~(i <= Len(got[h]))
      <4> DEFINE j == i - Len(got[h])
      <4>1. j \in 1 .. Len(data) /\ i = Len(got[h]) + j
        BY <1>8, <3>2
      <4> HIDE DEF j
      <4>2. (got[h] \o data)[i] = data[j]
        BY <1>8, <4>1
      <4>3. j \in 1 .. (n - o) /\ o + j <= FileSize
        BY <1>4, <1>6, <1>7, <4>1
      <4>4. data[j] = Content[o + j]
        BY <1>7, <4>3
      <4>5. from[h] + i = o + j
        BY <1>4, <1>8, <2>1, <4>1
      <4> QED BY <4>2, <4>3, <4>4, <4>5
    <3> QED BY <3>1, <3>2
  <2>4. \A i \in DOMAIN got'[h] :
          from'[h] + i <= FileSize' /\ got'[h][i] = Content'[from'[h] + i]
    BY <1>2, <1>3, <1>8, <1>10, <2>3
  <2> QED BY <2>2, <2>4 DEF Faithful
<1>16. h \notin replaced \cup cut => Faithful(h)'
  BY <1>1, <1>15 DEF Reads
<1>17. \A g \in Handles \ {h} : Kept(g) /\ step'[g] = step[g]
  BY <1>2, <1>10 DEF Kept
<1>18. Stage(h)' /\ step[h] = "none"
  <2>1. Stage(h)
    BY <1>1 DEF Stages
  <2>2. Queue(h)' /\ step[h] = "none"
    BY <1>2, <2>1 DEF Stage, Queue
  <2> QED BY <1>2, <1>10, <2>2 DEF Stage
<1>19. Carries(h)' /\ ~Appending(h)'
  BY <1>1, <1>2, <1>18 DEF Flights, Carries, Appending
<1>20. Follows(h)'
  BY <1>2, <1>18 DEF Follows
<1> QED BY <1>2, <1>13, <1>14, <1>16, <1>17, <1>18, <1>19, <1>20, QuietStep

(* A step of the copy leaves the file and its handles as they are. *)
LEMMA CopyStep ==
  ASSUME FileInv, UNCHANGED <<uses, file, handle, flying, clients, losses>>,
         phase' \in {"idle", "copying", "done", "failed"},
         next' \in Nat, initially' \in Nat,
         pending' \in Seq(Byte), copy' \in Seq(Byte),
         failures' \in 0 .. MaxFailures,
         Copies'
  PROVE  FileInv'
PROOF
<1>1. /\ Shapes /\ Stages /\ Flights /\ Buffers /\ Together /\ Since
      /\ Lines /\ Reads
  BY DEF FileInv
<1>2. UNCHANGED <<uses, chain, length, state, offset, size, buffer, rest, step,
                  flight, tail, total, gain, sent, failed, from, got, overlapped,
                  replaced, cut>>
  BY DEF file, handle, flying, clients, losses
<1>3. Content' = Content
  BY <1>2 DEF Content
<1>4. Shapes'
  BY <1>1, <1>2 DEF Shapes
<1>5. ASSUME NEW g \in Handles
      PROVE  Stage(g)' /\ Carries(g)' /\ Own(g)' /\ (Appending(g)' => Appending(g))
  <2>1. Kept(g) /\ Pushed(g)
    BY <1>2 DEF Kept, Pushed
  <2> QED BY <1>1, <2>1, OthersStay
<1>6. Stages' /\ Flights' /\ Buffers'
  BY <1>5 DEF Stages, Flights, Buffers
<1>7. Together'
  BY <1>1, <1>2, <1>5 DEF Together
<1>8. Since'
  BY <1>1, <1>2 DEF Since, Follows
<1>9. Lines'
  <2> SUFFICES ASSUME NEW g \in Handles PROVE Sound(g)'
    BY DEF Lines
  <2>1. Sound(g)
    BY <1>1 DEF Lines
  <2>2. Line(g)' = Line(g) /\ sent'[g] = sent[g]
    BY <1>2, <1>3 DEF Line
  <2> QED BY <1>2, <2>1, <2>2, SoundStays
<1>10. Reads'
  <2> SUFFICES ASSUME NEW g \in Handles, g \notin replaced \cup cut
               PROVE  Faithful(g)'
    BY <1>2 DEF Reads
  <2>1. Faithful(g)
    BY <1>1 DEF Reads
  <2> QED BY <1>2, <1>3, <2>1, ReadStays
<1> QED BY <1>4, <1>6, <1>7, <1>8, <1>9, <1>10 DEF FileInv

(* Types of the parts of the state that a copy uses. *)
LEMMA CopyFacts ==
  ASSUME FileInv
  PROVE  /\ Copies /\ chain \in Seq(Seq(Byte)) /\ Content \in Seq(Byte)
         /\ FileSize \in Nat /\ FileSize = Len(Content)
         /\ pending \in Seq(Byte) /\ copy \in Seq(Byte) /\ next \in Nat
         /\ copy \o pending \in Seq(Byte) /\ initially \in Nat
         /\ failures \in 0 .. MaxFailures /\ MaxFailures \in Nat
         /\ phase \in {"idle", "copying", "done", "failed"}
PROOF
<1>1. Shapes /\ Copies
  BY DEF FileInv
<1>2. pending \in Seq(Byte) /\ copy \in Seq(Byte)
  BY <1>1 DEF Shapes
<1>3. copy \o pending \in Seq(Byte)
  BY <1>2, Joining
<1>4. chain \in Seq(Seq(Byte)) /\ Content \in Seq(Byte) /\ FileSize \in Nat
  BY <1>1, FileFacts
<1>5. /\ next \in Nat /\ initially \in Nat /\ failures \in 0 .. MaxFailures
      /\ MaxFailures \in Nat /\ phase \in {"idle", "copying", "done", "failed"}
  BY <1>1, SizeAssumption DEF Shapes
<1>6. FileSize = Len(Content)
  BY DEF FileSize
<1> QED BY <1>1, <1>2, <1>3, <1>4, <1>5, <1>6

(* A copy begins. *)
LEMMA CopyStartKeeps ==
  ASSUME FileInv, CopyStart, UNCHANGED uses
  PROVE  FileInv'
PROOF
<1>1. /\ phase = "idle" /\ phase' = "copying"
      /\ next' = IF chain = <<>> THEN 0 ELSE 1
      /\ initially' = FileSize
      /\ UNCHANGED <<uses, file, handle, flying, pending, copy, clients, losses,
           failures>>
  BY DEF CopyStart
<1>2. /\ chain \in Seq(Seq(Byte)) /\ Content \in Seq(Byte) /\ FileSize \in Nat
      /\ FileSize = Len(Content) /\ failures \in 0 .. MaxFailures
      /\ pending \in Seq(Byte) /\ copy \in Seq(Byte)
  BY CopyFacts
<1>3. copy = <<>> /\ pending = <<>>
  BY <1>1, CopyFacts DEF Copies
<1>4. copy' \o pending' = <<>>
  <2>1. <<>> \o <<>> = <<>>
    OBVIOUS
  <2> QED BY <1>1, <1>3, <2>1
<1>5. Content' = Content
  BY <1>1 DEF Content, file
<1>6. FileSize' = FileSize
  BY <1>5 DEF FileSize
<1>7. ASSUME chain = <<>>
      PROVE  Copies'
  <2>1. Content = <<>> /\ FileSize = 0
    BY <1>2, <1>7, FlatEmpty DEF Content
  <2>2. <<>> \in Seq(Byte)
    OBVIOUS
  <2>3. IsPrefix(<<>>, <<>>)
    BY <2>2, PrefixOfItself
  <2>4. next' = 0 /\ Len(<<>>) = 0
    BY <1>1, <1>7
  <2> QED BY <1>1, <1>4, <1>5, <1>6, <2>1, <2>3, <2>4 DEF Copies, file, losses
<1>8. ASSUME chain # <<>>
      PROVE  Copies'
  <2>1. next' = 1 /\ next' - 1 = 0
    BY <1>1, <1>8
  <2>2. 1 <= Len(chain)
    BY <1>2, <1>8, EmptySeq
  <2>3. FlattenSeq(SubSeq(chain, 1, 0)) = <<>>
    <3>1. SubSeq(chain, 1, 0) = <<>>
      BY SubSeqEmpty
    <3> QED BY <3>1, FlatEmpty
  <2>4. FlattenSeq(SubSeq(chain', 1, next' - 1)) = <<>>
    BY <1>1, <2>1, <2>3 DEF file
  <2> QED BY <1>1, <1>2, <1>4, <1>6, <2>1, <2>2, <2>4 DEF Copies, file, losses
<1>9. next' \in Nat
  BY <1>1
<1>10. Copies'
  BY <1>7, <1>8
<1> QED BY <1>1, <1>2, <1>9, <1>10, CopyStep

(* A copy takes one extent, and what follows it at that time. *)
LEMMA CopyExtentKeeps ==
  ASSUME FileInv, CopyExtent, UNCHANGED uses
  PROVE  FileInv'
PROOF
<1> DEFINE all == copy \o pending
<1>1. /\ phase = "copying" /\ Copy \notin replaced \cup cut /\ next # 0
      /\ pending' = pending \o chain[next]
      /\ next' = IF next < Len(chain) THEN next + 1 ELSE 0
      /\ UNCHANGED <<uses, file, handle, flying, phase, copy, initially, clients, losses,
                     failures>>
  BY DEF CopyExtent, Undisturbed
<1>2. /\ chain \in Seq(Seq(Byte)) /\ Content \in Seq(Byte) /\ FileSize \in Nat
      /\ FileSize = Len(Content) /\ failures \in 0 .. MaxFailures
      /\ pending \in Seq(Byte) /\ copy \in Seq(Byte) /\ next \in Nat
      /\ initially \in Nat
  BY CopyFacts
<1>3. /\ initially <= FileSize /\ next <= Len(chain)
      /\ all = FlattenSeq(SubSeq(chain, 1, next - 1))
  BY <1>1, CopyFacts DEF Copies
<1>4. next \in 1 .. Len(chain) /\ Len(chain) \in Nat
  BY <1>1, <1>2, <1>3
<1>5. /\ FlattenSeq(SubSeq(chain, 1, next)) = all \o chain[next]
      /\ chain[next] \in Seq(Byte)
  BY <1>2, <1>3, <1>4, FlatUpTo
<1>6. copy' \o pending' = all \o chain[next]
  <2>1. copy \in Seq(Byte) /\ pending \in Seq(Byte)
          /\ chain[next] \in Seq(Byte)
    BY <1>2, <1>5
  <2>2. copy \o (pending \o chain[next]) = (copy \o pending) \o chain[next]
    <3> DEFINE x == chain[next]
    <3>1. copy \in Seq(Byte) /\ pending \in Seq(Byte) /\ x \in Seq(Byte)
      BY <2>1
    <3> HIDE DEF x
    <3>2. copy \o (pending \o x) = (copy \o pending) \o x
      BY <3>1, JoinsAgree
    <3> QED BY <3>2 DEF x
  <2> QED BY <1>1, <2>2
<1> HIDE DEF all
<1>7. pending' \in Seq(Byte)
  BY <1>1, <1>2, <1>5, Joining
<1>8. next' \in Nat
  BY <1>1, <1>2
<1>9. Content' = Content
  BY <1>1 DEF Content, file
<1>10. FileSize' = FileSize
  BY <1>9 DEF FileSize
<1>11. copy' \o pending' = FlattenSeq(SubSeq(chain, 1, next))
  BY <1>5, <1>6
<1>12. CASE next < Len(chain)
  <2>1. next' # 0 /\ next' <= Len(chain) /\ next' - 1 = next
    BY <1>1, <1>4, <1>12
  <2>2. copy' \o pending' = FlattenSeq(SubSeq(chain', 1, next' - 1))
    BY <1>1, <1>11, <2>1 DEF file
  <2>3. Copies'
    BY <1>1, <1>3, <1>10, <2>1, <2>2 DEF Copies, file, losses
  <2> QED BY <1>1, <1>2, <1>7, <1>8, <2>3, CopyStep
<1>13. CASE ~(next < Len(chain))
  <2>1. next' = 0 /\ next = Len(chain)
    BY <1>1, <1>4, <1>13
  <2>2. SubSeq(chain, 1, Len(chain)) = chain
    BY <1>2, SubSeqFull
  <2>3. copy' \o pending' = Content
    BY <1>11, <2>1, <2>2 DEF Content
  <2>4. IsPrefix(Content, Content)
    BY <1>2, PrefixOfItself
  <2>5. initially <= Len(Content)
    BY <1>2, <1>3
  <2>6. Copies'
    BY <1>1, <1>3, <1>9, <1>10, <2>1, <2>3, <2>4, <2>5 DEF Copies, file, losses
  <2> QED BY <1>1, <1>2, <1>7, <1>8, <2>6, CopyStep
<1> QED BY <1>12, <1>13

(* A chunk goes to the destination. *)
LEMMA CopyChunkKeeps ==
  ASSUME FileInv, CopyChunk, UNCHANGED uses
  PROVE  FileInv'
PROOF
<1> DEFINE chunk == SubSeq(pending, 1, Least(ChunkSize, Len(pending)))
           left == SubSeq(pending, ChunkSize + 1, Len(pending))
<1>1. /\ phase = "copying" /\ Copy \notin replaced \cup cut
      /\ copy' = copy \o chunk /\ pending' = left
      /\ UNCHANGED <<uses, file, handle, flying, phase, next, initially, clients, losses,
                     failures>>
  BY DEF CopyChunk, Undisturbed, AfterChunk
<1>2. /\ failures \in 0 .. MaxFailures /\ Copies
      /\ pending \in Seq(Byte) /\ copy \in Seq(Byte) /\ next \in Nat
      /\ initially \in Nat /\ ChunkSize \in Nat
  BY CopyFacts, SizeAssumption
<1>3. chunk \in Seq(Byte) /\ left \in Seq(Byte) /\ chunk \o left = pending
  BY <1>2, Halves
<1> HIDE DEF chunk, left
<1>4. copy' \in Seq(Byte) /\ pending' \in Seq(Byte)
  BY <1>1, <1>2, <1>3, Joining
<1>5. copy' \o pending' = copy \o pending
  <2>1. copy \o (chunk \o left) = (copy \o chunk) \o left
    <3>1. copy \in Seq(Byte) /\ chunk \in Seq(Byte) /\ left \in Seq(Byte)
      BY <1>2, <1>3
    <3> QED BY <3>1, JoinsAgree
  <2> QED BY <1>1, <1>3, <2>1
<1>6. Content' = Content
  BY <1>1 DEF Content, file
<1>7. FileSize' = FileSize
  BY <1>6 DEF FileSize
<1>8. Copies'
  BY <1>1, <1>2, <1>5, <1>6, <1>7 DEF Copies, file, losses
<1> QED BY <1>1, <1>2, <1>4, <1>8, CopyStep

(* A copy ends. *)
LEMMA CopyDoneKeeps ==
  ASSUME FileInv, CopyDone, UNCHANGED uses
  PROVE  FileInv'
PROOF
<1>1. /\ phase = "copying" /\ Copy \notin replaced \cup cut
      /\ next = 0 /\ pending = <<>> /\ phase' = "done"
      /\ UNCHANGED <<uses, file, handle, flying, next, pending, copy, initially, clients, losses,
                     failures>>
  BY DEF CopyDone, Undisturbed
<1>2. /\ failures \in 0 .. MaxFailures /\ Copies
      /\ pending \in Seq(Byte) /\ copy \in Seq(Byte) /\ next \in Nat
      /\ initially \in Nat
  BY CopyFacts
<1>3. Content' = Content
  BY <1>1 DEF Content, file
<1>4. FileSize' = FileSize
  BY <1>3 DEF FileSize
<1>5. Copies'
  BY <1>1, <1>2, <1>3, <1>4 DEF Copies, file, losses
<1> QED BY <1>1, <1>2, <1>5, CopyStep

(* A copy fails. *)
LEMMA CopyFailsKeeps ==
  ASSUME FileInv, CopyFails, UNCHANGED uses
  PROVE  FileInv'
PROOF
<1>1. /\ \/ UNCHANGED failures
         \/ failures < MaxFailures /\ failures' = failures + 1
      /\ phase' = "failed"
      /\ next' = 0 /\ pending' = <<>> /\ copy' = <<>> /\ initially' = 0
      /\ UNCHANGED <<uses, file, handle, flying, clients, losses>>
  BY DEF CopyFails
<1>2. failures \in 0 .. MaxFailures /\ MaxFailures \in Nat
  BY CopyFacts
<1>3. failures' \in 0 .. MaxFailures
  BY <1>1, <1>2
<1>4. <<>> \in Seq(Byte) /\ 0 \in Nat
  OBVIOUS
<1>5. Copies'
  BY <1>1 DEF Copies, file, losses
<1> QED BY <1>1, <1>3, <1>4, <1>5, CopyStep

-----------------------------------------------------------------------------
(* The invariant holds in every state, and what follows from it. *)

(* It holds at the start. *)
LEMMA StartKeeps ==
  ASSUME Init
  PROVE  FileInv
PROOF
<1>1. chain \in Seq(Extent) /\ chain \in Seq(Seq(Before))
  <2>1. chain \in Seq(Seq(Before) \ {<<>>})
    BY ChainAssumption DEF Init
  <2>2. Before \subseteq Byte
    BY DEF Byte
  <2>3. \A x \in Seq(Before) : x \in Seq(Byte)
    BY <2>2, SeqMonotonic
  <2>4. Seq(Before) \ {<<>>} \subseteq Extent
          /\ Seq(Before) \ {<<>>} \subseteq Seq(Before)
    BY <2>3 DEF Extent
  <2> QED BY <2>1, <2>4, SeqMonotonic
<1>2. Content \in Seq(Before) /\ FileSize \in Nat
  <2>1. Content \in Seq(Before)
    BY <1>1, FlatType DEF Content
  <2> QED BY <2>1, LenProperties DEF FileSize
<1>3. Shapes
  <2>1. 0 \in Nat /\ 0 \in 0 .. MaxSent /\ 0 \in 0 .. MaxFailures
    BY SizeAssumption
  <2>2. <<>> \in Seq(Byte)
    OBVIOUS
  <2>3. /\ "new" \in States /\ "none" \in Steps
        /\ chain \in Seq(Extent) /\ length \in Nat
    BY <1>1, <1>2 DEF Init, States, Steps
  <2> QED BY <2>1, <2>2, <2>3 DEF Init, Shapes
<1>4. \A h \in Handles :
        /\ state[h] = "new" /\ step[h] = "none" /\ sent[h] = 0
        /\ buffer[h] = <<>> /\ rest[h] = <<>> /\ flight[h] = <<>> /\ tail[h] = 0
        /\ got[h] = <<>> /\ offset[h] = 0 /\ from[h] = 0
  BY DEF Init
<1>5. Stages
  BY <1>4 DEF Stages, Stage, Unused, Queue
<1>6. Flights /\ Together /\ Since
  BY <1>4 DEF Flights, Carries, Together, Since, Follows, Appending
<1>7. Buffers
  <2>1. Len(<<>>) < ChunkSize /\ DOMAIN <<>> = {}
    BY SizeAssumption
  <2> QED BY <1>4, <2>1 DEF Buffers, Own
<1>8. Reads
  <2>1. Len(<<>>) = 0 /\ DOMAIN <<>> = {} /\ 0 = 0 + 0
    OBVIOUS
  <2>2. \A h \in Handles : Faithful(h)
    BY <1>4, <2>1 DEF Faithful
  <2> QED BY <2>2 DEF Reads
<1>9. Copies
  BY DEF Init, Copies
<1>10. Lines
  <2> SUFFICES ASSUME NEW h \in Handles PROVE Sound(h)
    BY DEF Lines
  <2>1. Line(h) = Content
    <3>1. Line(h) = (Content \o <<>>) \o <<>>
      BY <1>4 DEF Line
    <3> QED BY <1>2, <3>1, ConcatEmptySeq
  <2>2. \A i \in DOMAIN Content : Content[i] \in Before
    BY <1>2, LenProperties, ElementOfSeq
  <2>3. \A i \in DOMAIN Content : Content[i][1] # h
    BY <2>2, ChainAssumption
  <2>4. Numbers(Content, h) = {} /\ InOrder(Content, h)
    BY <2>3, NumbersOfNone
  <2>5. 1 .. 0 = {}
    OBVIOUS
  <2> QED BY <1>4, <2>1, <2>4, <2>5 DEF Sound
<1> QED BY <1>3, <1>5, <1>6, <1>7, <1>8, <1>9, <1>10 DEF FileInv

(* Every step keeps it. *)
LEMMA StepKeeps ==
  ASSUME FileInv, [Next]_vars
  PROVE  FileInv'
PROOF
<1>1. ASSUME NEW h \in Handles, UNCHANGED uses,
             TruncateRead(h) \/ Truncate(h) \/ Open(h) \/ Close(h)
      PROVE  FileInv'
  BY <1>1, TruncateReadKeeps, TruncateKeeps, OpenKeeps, CloseKeeps
<1>2. ASSUME NEW h \in Handles, UNCHANGED uses, Advance(h) PROVE FileInv'
  BY <1>2, FindTailKeeps, LinkExtentsKeeps, LinkNowhereKeeps,
     RegisterAppendKeeps, AppendNewKeeps, AppendFailsKeeps DEF Advance
<1>3. ASSUME NEW h \in Handles, UNCHANGED uses, Write(h) PROVE FileInv'
  <2>1. ASSUME NEW n \in WriteSizes, WriteBytes(h, n) PROVE FileInv'
    BY <1>3, <2>1, WriteBytesKeeps
  <2>2. ASSUME NEW m \in WriteSizes, NEW n \in WriteSizes,
               sent[h] + m + n <= MaxSent, WriteBuf(h, <<m, n>>)
        PROVE  FileInv'
    BY <1>3, <2>2, WriteBufKeeps
  <2>3. WritePiece(h) => FileInv'
    BY <1>3, WritePieceKeeps
  <2>4. Flush(h) => FileInv'
    BY <1>3, FlushKeeps
  <2> QED BY <1>3, <2>1, <2>2, <2>3, <2>4 DEF Write
<1>4. ASSUME NEW h \in Readers, UNCHANGED uses, Read(h) PROVE FileInv'
  <2>1. h \in Handles
    BY SizeAssumption
  <2>2. ReadBytes(h) => FileInv'
    BY <1>4, <2>1, ReadBytesKeeps
  <2>3. ASSUME NEW n \in ReadSizes, Fseek(h, n) PROVE FileInv'
    BY <1>4, <2>1, <2>3, FseekKeeps
  <2>4. ASSUME NEW n, Seek(h, n) PROVE FileInv'
    BY <1>4, <2>1, <2>4, SeekKeeps
  <2> QED BY <1>4, <2>2, <2>3, <2>4 DEF Read, SeekStart, SeekCurrent, SeekEnd
<1>5. ASSUME UNCHANGED uses, CopyOn PROVE FileInv'
  BY <1>5, CopyStartKeeps, CopyExtentKeeps, CopyChunkKeeps, CopyDoneKeeps,
     CopyFailsKeeps DEF CopyOn
<1>6. CASE UNCHANGED vars
  <2>1. UNCHANGED <<uses, file, handle, flying, copying, clients, losses, failures>>
    BY <1>6 DEF vars
  <2>2. UNCHANGED <<phase, next, pending, copy, initially>>
    BY <2>1 DEF copying
  <2>3. Copies'
    <3>1. UNCHANGED <<chain, copying, replaced, cut>>
      BY <2>1 DEF file, losses
    <3>2. Copies
      BY CopyFacts
    <3> QED BY <3>1, <3>2, CopyStays
  <2> QED BY <2>1, <2>2, <2>3, CopyFacts, CopyStep
<1>7. CASE Next
  BY <1>1, <1>2, <1>3, <1>4, <1>5, <1>7 DEF Next
<1> QED BY <1>6, <1>7

(* In every state the parts of FileInv hold together. *)
THEOREM FileInvariant == Spec => []FileInv
PROOF
<1>1. Init => FileInv
  BY StartKeeps
<1>2. FileInv /\ [Next]_vars => FileInv'
  BY StepKeeps
<1> QED BY <1>1, <1>2, PTL DEF Spec

(* Every variable stays in its type, and between calls less than a chunk   *)
(* is in a buffer (write_bytes, write_buf).                                *)
THEOREM FileIsTyped == Spec => []TypeOK
PROOF
<1>1. ASSUME FileInv PROVE TypeOK
  <2>1. Shapes /\ Stages /\ Buffers
    BY <1>1 DEF FileInv
  <2>2. \A i \in DOMAIN chain : chain[i] # <<>>
    <3>1. chain \in Seq(Extent)
      BY <2>1 DEF Shapes
    <3>2. \A i \in DOMAIN chain : chain[i] \in Extent
      BY <3>1, LenProperties, ElementOfSeq
    <3> QED BY <3>2 DEF Extent
  <2>3. ASSUME NEW h \in Handles
        PROVE  /\ state[h] \in {"new", "truncating", "opening", "open",
                               "flushing", "reading", "closed"}
               /\ step[h] \in {"none", "freeing", "resolved", "found", "cutoff",
                              "linked", "astray"}
               /\ {offset[h], size[h], tail[h], total[h], gain[h]} \subseteq Nat
               /\ Len(buffer[h]) < ChunkSize
               /\ state[h] = "reading" => buffer[h] = <<>>
               /\ sent[h] \in 0 .. MaxSent
    <3>1. state[h] \in States /\ step[h] \in Steps
      BY <2>1 DEF Shapes
    <3>2. /\ {offset[h], size[h], tail[h], total[h], gain[h]} \subseteq Nat
          /\ sent[h] \in 0 .. MaxSent
      BY <2>1 DEF Shapes
    <3>3. Len(buffer[h]) < ChunkSize /\ (state[h] = "reading" => buffer[h] = <<>>)
      BY <2>1 DEF Stages, Stage, Buffers, Own
    <3> QED BY <3>1, <3>2, <3>3 DEF States, Steps
  <2>4. ASSUME NEW h \in Handles PROVE Len(rest[h]) <= 2
    <3>1. Queue(h)
      BY <2>1 DEF Stages, Stage
    <3>2. Len(<<>>) = 0 /\ (\A m : Len(<<m>>) = 1)
            /\ \A m, n : Len(<<m, n>>) = 2
      OBVIOUS
    <3>3. CASE rest[h] = <<>>
      BY <3>2, <3>3
    <3>4. CASE \E n : rest[h] = <<n>>
      <4>1. PICK n : rest[h] = <<n>>
        BY <3>4
      <4>2. Len(rest[h]) = 1
        BY <3>2, <4>1
      <4> QED BY <4>2
    <3>5. CASE \E m, n : rest[h] = <<m, n>>
      <4>1. PICK m, n : rest[h] = <<m, n>>
        BY <3>5
      <4>2. Len(rest[h]) = 2
        BY <3>2, <4>1
      <4> QED BY <4>2
    <3> QED BY <3>1, <3>3, <3>4, <3>5 DEF Queue
  <2>5. /\ phase \in {"idle", "copying", "done", "failed"} /\ next \in Nat
        /\ failed \cup overlapped \subseteq Handles
        /\ replaced \cup cut \subseteq Handles \cup {Copy}
        /\ length \in Nat /\ uses \in Uses
        /\ failures \in 0 .. MaxFailures
    BY <2>1 DEF Shapes
  <2> QED BY <2>2, <2>3, <2>4, <2>5 DEF TypeOK
<1> QED BY <1>1, FileInvariant, PTL

(* What a client wrote through its handle is in the file, then on its way  *)
(* there, then in the buffer, in its order, whatever other clients write   *)
(* between; and all of it, if no call of the client failed, nobody         *)
(* truncated the file, and no append of the handle ran while another's did *)
(* (write_bytes, write_buf, flush, fappend_inode).                         *)
THEOREM NoWrittenByteMoves == Spec => []WrittenInOrder
PROOF
<1>1. FileInv => WrittenInOrder
  BY DEF FileInv, Lines, Sound, WrittenInOrder
<1> QED BY <1>1, FileInvariant, PTL

(* What a client reads, call after call, is the content from where it      *)
(* began (read_bytes, seek), while other clients append, unless appends    *)
(* that overlapped cut off bytes it had read.                              *)
THEOREM ReadsFollowOn == Spec => []ReadsGoOn
PROOF
<1>1. ASSUME FileInv PROVE ReadsGoOn
  <2> SUFFICES ASSUME NEW h \in Handles, h \notin replaced \cup cut
               PROVE  /\ offset[h] = from[h] + Len(got[h])
                      /\ got[h] = SubSeq(Content, from[h] + 1, offset[h])
    BY DEF ReadsGoOn
  <2>1. /\ Faithful(h) /\ Shapes
    BY <1>1 DEF FileInv, Reads
  <2> DEFINE k == from[h]
             g == got[h]
             n == offset[h]
             u == SubSeq(Content, k + 1, n)
  <2>2. /\ n = k + Len(g)
        /\ \A i \in DOMAIN g : k + i <= FileSize /\ g[i] = Content[k + i]
    BY <2>1 DEF Faithful
  <2>3. /\ k \in Nat /\ n \in Nat /\ g \in Seq(Byte) /\ Content \in Seq(Byte)
        /\ FileSize \in Nat /\ FileSize = Len(Content)
    BY <2>1, FileFacts DEF FileSize
  <2> HIDE DEF k, g, n
  <2>4. Len(g) \in Nat /\ DOMAIN g = 1 .. Len(g)
    BY <2>3, LenProperties
  <2>5. CASE Len(g) = 0
    <3>1. g = <<>> /\ n < k + 1
      BY <2>2, <2>3, <2>5, EmptySeq
    <3>2. u = <<>>
      BY <2>3, <3>1, SubSeqEmpty
    <3> QED BY <2>2, <3>1, <3>2 DEF k, g, n
  <2>6. CASE Len(g) # 0
    <3>1. Len(g) \in DOMAIN g
      BY <2>4, <2>6
    <3>2. n <= Len(Content) /\ n \in Int /\ k < n /\ n - k = Len(g)
      BY <2>2, <2>3, <2>4, <2>6, <3>1
    <3>3. /\ u \in Seq(Byte) /\ Len(u) = IF k < n THEN n - k ELSE 0
          /\ \A i \in 1 .. (n - k) : u[i] = Content[k + i]
      BY <2>3, <3>2, Part
    <3> HIDE DEF u
    <3>4. Len(u) = Len(g) /\ \A i \in 1 .. Len(g) : u[i] = g[i]
      BY <2>2, <2>4, <3>2, <3>3
    <3>5. u = g
      BY <2>3, <3>3, <3>4, SeqEqual
    <3> QED BY <2>2, <3>5 DEF k, g, n, u
  <2> QED BY <2>5, <2>6
<1> QED BY <1>1, FileInvariant, PTL

(* What a copy has taken is the beginning of the file, and a copy that     *)
(* ends has all that was there when it began (fcopy_stream), unless        *)
(* appends that overlapped cut bytes off.                                  *)
THEOREM CopiesAreSnapshots == Spec => []CopyIsSnapshot
PROOF
<1>1. ASSUME FileInv PROVE CopyIsSnapshot
  <2> SUFFICES ASSUME Copy \notin replaced \cup cut
               PROVE  /\ IsPrefix(copy \o pending, Content)
                      /\ phase = "done" => Len(copy) >= initially
    BY DEF CopyIsSnapshot
  <2> DEFINE all == copy \o pending
  <2>1. /\ Copies /\ chain \in Seq(Seq(Byte)) /\ Content \in Seq(Byte)
        /\ FileSize \in Nat /\ FileSize = Len(Content)
        /\ pending \in Seq(Byte) /\ copy \in Seq(Byte) /\ next \in Nat
        /\ all \in Seq(Byte) /\ initially \in Nat
        /\ phase \in {"idle", "copying", "done", "failed"}
    BY <1>1, CopyFacts
  <2>2. phase = "done" => Len(copy) >= initially
    <3> SUFFICES ASSUME phase = "done" PROVE Len(copy) >= initially
      OBVIOUS
    <3>1. next = 0 /\ pending = <<>>
      BY <2>1 DEF Copies
    <3>2. initially <= Len(all)
      BY <2>1, <3>1 DEF Copies
    <3>3. all = copy
      BY <2>1, <3>1, ConcatEmptySeq
    <3>4. Len(copy) \in Nat
      BY <2>1, LenProperties
    <3> QED BY <2>1, <3>2, <3>3, <3>4
  <2>3. CASE phase \in {"idle", "failed"}
    <3>1. all = <<>>
      BY <2>1, <2>3 DEF Copies
    <3>2. IsPrefix(<<>>, Content)
      BY <2>1, NoneIsBeginning
    <3> QED BY <2>2, <3>1, <3>2
  <2>4. CASE phase \in {"copying", "done"} /\ next = 0
    BY <2>1, <2>2, <2>4 DEF Copies
  <2>5. CASE phase \in {"copying", "done"} /\ next # 0
    <3>1. next <= Len(chain) /\ all = FlattenSeq(SubSeq(chain, 1, next - 1))
      BY <2>1, <2>5 DEF Copies
    <3> HIDE DEF all
    <3>2. IsPrefix(all, Content)
      <4>1. next \in Nat \ {0}
        BY <2>1, <2>5
      <4> QED BY <2>1, <3>1, <4>1, FlatsAreBeginnings DEF Content
    <3> QED BY <2>2, <3>2 DEF all
  <2> QED BY <2>1, <2>3, <2>4, <2>5
<1> QED BY <1>1, FileInvariant, PTL
=============================================================================
