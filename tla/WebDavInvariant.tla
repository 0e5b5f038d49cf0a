-------------------------- MODULE WebDavInvariant ---------------------------
(***************************************************************************)
(* The inductive invariant of WebDavFile.  What a handle has read, and     *)
(* what a copy has taken, is said byte for byte and extent for extent, so  *)
(* that appends of other handles, which make the file longer, do not       *)
(* change it.  Of two appends that overlap one may cut the other's bytes   *)
(* off: Together and Since say whose bytes these can be.                   *)
(***************************************************************************)
EXTENDS WebDavFile

Byte == Before \cup (Handles \X (1 .. MaxSent))
Extent == Seq(Byte) \ {<<>>}
States == {"new", "truncating", "opening", "open", "flushing", "reading", "closed"}
Steps == {"none", "freeing", "resolved", "found", "cutoff", "linked", "astray"}

Shapes ==
  /\ chain \in Seq(Extent) /\ length \in Nat
  /\ state \in [Handles -> States] /\ step \in [Handles -> Steps]
  /\ offset \in [Handles -> Nat] /\ size \in [Handles -> Nat]
  /\ tail \in [Handles -> Nat] /\ total \in [Handles -> Nat]
  /\ gain \in [Handles -> Nat]
  /\ from \in [Handles -> Nat] /\ sent \in [Handles -> 0 .. MaxSent]
  /\ buffer \in [Handles -> Seq(Byte)] /\ flight \in [Handles -> Seq(Byte)]
  /\ got \in [Handles -> Seq(Byte)]
  /\ DOMAIN rest = Handles
  /\ uses \in Uses
  /\ phase \in {"idle", "copying", "done", "failed"}
  /\ next \in Nat /\ initially \in Nat
  /\ pending \in Seq(Byte) /\ copy \in Seq(Byte)
  /\ failed \subseteq Handles /\ overlapped \subseteq Handles
  /\ replaced \subseteq Handles \cup {Copy} /\ cut \subseteq Handles \cup {Copy}
  /\ failures \in 0 .. MaxFailures

(* A handle that is not open has sent and read nothing; the pieces that    *)
(* write_buf has still to take are of its client's next bytes.             *)
Unused(h) == sent[h] = 0 /\ buffer[h] = <<>> /\ flight[h] = <<>> /\ got[h] = <<>>
Queue(h) ==
  \/ rest[h] = <<>>
  \/ \E n \in WriteSizes : rest[h] = <<n>> /\ sent[h] + n <= MaxSent
  \/ \E m, n \in WriteSizes : rest[h] = <<m, n>> /\ sent[h] + m + n <= MaxSent
Stage(h) ==
  /\ state[h] \in {"new", "truncating", "opening"} => Unused(h)
  /\ state[h] \in {"new", "opening", "reading", "closed"} => step[h] = "none"
  /\ state[h] = "truncating" => step[h] \in {"none", "freeing", "astray"}
  /\ step[h] = "freeing" => state[h] = "truncating"
  /\ state[h] = "reading" => buffer[h] = <<>>
  /\ rest[h] # <<>> => state[h] = "open"
  /\ Queue(h)
Stages == \A h \in Handles : Stage(h)

(* An append has all that was in the buffer, until that is linked. *)
Carries(h) ==
  /\ Appending(h) => buffer[h] = <<>>
  /\ step[h] \in {"resolved", "found", "cutoff"} => flight[h] # <<>>
  /\ step[h] \in {"none", "freeing", "linked"} => flight[h] = <<>>
  /\ step[h] \in {"none", "freeing", "resolved"} => tail[h] = 0
Flights == \A h \in Handles : Carries(h)

(* A buffer has less than a chunk; and only bytes of its own client are in *)
(* it and in what is taken from it.                                        *)
Own(h) ==
  /\ Len(buffer[h]) < ChunkSize
  /\ \A i \in DOMAIN buffer[h] : buffer[h][i][1] = h
  /\ \A i \in DOMAIN flight[h] : flight[h][i][1] = h
Buffers == \A h \in Handles : Own(h)

(* Of any two appends under way both have overlapped another. *)
Together ==
  \A g, h \in Handles : g # h /\ Appending(g) /\ Appending(h) => g \in overlapped

(* What the file has after the tail that an append has found was linked    *)
(* while that append was under way.                                        *)
Follows(h) ==
  /\ step[h] = "found" =>
       /\ tail[h] <= Len(chain)
       /\ \A k \in DOMAIN chain : k > tail[h] =>
            \A i \in DOMAIN chain[k] : chain[k][i][1] \in overlapped
  /\ step[h] = "cutoff" => h \in overlapped
Since == \A h \in Handles : Follows(h)

(* No byte is further on than the client has sent. *)
Sound(h) ==
  /\ InOrder(Line(h), h)
  /\ Numbers(Line(h), h) \subseteq 1 .. sent[h]
  /\ h \notin failed \cup replaced \cup overlapped => Numbers(Line(h), h) = 1 .. sent[h]
Lines == \A h \in Handles : Sound(h)

(* What a handle has read, byte for byte. *)
Faithful(h) ==
  /\ offset[h] = from[h] + Len(got[h])
  /\ \A i \in DOMAIN got[h] :
       from[h] + i <= FileSize /\ got[h][i] = Content[from[h] + i]
Reads == \A h \in Handles \ (replaced \cup cut) : Faithful(h)

(* What a copy has taken: the extents before the next one, or, when there  *)
(* was no next one, the whole file as it was then.                         *)
Copies ==
  /\ phase \in {"idle", "failed"} => copy = <<>> /\ pending = <<>>
  /\ phase = "done" => next = 0 /\ pending = <<>>
  /\ Copy \notin replaced \cup cut /\ phase \in {"copying", "done"} =>
       /\ initially <= FileSize
       /\ next # 0 => /\ next <= Len(chain)
                      /\ copy \o pending = FlattenSeq(SubSeq(chain, 1, next - 1))
       /\ next = 0 => /\ IsPrefix(copy \o pending, Content)
                      /\ initially <= Len(copy \o pending)

FileInv ==
  /\ Shapes /\ Stages /\ Flights /\ Buffers /\ Together /\ Since
  /\ Lines /\ Reads /\ Copies
=============================================================================
