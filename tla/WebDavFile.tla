----------------------------- MODULE WebDavFile -----------------------------
(***************************************************************************)
(* Open files of the WebDAV server (xhfs-cli/src/servers/webdav.rs):       *)
(* XHFSFile keeps an offset, a write buffer and the size at open, and      *)
(* reaches one file of XHFS, a chain of extents, through fwrite, fappend   *)
(* and fseek.  Several connections have the file open at the same time     *)
(* (FakeLs locks nothing), while another copies it by streaming its chain  *)
(* (read_stream_from_extent_stream, fwrite_stream_unbounded).              *)
(*                                                                         *)
(* An action is one call of XHFS and what the handler does around it, but  *)
(* for the two that change the file.  An append reads the inode, walks to  *)
(* the tail, links what it has stored and registers the inode; a           *)
(* truncation reads the inode, then registers it empty and frees what it   *)
(* had.  Between these steps others act, and nothing locks the file: of    *)
(* two appends that overlap one may lose its bytes.  An append may fail    *)
(* for want of space, and then appends nothing.  Writes through a          *)
(* read-only server are refused before they change anything.               *)
(*                                                                         *)
(* A handle is astray when the extents in the inode it has read were taken *)
(* from the file by a truncation, or by the first append to what was       *)
(* empty.  It takes no step then but to be dropped: with the next one the  *)
(* file would be the old extents again, freed ones among them, or they be  *)
(* freed twice, and what it holds from there on is not modelled.           *)
(***************************************************************************)
EXTENDS Integers, Sequences, SequencesExt

CONSTANTS
  Handles,     \* XHFSFile values: each is opened once
  Readers,     \* those of them that may also read and seek
  Uses,        \* what may go on beside writes: "read", "copy", or both
  ChunkSize,   \* chunk_size of the adapter
  WriteSizes,  \* lengths of the pieces a client sends
  ReadSizes,   \* counts it asks for
  Seeks,       \* distances it seeks by
  Before,      \* bytes that are in the file before anyone writes
  Chains,      \* the file at the start
  MaxSent,     \* bound on the bytes written through a handle
  MaxOffset,   \* bound on the offset sought to
  MaxFailures  \* bound on the appends that fail

ASSUME SizeAssumption ==
  /\ Readers \subseteq Handles
  /\ Uses \subseteq SUBSET {"read", "copy"}
  /\ ChunkSize \in Nat \ {0}
  /\ WriteSizes \subseteq Nat \ {0} /\ ReadSizes \subseteq Nat /\ Seeks \subseteq Int
  /\ MaxSent \in Nat /\ MaxOffset \in Nat /\ MaxFailures \in Nat
ASSUME ChainAssumption ==     \* no extent is empty
  /\ Chains \subseteq Seq(Seq(Before) \ {<<>>})
  /\ \A b \in Before : b[1] \notin Handles

VARIABLES
  uses,      \* which of these it is, from the start on
  chain,     \* the data of the file's extents, in their order
  length,    \* total_file_size of its inode
  (* of each handle *)
  state,     \* "new", "truncating" and "opening" in the calls of open, "open",
             \* "flushing" and "reading" in those of read_bytes, "closed"
  offset,
  size,      \* estat.size, of the time of the open
  buffer,    \* write_buffer
  rest,      \* pieces that write_buf has still to take
  (* of its append, or truncation, under way *)
  step,      \* where it is, or "none"
  flight,    \* the bytes taken from the buffer and not in the file yet
  tail,      \* how many extents there were up to the tail found, or 0
  total,     \* total_file_size in its copy of the inode
  gain,      \* by how much write_bytes is to move the offset
  (* of the copy *)
  phase,     \* "idle", "copying", "done" or "failed"
  next,      \* the extent to read next, or 0
  pending,   \* buffer of the stream
  copy,      \* content of the destination
  (* history *)
  sent,      \* bytes a client handed to each handle
  failed,    \* handles that returned an error, or were dropped unflushed
  overlapped, \* handles whose append ran while another's did
  replaced,  \* users of the file whose extents another open freed
  cut,       \* those that had read bytes which an append then cut off
  from,      \* where the reads of each handle began
  got,       \* what they returned
  initially, \* length of the file when the copy began
  failures

file == <<chain, length>>
handle == <<state, offset, size, buffer, rest>>
flying == <<step, flight, tail, total, gain>>
copying == <<phase, next, pending, copy, initially>>
clients == <<sent, failed, from, got>>
losses == <<overlapped, replaced, cut>>
vars == <<uses, file, handle, flying, copying, clients, losses, failures>>

Copy == "copy"
Content == FlattenSeq(chain)
FileSize == Len(Content)
Least(a, b) == IF a < b THEN a ELSE b
Most(a, b) == IF a < b THEN b ELSE a

Init ==
  /\ uses \in Uses
  /\ chain \in Chains
  /\ length = FileSize
  /\ state = [h \in Handles |-> "new"]
  /\ offset = [h \in Handles |-> 0]
  /\ size = [h \in Handles |-> 0]
  /\ buffer = [h \in Handles |-> <<>>]
  /\ rest = [h \in Handles |-> <<>>]
  /\ step = [h \in Handles |-> "none"]
  /\ flight = [h \in Handles |-> <<>>]
  /\ tail = [h \in Handles |-> 0]
  /\ total = [h \in Handles |-> 0]
  /\ gain = [h \in Handles |-> 0]
  /\ phase = "idle"
  /\ next = 0
  /\ pending = <<>>
  /\ copy = <<>>
  /\ sent = [h \in Handles |-> 0]
  /\ failed = {} /\ overlapped = {} /\ replaced = {} /\ cut = {}
  /\ from = [h \in Handles |-> 0]
  /\ got = [h \in Handles |-> <<>>]
  /\ initially = 0
  /\ failures = 0

(* The handle answers its client and may take the next call. *)
Idle(h) == state[h] = "open" /\ step[h] = "none" /\ rest[h] = <<>>

(* A new position, at which the reads of h go on. *)
MoveTo(h, n) ==
  /\ offset' = [offset EXCEPT ![h] = n]
  /\ from' = [from EXCEPT ![h] = n]
  /\ got' = [got EXCEPT ![h] = <<>>]

-----------------------------------------------------------------------------
(* The extents that h has found to be the file's: all it goes on with is   *)
(* its copy of their address.                                              *)
Holding(h) ==
  \/ step[h] \in {"freeing", "resolved", "cutoff", "linked"}
  \/ step[h] = "found" /\ tail[h] # 0

(* The file begins elsewhere now.  h itself is done. *)
Elsewhere(h) ==
  step' = [g \in Handles |-> IF g = h THEN "none"
                             ELSE IF Holding(g) THEN "astray" ELSE step[g]]

(* Nothing is left of the extents after the first n. *)
Keeps(n) ==
  LET kept == Len(FlattenSeq(SubSeq(chain, 1, n)))
  IN  cut' = IF n = Len(chain) THEN cut
             ELSE cut \cup {g \in Handles : got[g] # <<>> /\ offset[g] > kept}
                      \cup (IF phase = "idle" THEN {} ELSE {Copy})

(* open, of an existing file.  To write with truncate, the file is given   *)
(* no extents and the ones that it had are freed; then it is looked at,    *)
(* when another may have written again.                                    *)
TruncateRead(h) ==
  /\ state[h] = "new"
  /\ state' = [state EXCEPT ![h] = "truncating"]
  /\ step' = [step EXCEPT ![h] = IF chain = <<>> THEN "none" ELSE "freeing"]
  /\ UNCHANGED <<file, offset, size, buffer, rest, flight, tail, total, gain,
                 copying, clients, losses, failures>>

Truncate(h) ==
  /\ state[h] = "truncating" /\ step[h] # "astray"
  /\ state' = [state EXCEPT ![h] = "opening"]
  /\ chain' = <<>>
  /\ length' = 0
  /\ Elsewhere(h)
  /\ replaced' =
       IF chain = <<>> THEN replaced
       ELSE replaced
              \cup {g \in Handles : state[g] \notin {"new", "truncating", "opening"}}
              \cup (IF phase = "idle" THEN {} ELSE {Copy})
  /\ UNCHANGED <<offset, size, buffer, rest, flight, tail, total, gain, copying,
                 clients, overlapped, cut, failures>>

Open(h) ==
  /\ state[h] \in {"new", "opening"}
  /\ state' = [state EXCEPT ![h] = "open"]
  /\ size' = [size EXCEPT ![h] = length]
  /\ UNCHANGED <<file, offset, buffer, rest, flying, copying, clients, losses,
                 failures>>

(* The append of h is over, one way or the other. *)
Landed(h) ==
  /\ flight' = [flight EXCEPT ![h] = <<>>]
  /\ tail' = [tail EXCEPT ![h] = 0]
  /\ total' = [total EXCEPT ![h] = 0]
  /\ gain' = [gain EXCEPT ![h] = 0]

(* Dropped: what is in the buffer is not flushed, and what is under way    *)
(* goes no further.                                                        *)
Close(h) ==
  /\ Idle(h) \/ (step[h] # "none" /\ state[h] # "truncating")
  /\ state' = [state EXCEPT ![h] = "closed"]
  /\ step' = [step EXCEPT ![h] = "none"]
  /\ buffer' = [buffer EXCEPT ![h] = <<>>]
  /\ rest' = [rest EXCEPT ![h] = <<>>]
  /\ failed' = IF Idle(h) /\ buffer[h] = <<>> THEN failed ELSE failed \cup {h}
  /\ size' = [size EXCEPT ![h] = 0]
  /\ Landed(h)
  /\ MoveTo(h, 0)
  /\ UNCHANGED <<file, copying, sent, losses, failures>>

(* fappend of data begins: the inode is read.  The buffer is taken out of  *)
(* the handle before.                                                      *)
Cloned(data) == data                             \* defect: it is not taken
Taken(data) == <<>>

Appending(h) == step[h] # "none" /\ state[h] # "truncating"

Fappend(h, data, n) ==
  /\ buffer' = [buffer EXCEPT ![h] = Taken(data)]
  /\ flight' = [flight EXCEPT ![h] = data]
  /\ total' = [total EXCEPT ![h] = length + Len(data)]
  /\ gain' = [gain EXCEPT ![h] = n]
  /\ step' = [step EXCEPT ![h] = IF chain = <<>> THEN "found" ELSE "resolved"]
  /\ LET others == {g \in Handles \ {h} : Appending(g)}
     IN  overlapped' = IF others = {} THEN overlapped
                       ELSE overlapped \cup others \cup {h}

(* append_or_allocate_extent: the walk ends at an extent without a next.   *)
FindTail(h) ==
  /\ step[h] = "resolved"
  /\ step' = [step EXCEPT ![h] = "found"]
  /\ tail' = [tail EXCEPT ![h] = Len(chain)]
  /\ UNCHANGED <<file, handle, flight, total, gain, copying, clients, losses,
                 failures>>

(* The data is stored in one extent, or in two where no run of blocks is   *)
(* long enough.                                                            *)
Pieces(data) ==
  {<<data>>} \cup {<<SubSeq(data, 1, k), SubSeq(data, k + 1, Len(data))>> :
                     k \in 1 .. (Len(data) - 1)}

(* Stored, it becomes the next of the tail, whatever that was.  Where      *)
(* another append had linked its own since, these are no longer in the     *)
(* file, nor is what is then linked to them.                               *)
LinkExtents(h) ==
  /\ step[h] = "found" /\ tail[h] # 0
  /\ \E pieces \in Pieces(flight[h]) :
       chain' = SubSeq(chain, 1, tail[h]) \o pieces
  /\ step' = [g \in Handles |->
                IF g = h THEN "linked"
                ELSE IF step[g] = "found" /\ tail[g] > tail[h] THEN "cutoff"
                ELSE step[g]]
  /\ flight' = [flight EXCEPT ![h] = <<>>]
  /\ Keeps(tail[h])
  /\ UNCHANGED <<length, handle, tail, total, gain, copying, clients, overlapped,
                 replaced, failures>>

LinkNowhere(h) ==
  /\ step[h] = "cutoff"
  /\ step' = [step EXCEPT ![h] = "linked"]
  /\ flight' = [flight EXCEPT ![h] = <<>>]
  /\ UNCHANGED <<file, handle, tail, total, gain, copying, clients, losses,
                 failures>>

(* The call returns: read_bytes goes on, write_bytes moves the offset. *)
Answer(h) ==
  /\ state' = [state EXCEPT ![h] = IF @ = "flushing" THEN "reading" ELSE @]
  /\ IF gain[h] = 0 THEN UNCHANGED <<offset, from, got>>
     ELSE MoveTo(h, offset[h] + gain[h])
  /\ Landed(h)
  /\ UNCHANGED <<size, buffer, rest, copying, sent, failed, overlapped, replaced,
                 failures>>

(* The inode is registered, as it was read, with the new size. *)
RegisterAppend(h) ==
  /\ step[h] = "linked"
  /\ step' = [step EXCEPT ![h] = "none"]
  /\ length' = total[h]
  /\ Answer(h)
  /\ UNCHANGED <<chain, cut>>

(* Where it had no extents, it now begins with the new ones. *)
AppendNew(h) ==
  /\ step[h] = "found" /\ tail[h] = 0
  /\ chain' \in Pieces(flight[h])
  /\ length' = total[h]
  /\ Elsewhere(h)
  /\ Keeps(0)
  /\ Answer(h)

(* No space to store it.  write_buf drops the rest of its argument. *)
AppendFails(h) ==
  /\ step[h] \in {"found", "cutoff"}
  /\ failures < MaxFailures
  /\ failures' = failures + 1
  /\ failed' = failed \cup {h}
  /\ step' = [step EXCEPT ![h] = "none"]
  /\ state' = [state EXCEPT ![h] = "open"]
  /\ rest' = [rest EXCEPT ![h] = <<>>]
  /\ Landed(h)
  /\ UNCHANGED <<file, offset, size, buffer, copying, sent, from, got, losses>>

Advance(h) ==
  \/ FindTail(h) \/ LinkExtents(h) \/ LinkNowhere(h) \/ RegisterAppend(h)
  \/ AppendNew(h) \/ AppendFails(h)

(* The next n bytes of the client of h. *)
Data(h, n) == [i \in 1 .. n |-> <<h, sent[h] + i>>]

OverFull(data) == Len(data) > ChunkSize          \* defect: one piece too late
Full(data) == Len(data) >= ChunkSize

(* data is kept in the buffer, or appended when that is full. *)
Keep(h, data) ==
  /\ ~Full(data)
  /\ buffer' = [buffer EXCEPT ![h] = data]
  /\ UNCHANGED <<flying, overlapped>>

Send(h, n) ==
  /\ sent[h] + n <= MaxSent
  /\ sent' = [sent EXCEPT ![h] = @ + n]
Received(h, n) == buffer[h] \o Data(h, n)

(* write_bytes moves the offset when it has succeeded. *)
WriteBytes(h, n) ==
  /\ Idle(h)
  /\ Send(h, n)
  /\ LET data == Received(h, n)
     IN  \/ Keep(h, data) /\ MoveTo(h, offset[h] + n)
         \/ Full(data) /\ Fappend(h, data, n) /\ UNCHANGED <<tail, offset, from, got>>
  /\ UNCHANGED <<file, state, size, rest, copying, failed, replaced, cut, failures>>

(* write_buf takes the chunks of its argument one by one and moves the     *)
(* offset before each append.                                              *)
WriteBuf(h, sizes) ==
  /\ Idle(h)
  /\ rest' = [rest EXCEPT ![h] = sizes]
  /\ UNCHANGED <<file, state, offset, size, buffer, flying, copying, clients,
                 losses, failures>>

WritePiece(h) ==
  /\ rest[h] # <<>> /\ step[h] = "none"
  /\ rest' = [rest EXCEPT ![h] = Tail(@)]
  /\ LET n == Head(rest[h])
         data == Received(h, n)
     IN  /\ sent' = [sent EXCEPT ![h] = @ + n]
         /\ MoveTo(h, offset[h] + n)
         /\ Keep(h, data) \/ (Full(data) /\ Fappend(h, data, 0) /\ UNCHANGED tail)
  /\ UNCHANGED <<file, state, size, copying, failed, replaced, cut, failures>>

Flush(h) ==
  /\ Idle(h)
  /\ buffer[h] # <<>>
  /\ Fappend(h, buffer[h], 0)
  /\ UNCHANGED <<file, state, offset, size, rest, tail, copying, clients, replaced,
                 cut, failures>>

-----------------------------------------------------------------------------
(* seek_full_data_from_extent: what the bytes from start on and before end *)
(* have in each extent of the chain.                                       *)
InExtent(i, start, end) ==
  LET before == Len(FlattenSeq(SubSeq(chain, 1, i - 1)))
  IN  SubSeq(chain[i], Most(start - before, 0) + 1, Least(end - before, Len(chain[i])))
SeekFullData(start, end) ==
  FlattenSeq([i \in DOMAIN chain |-> InExtent(i, start, end)])

(* read_bytes flushes the buffer of its own handle first. *)
ReadBytes(h) ==
  /\ Idle(h)
  /\ IF buffer[h] = <<>>
     THEN /\ state' = [state EXCEPT ![h] = "reading"]
          /\ UNCHANGED <<buffer, flying, overlapped>>
     ELSE /\ state' = [state EXCEPT ![h] = "flushing"]
          /\ Fappend(h, buffer[h], 0)
          /\ UNCHANGED tail
  /\ UNCHANGED <<file, offset, size, rest, copying, clients, replaced, cut, failures>>

AsAsked(data, count) == count       \* defect: what was asked, not what there was
AsRead(data, count) == Len(data)

Fseek(h, count) ==
  /\ state[h] = "reading"
  /\ state' = [state EXCEPT ![h] = "open"]
  /\ LET data == SeekFullData(offset[h], offset[h] + count)
     IN  /\ got' = [got EXCEPT ![h] = @ \o data]
         /\ offset' = [offset EXCEPT ![h] = @ + AsRead(data, count)]
  /\ UNCHANGED <<file, size, buffer, rest, flying, copying, sent, failed, from,
                 losses, failures>>

(* Where a seek would lead below zero it is an error and changes nothing.  *)
(* From the end is from the end the file had when it was opened.           *)
Seek(h, n) ==
  /\ Idle(h)
  /\ n \in 0 .. MaxOffset
  /\ n # offset[h]
  /\ MoveTo(h, n)
  /\ UNCHANGED <<file, state, size, buffer, rest, flying, copying, sent, failed,
                 losses, failures>>

SeekStart(h, n) == Seek(h, n)
SeekCurrent(h, n) == Seek(h, offset[h] + n)
SeekEnd(h, n) == Seek(h, size[h] + n)

-----------------------------------------------------------------------------
(* fcopy_stream.  Its reader finds the first extent, its writer empties    *)
(* the destination.                                                        *)
CopyStart ==
  /\ "copy" \in uses
  /\ phase = "idle"
  /\ phase' = "copying"
  /\ next' = IF chain = <<>> THEN 0 ELSE 1
  /\ initially' = FileSize
  /\ UNCHANGED <<file, handle, flying, pending, copy, clients, losses, failures>>

(* It reads on in the extents of the file.                                 *)
Undisturbed == phase = "copying" /\ Copy \notin replaced \cup cut

(* The next extent, and which one follows it at that time. *)
CopyExtent ==
  /\ Undisturbed
  /\ next # 0 /\ Len(pending) < ChunkSize
  /\ pending' = pending \o chain[next]
  /\ next' = IF next < Len(chain) THEN next + 1 ELSE 0
  /\ UNCHANGED <<file, handle, flying, phase, copy, initially, clients, losses,
                 failures>>

NothingLeft == <<>>                  \* defect: the buffer is emptied
AfterChunk == SubSeq(pending, ChunkSize + 1, Len(pending))

(* A chunk, or what is left after the last extent, goes to the destination.*)
CopyChunk ==
  /\ Undisturbed
  /\ pending # <<>>
  /\ next = 0 \/ Len(pending) >= ChunkSize
  /\ copy' = copy \o SubSeq(pending, 1, Least(ChunkSize, Len(pending)))
  /\ pending' = AfterChunk
  /\ UNCHANGED <<file, handle, flying, phase, next, initially, clients, losses,
                 failures>>

CopyDone ==
  /\ Undisturbed
  /\ next = 0 /\ pending = <<>>
  /\ phase' = "done"
  /\ UNCHANGED <<file, handle, flying, next, pending, copy, initially, clients,
                 losses, failures>>

(* An append to the destination fails; or the extents under the stream     *)
(* were freed, or cut off the file, and what it copies is not looked at    *)
(* any more.                                                               *)
CopyFails ==
  /\ phase = "copying"
  /\ \/ Copy \in replaced \cup cut /\ UNCHANGED failures
     \/ pending # <<>> /\ failures < MaxFailures /\ failures' = failures + 1
  /\ phase' = "failed"
  /\ next' = 0 /\ pending' = <<>> /\ copy' = <<>> /\ initially' = 0
  /\ UNCHANGED <<file, handle, flying, clients, losses>>

Write(h) ==
  \/ \E n \in WriteSizes : WriteBytes(h, n)
  \/ \E m, n \in WriteSizes :
       sent[h] + m + n <= MaxSent /\ WriteBuf(h, <<m, n>>)
  \/ WritePiece(h)
  \/ Flush(h)

Read(h) ==
  \/ ReadBytes(h)
  \/ \E n \in ReadSizes : Fseek(h, n)
  \/ \E n \in Seeks : SeekStart(h, n) \/ SeekCurrent(h, n) \/ SeekEnd(h, n)

CopyOn == CopyStart \/ CopyExtent \/ CopyChunk \/ CopyDone \/ CopyFails

Next ==
  /\ \/ \E h \in Handles :
          TruncateRead(h) \/ Truncate(h) \/ Open(h) \/ Write(h) \/ Advance(h) \/ Close(h)
     \/ "read" \in uses /\ \E h \in Readers : Read(h)
     \/ CopyOn
  /\ UNCHANGED uses

Spec == Init /\ [][Next]_vars

-----------------------------------------------------------------------------
(* Properties *)

(* Every variable stays in its type, and between calls less than a chunk   *)
(* is waiting in a buffer.                                                 *)
TypeOK ==
  /\ \A i \in DOMAIN chain : chain[i] # <<>>
  /\ length \in Nat
  /\ \A h \in Handles :
       /\ state[h] \in {"new", "truncating", "opening", "open", "flushing",
                        "reading", "closed"}
       /\ step[h] \in {"none", "freeing", "resolved", "found", "cutoff", "linked",
                       "astray"}
       /\ {offset[h], size[h], tail[h], total[h], gain[h]} \subseteq Nat
       /\ Len(buffer[h]) < ChunkSize
       /\ state[h] = "reading" => buffer[h] = <<>>
       /\ sent[h] \in 0 .. MaxSent
       /\ Len(rest[h]) <= 2
  /\ uses \in Uses
  /\ phase \in {"idle", "copying", "done", "failed"}
  /\ next \in Nat
  /\ failed \cup overlapped \subseteq Handles
  /\ replaced \cup cut \subseteq Handles \cup {Copy}
  /\ failures \in 0 .. MaxFailures

(* The bytes that a client wrote are in the file, and after them on their  *)
(* way there and in the buffer of its handle, each once and in the order   *)
(* it sent them, with the bytes of other clients between; and all of them, *)
(* as long as no call of the client returned an error, nobody truncated    *)
(* the file, the handle was not dropped with bytes of its own, and none of *)
(* its appends ran while another handle's did.                             *)
Sent(bytes, h) == {i \in DOMAIN bytes : bytes[i][1] = h}
InOrder(bytes, h) ==
  \A i, j \in Sent(bytes, h) : i < j => bytes[i][2] < bytes[j][2]
Numbers(bytes, h) == {bytes[i][2] : i \in Sent(bytes, h)}
Line(h) == Content \o flight[h] \o buffer[h]
WrittenInOrder ==
  \A h \in Handles :
    /\ InOrder(Line(h), h)
    /\ h \notin failed \cup replaced \cup overlapped => Numbers(Line(h), h) = 1 .. sent[h]

(* What a client reads, call after call, is the content of the file from   *)
(* where it began, without a gap or an overlap, over the extents and past  *)
(* the end that other clients move meanwhile, unless an append that        *)
(* overlapped another's cut off bytes it had read.                         *)
ReadsGoOn ==
  \A h \in Handles \ (replaced \cup cut) :
    /\ offset[h] = from[h] + Len(got[h])
    /\ got[h] = SubSeq(Content, from[h] + 1, offset[h])

(* A copy that ends is the file as it was at a time since the copy began,  *)
(* although the file grows meanwhile, unless appends that overlapped cut   *)
(* bytes off.                                                              *)
CopyIsSnapshot ==
  Copy \notin replaced \cup cut =>
    /\ IsPrefix(copy \o pending, Content)
    /\ phase = "done" => Len(copy) >= initially
=============================================================================
