# A verification of XHFS

XHFS is a file system in user space, written in Rust, that keeps its volume on
one or more storage devices (files, or key-value stores behind HTTP) and serves
it over WebDAV or a command line.  This directory holds TLA+ models of its core,
the TLC runs that check them on small instances, and proofs that TLAPS checks.

## The system

| Part | Source | State it keeps | Operations |
|---|---|---|---|
| Devices | `xhfs-core/src/device/` | bytes of a file, or slots of a key-value store | `read`, `write` |
| Logical devices | `device/logical.rs` | replicas of one range of bytes | `write` to all, `read` from the first that answers |
| Controller | `device/disk.rs` | logical devices pinned one after the other; the cipher | `raw_read`, `raw_write`, and `read`, `write` through the cipher |
| Geometry | `xhfs/ds.rs` | the format, in the header of group 0 | sizes inferred, regions and addresses computed |
| Bitmaps | `xhfs/ds.rs` | a bit per block, a bit per inode, for each group | `runs_of`, `set`, `set_range` |
| Block allocation, extents | `xhfs/mod.rs` | data bitmaps, chains of extents, `alloc_guard` | `allocate`, `mark_as_reusable`, `allocate_and_write_extent`, `append_or_allocate_extent`, `free_full_extent` |
| Inodes and directories | `xhfs/mod.rs` | inode bitmaps and tables, directory contents, links | `fwrite`, `fappend`, `mkdir`, `unlink`, `fmove`, `create_symlink`, `create_hardlink`, `ls`, `fread`, `fseek` |
| WebDAV | `xhfs-cli/src/servers/webdav.rs` | an open file: offset, write buffer, the stat at open | `open`, `read_bytes`, `write_bytes`, `seek`, `flush`, and one XHFS call for each other request |
| Configuration, command line | `xhfs-cli/src/interface/` | the files it makes at start-up | `materialize` makes or opens the devices, then calls XHFS |

Calls go down this table.  One `XHFS` value is shared (`Arc`) by every WebDAV
connection, each a Tokio task, so its operations interleave at every `await`,
that is at every access to a device.  The only lock is `alloc_guard`: it is held
over the whole of `allocate`, `allocate_inode_near`, `register_inode` and
`free_full_extent`, and over nothing longer.  There is no journal: what a crash
leaves is what was written.

What is hard here, and what the models are for:

- *interleaving*: bitmaps, directories and inodes are read, changed in memory
  and written back over several awaits, some of them under the guard;
- *crashes* between any two device writes of an operation, when only the order
  of the writes protects the tree, and *cancelled requests*: when a connection
  closes, the future of its request is dropped at the `await` it is in, its guard
  with it, while other requests go on;
- *sizes*: what is freed is recomputed from what was stored; group sizes are
  computed in two places; inumbers count from one and slots from zero;
- *limits*: blocks, runs of blocks, inodes and groups run out in the middle of
  an operation that gives nothing back;
- *long sequences*: links, moves and unlinks whose effects meet only later.

The correctness of the parts: a block and an inode belong to one owner; a file's
chain holds its bytes in order and nothing frees it under the file; the tree
changes at the path a call names and nowhere else; link counts agree with
links; regions of the volume do not meet and addresses can be inverted; what
operations leave behind is only what failed or cut ones are known to leave.
The whole list of places where this could go wrong is under `hazards` in
`PROJECT.json`, each at its line.

## The modules

### ExtentStore: blocks, extents, `alloc_guard`

Each task has one inode and works on its chain only; they share the block pool.
One action is one device access, or what the code does between two.

| TLA+ | Code |
|---|---|
| `used`, `header` | data bitmaps; the extent headers found at each block |
| `head`, `size` | `extent_addr` and `total_file_size` of each task's inode |
| `guard` | `alloc_guard` |
| `slots`, `plan`, `todo`, `link`, `cur`, `last` | local variables of `allocate`, `allocate_and_write_extent`, `free_full_extent`, `append_or_allocate_extent` |
| `role`, `owner`, `torn`, `overrun` | history: what each block is held for, by whom, whose deletion was cut, and whose append was cut after its link |
| `PlanContiguous`, `PlanFragments`, `PlanInsufficient`, `PlanNothing` | the search of `allocate`: a run in one group, else fragments over groups, else an error |
| `CommitBitmap` | one bitmap of the plan written back |
| `Layout`, `LayoutMismatch`, `WriteExtent` | the data split over the slots; extents written last first |
| `WalkExtent`, `WalkDone`, `LinkAppend`, `RegisterAppend` | an append to the end of a chain |
| `RegisterWrite`, `FreeStart`, `FreeExtent`, `FreeDone`, `ClearInode` | the commit of a rewrite and the release of the old chain |
| `Crash` | the process dies; tasks start again with what is on the device |
| `Cancel` | the connection of one request closes: its future, and its guard if it holds it, are dropped where it is |

An address is a block number, 0 is `MaybeU64`'s none.  Sizes are bytes, with
`HeaderSize` for the 16 bytes of an extent header, so that data that fills its
blocks exactly, and headers of fragments that waste a block, occur.
`ExtentInvariant` has the inductive invariant `Ownership`; `ExtentProofs` has the
proofs, with the invariant of whole chains, `Chaining`, in its last part.

### Namespace and FileTree: inodes, directories, links

`Namespace` has the inode bitmaps (`bits`) and tables (`inodes`), and the
contents of extents (`disk`) as tagged values: a directory, a path, an inumber,
data.  `fread`, `fread_stream` and `fseek` are one operation, "read": a walk,
and a second one if it ends at a link.  A chain is one extent here; the inside of allocation and release is
ExtentStore's, and the proofs there (a block has one owner, allocation is
exclusive) are what justifies taking it as one step.  Every operation starts with
`Start...`, walks one path component per `Walk`, and then proceeds through
`pc`: the shared tails (`StoreFor`, `Rewrite`, `Commit`, `ReleaseOld`) are the
calls to `allocate_and_write_extent`, `register_inode` and `free_full_extent`
the code repeats in each operation.  `Unstorable` are the names a directory
refuses when it is serialized, which is after data and inode were stored.
`Crash` stops all tasks, `Cancel` one.  `lost`, `orphans`, `doomed` and
`clobbered` are history variables: extents that a failed or cut operation left
allocated, inodes it left in no directory, inodes whose deletion a crash or an
error cut after their content was freed, and inodes whose bit was overwritten by
a bitmap read before it changed.  The properties excuse exactly these, and nothing
else; after a bit was overwritten no further operation starts.

Three operations read the bitmap of a group, wait for the device, and write all
of it back: `allocate_inode_near` (`ChooseInode`, `BornInode`), `register_inode`
(`ReadBitmap`, then `Commit`, `CommitDest`, `BumpLink` or `DropLink`, all through
`Register`) and `delete_inode_with_extent` (`DeleteNext`, `ClearBit`).  The first
two hold `alloc_guard` from the read to the write, and the deletion takes it at
neither, so that it can undo what they do and they what it does: an inode
deleted between the read and the write of a registration gets its bit back, with
its extent free and no entry left.  `Clobber` records every such bit, in
whichever direction it changed.  `register_inode` writes the inode and then the
bitmap; the two writes are one step, since the second changes nothing
unless a deletion cleared a bit after the read, and a state between the two looks
like one in which that bit is cleared before the read.

`FileTree` is the abstract specification: a set of paths with what is found
there, and the call in progress.  A call changes the path it names in one step,
or nothing; a move between directories shows the file at both paths first, as
the code does.  `ImplementsFileTree` is the refinement: `tree` is what walks from the
root show, `request` the operation of the one task.

`NamespaceInvariant` has the inductive invariant, `Typed` and `Consistency`;
`NamespaceSteps` says what each action changes and what it leaves alone, and has
the proofs about types and about the steps that change nothing on the device;
`NamespaceProofs` has the actions that do, and the theorems.

### Bitmaps: bits, ranges, runs

`Bitmaps` is the scan of `runs_of`: bytes as sets of bits, with any padding after
the last bit, taken whole where all valid bits are equal and shifted bit group by
bit group where they are not.

| TLA+ | Code |
|---|---|
| `len`, `ones` | `map.len()`, the bits that are true |
| `Set`, `SetRange` | `set`, `set_range` |
| `target`, `limit`, `index`, `word`, `left`, `cur`, `open`, `runs` | `target_bit`, `logical_len`, `byte_index`, `word`, `valid_bits - processed`, `current_bit_index`, `current_run_start`, `runs` |
| `Word` | the byte read, masked, inverted for zeros and masked again |
| `ZeroByte`, `FullByte`, `MixedByte` | the three cases of the loop over bytes |
| `TakeZeros`, `TakeOnes` | the two halves of the loop in a mixed byte |

What it is shown to return, the set of maximal runs, is what ExtentStore
(`RunsOf`) and Namespace (`FreeIn`) take from a bitmap.

### Geometry, Formatting

`Geometry` has the pure functions of `ds.rs`: the inferred format, the regions of
a group, and addresses with their inverses, in bytes.  `Formatting` begins
where a command does, with `Config::materialize`:

| TLA+ | Code |
|---|---|
| `request` | the capacity of the volume, what is wanted of it, and which of its bytes are in files, in the order of `configuration.logical` |
| `file` | each file: absent, whole, or of the wrong size |
| `mode`, `at` | `format_new`; the device the loop of `materialize` is at |
| `RemoveFile`, `MakeFile`, `ReuseFile`, `RefuseFile` | the branches of `FsDevice::new` |
| `Infer`, `WriteRegion`, `WriteFails`, `RegisterRoot` | `format_new`: the format, a region of metadata per step, the root inode |
| `Open`, `Readable` | `from_formatted` |
| `Crash` | the process dies; a file being made may stay too short |

`written` are the regions written since the bytes under them were new, so that
to remove a file takes away what was in it; on a key-value store a repeated
formatting finds the old metadata in place.  `Usable` is what `load_xhfs` asks
for: an open volume with a root.  `GeometryProofs` has the proofs.

### Devices: controller, replicas, slots

The storage below all of this, called by several tasks at a time.  One action
is one access to one replica.

| TLA+ | Code |
|---|---|
| `Layout` | the `LogicalDevice`s given to `Controller::from`: `max_concurrent` and the replicas, each a file (`slot` 0) or a `KVDevice` |
| `store` | the bytes of each replica, each with the address it was enciphered for |
| `cap`, `Start`, `End` | sizes returned by `validate_layout`; `start` and `end` of the pinned devices |
| `plan`, `answer`, `pos`, `buf`, `got` | locals of `raw_write` and `raw_read`, of `LogicalDevice::write`, and `current_addr`, `slot_buf` and `buf` of a replica |
| `Open` | `Controller::from`, for each replica that may answer first |
| `StartWrite`, `StartRead`, `NextChunk`, `Succeed`, `GiveUp` | `write_owned`, `read` and the loops over pinned devices |
| `WriteFile`; `GetSlot`, `SetSlot`; `ReadPart` | `FsDevice::write`; the two halves of a round of `KVDevice::write`; reads |
| `Fail` | an access returns an error, with or without its effect: half a write to a file, a slot stored whose answer is lost |
| `TooShort`, `Panic` | a store that answers a missing key with no bytes (`EmptyWhenMissing`, as `kv_handler.ts` does): `write` fills the value up, `read` indexes past its end and unwinds the task |
| `Crash` | the process dies, the Controller is made anew |

`held`, `seen`, `missed`, `raced` and `excused` are history.  The code lets a
write succeed when one replica took it, and has no lock on a slot; so a replica
may have old bytes, and a slot may lose bytes to a second write of the same slot
that had read it before.  `missed` and `raced` are exactly those bytes of those
replicas.  The properties excuse them and check every other byte: so they say
that nothing else makes a read stale.  What the callers in XHFS guarantee is that no
two writes under way are of the same byte (`StartWrite`): ExtentStore's
`WritesOwnOnly` for data, `alloc_guard` for bitmaps.  Where they do not is listed under
hazards: directories and files shared by tasks, and the unguarded deletion, whose
write of a bitmap (`mod.rs:261`) may be under way with those at 339 and 384, so that
two replicas take them in different orders.  `DeviceInvariant` has the inductive invariant, `DevicesProofs` the proofs.

### WebDavFile: open files and streams

| TLA+ | Code |
|---|---|
| `chain` | the data of the extents of one file |
| `offset`, `size`, `buffer` | `offset`, `estat.size`, `write_buffer` of each `XHFSFile` |
| `rest` | what `write_buf` has still to take of its argument |
| `TruncateRead`, `Truncate`; `Open`; `Close` | the two calls of `open`; the drop of the handle |
| `Fappend`, `FindTail`, `LinkExtents`, `LinkNowhere`, `RegisterAppend`, `AppendNew`, `AppendFails` | the steps of `fappend_inode` and `append_or_allocate_extent` |
| `WriteBytes`; `WriteBuf`, `WritePiece`; `Flush` | `write_bytes`; `write_buf` chunk by chunk; `flush` |
| `ReadBytes`, `Fseek`, `SeekFullData` | the flush and the read in `read_bytes`; `seek_full_data_from_extent` |
| `SeekStart`, `SeekCurrent`, `SeekEnd` | `seek` |
| `CopyStart`, `CopyExtent`, `CopyChunk`, `CopyDone`, `CopyFails` | `fcopy_stream`: `read_stream_from_extent_stream` read by `fwrite_stream_unbounded` |

An append is as many steps as it has accesses another task may come between: the inode
is read (`Fappend`), the tail found (`FindTail`), the data stored and linked
(`LinkExtents`), the inode registered (`RegisterAppend`), or, for a file without
extents, registered with new ones (`AppendNew`); a truncation reads the inode
(`TruncateRead`) and registers it without extents (`Truncate`).  `step`, `flight`,
`tail`, `total` and `gain` are the locals of these calls.  Nothing in XHFS or in the
WebDAV server keeps two connections apart (`FakeLs` grants every lock), so they
interleave: of two appends that found the same tail the second to link cuts off
the extents of the first, and one that had found its tail among those links to
what is no longer in the file (`LinkNowhere`).  No call returns an error then,
and `length`, the size in the inode, is that of whoever registered last.
`overlapped` are the handles whose append was under way at the same time as another's: their
bytes may be missing, and `WrittenInOrder` says that nobody else's are, and that
theirs too are in order and never twice.  `cut` are the handles and the copy that
had read bytes which were then cut off.

`replaced` are the handles and the copy whose file was truncated under them: the
code does not keep freed extents for them, and the properties say nothing of what
they read then.  A handle is `astray` when its truncation or append goes on with
extents that are no longer the file's, because another truncated it, or had
found it empty and registered extents of its own: its next step would make freed extents the
file's again, or free them twice, and the model lets it be dropped and do nothing
else.  `failed` are
the handles that returned an error, or were dropped with bytes in their buffer:
some of their bytes may be missing, and still none is twice or out of order.
`Before` are the bytes the file may have at the start, none of them a client's.
`WebDavInvariant` has the inductive invariant, `WebDavProofs` the proofs.

## What the runs check

With two workers, runs take from twenty seconds to three minutes.

| Run | Module, instance | Shows |
|---|---|---|
| `extents_ops` | ExtentStore: 2 tasks, 2 groups of 2 blocks of 2 bytes, header of 1, data of 0, 2, 3, 4 bytes, one crash or cancellation | exclusive allocation, chains intact and in order, no leak but what was cut; `Ownership` of every reached state |
| `extents_fair` | one task appends, the other rewrites and deletes, 1 group of 3 blocks, data of 1 and 3 bytes, one crash or cancellation, fair | every operation returns |
| `namespace_tree` | Namespace: 1 task, 3 names of which one cannot be stored, paths of 2 components, 3 groups of 1 inode, 5 extents; write, mkdir, unlink, move | refinement of FileTree |
| `namespace_links` | 2 names, 2 groups of 2 inodes, 5 extents, fair; write, append, symlink, hardlink, unlink, ls, read | link counts, nothing forgotten, every call returns but in a circle of symlinks |
| `namespace_crash` | write, mkdir, move, one crash, 4 extents, the names of `namespace_tree` | no entry dangles and nothing is lost but what is counted |
| `namespace_tasks` | 2 tasks, each in a directory of its own, 5 inodes in one group, 4 extents; write, unlink, one crash or cancellation | inodes and contents stay apart, and only the inodes whose bit a stale bitmap overwrote are lost |
| `namespace_clone` | adds unlink to the crash run | violated: see below |
| `formatting` | 85 volumes of 600 to 22984 bytes, on stores and on files in four arrangements, 2 crashes | regions, blocks and inodes apart; root last |
| `formatting_fits` | the same volumes | violated: see below |
| `devices` | Devices: two slots of 2 bytes mirrored by a file of 3, then one slot that is empty when missing; 2 tasks, 2 writes, a read at a time, 2 failing accesses, 1 crash | reads are fresh, replicas agree, accepted writes are kept, no byte outside a range changes |
| `webdav_file` | WebDavFile: 2 handles whose appends and truncations interleave step by step, chunks of 2 bytes, extents of 3 and 1 bytes, one handle reading or a copy, one failing append | bytes written once and in order, and lost only where appends overlap; reads and copies without a gap |
| `bitmaps` | Bitmaps: up to 10 bits in bytes of 4 | the scan returns the maximal runs, in order, and no shift overflows |

*Bounds.*  Two tasks are enough for any race on a lock or a bitmap, which needs
one task between two steps of another.  Two groups of two blocks have a
contiguous plan, a plan from fragments over two groups, an insufficient one, and
data of more than a group; three blocks of one group, of
which the middle one is in use, have fragments whose headers take the room of the
data (`LayoutMismatch`, in `extents_fair`); data sizes fill blocks exactly, leave a rest, and
are zero.  Three inodes (root, a directory, an entry) with two names and paths
of two components have a move in and out of a directory, a directory in a
directory, and inodes running out; extents are few enough that each store can
fail.  `MaxLost` bounds what failed operations leave behind: with more than
that lost no further operation starts (`Start`), so that the one in which the
loss happens is explored to its end and the state after it too; it is 2 in
`namespace_crash`, where operations go on after a loss.  One name in three is
unstorable, which is enough for each operation to meet it last.  `MaxCrashes` is 1: a second
crash meets the states a first one reaches from another beginning.  `Scrub`
makes a freed extent blank instead of keeping its bytes; it is set where
no live inode reads a freed extent, which `ContentIsOwn` checks in the runs
that have it.  `namespace_links` has two names, so that
symlinks can point at themselves and at each other, and three entries are left
to the other runs; liveness is checked without symmetry.  `bitmaps` has bytes of
four bits: up to ten bits are two whole bytes and a rest, and every byte is
met full, empty and mixed, with every run over a boundary; the proofs have any
width.  Volumes in Formatting are small so that one to 34 groups,
bitmaps of one and two bytes, full and partial, occur; `format_new` itself always
wants 20480 blocks and 4096 inodes, and the proofs cover those.  Four of them are on
files: two files, one with the rest on a store, that store's part in the file
instead, and the two files made in the other order.

In `devices` the file is one byte smaller than the slots it mirrors, so that the
size depends on who answers first and the second slot is cut short; of the two
ranges one is a byte of the first slot, the other begins beside it in the same
slot, goes on into the second and ends on the second device.  Two writes and one read have every order of a write accepted,
failed or lost before, under or after another; reads change nothing, so that a
second one at a time would add nothing (`MaxReaders`).  Two faults can fail both
replicas of a write, or one replica of each of two writes.  In `webdav_file` one
chunk boundary falls inside an extent and one on an end, a piece fills the buffer
exactly or leaves it half full, and appends come as one extent or two;
`MaxSent` and `MaxOffset` bound what is written through a handle and sought to,
and one handle reads (`Readers`) while both write.  Of reads and seeks and the copy one
goes on in a behaviour (`Uses`): a step of one changes nothing the other looks
at, but for the number of failures left.  Two handles are
enough for two appends to find one tail, and for one of them to be cut off.

*Two tasks.*  `namespace_tasks` keeps tasks in their own directories: XHFS has no
lock on a directory, so that in one directory two tasks lose updates.  Deletion
changes an inode bitmap without the guard: its write loses bits that others set
meanwhile, and an allocation or a registration that had read the bitmap before
brings back the bit it cleared.  All of these are in `clobbered`, and the run,
which has each of the three in two steps with the other task between them, shows that
no inode besides them is lost, dangles or shares its content.  Its four extents are the
root's and three more: room for one task to create a file while the other deletes one,
which has each order of the accesses to the bitmap, with the two deletions that
undo each other among them, and not for both to have a file
at rest.  What two tasks do to one
directory or one file is listed under hazards.

*Deadlock* is not checked: with a bound on crashes, losses or writes, or on a full
device, a system may stop, and the configurations say `CHECK_DEADLOCK FALSE`
where it does.  That no operation waits for ever is `OpsReturn`.

*Fairness* is used in two runs.  In `extents_fair`: `WF` on each step a running task can take,
since Tokio runs a task that is ready, and `SF` on the steps that acquire
`alloc_guard`, since `tokio::sync::Mutex` hands itself over in the order of
arrival, so that a waiter that finds it free again and again gets it.  In
`namespace_links`: `WF` on the steps of the one task, which waits for nobody.
Neither assumes that an operation starts, nor that anything fails or is cut.

Every property of a passing run has a mutant in `PROJECT.json`: a change of the
model as a plausible bug would make it (the operators commented "as if" or
"defect"), with which the run fails.

## Disagreements met

- `namespace_clone`: the comment in `fmove` calls the state after a crash between
  its commits a "clone/Link state" in which the file "safely lives in both
  places".  It does until one of the two paths is unlinked: `nlink` is 1, so the
  inode is freed and the other entry dangles.
- `formatting_fits`: `infer_from_free_space` counts groups without the two
  lengths of eight bytes that serialized bitmaps begin with, 16 bytes a group.
  A device within that distance of a whole number of groups is accepted although
  its last group ends past the device.

## What is proved

By TLAPS, for all values of the constants under their assumptions
(`TaskAssumption`, `GeometryAssumption`, `InputAssumption`: at least one group of
at least one block, a header smaller than a block; `SizesAssumption`,
`RequestAssumption`: sizes of records positive, files that begin before they end;
`BitsAssumption`: at least one bit in a byte; `LayoutAssumption`,
`CallAssumption`: logical devices with at least one replica, slots and requests of
numbers; `SharingAssumption`, `SizeAssumption` and `CallerAssumption` of Namespace: at
least one group of at least one inode, and room for the directories that are there
at the start; `SizeAssumption` and `ChainAssumption` of WebDavFile: chunks and pieces
of at least one byte, no extent empty, and the bytes of the file told apart from
those that clients write).

Of the inductive invariants `Ownership` is checked in `extents_ops`; `Chaining`,
`DevicesInv`, `FileInv` and `Consistency` were checked by TLC on the instances of the
runs before they were proved (`Chaining` on one group of three blocks too;
`Consistency` with bodies {"x"}, and on a run of all operations with one task
and one of six operations with two, of which TLC saw 200,000 states and not the
end).  To do so again, name `DevicesInv`, `FileInv`, `Typed` or `Consistency` in the
configuration of `devices`, `webdav_file` or a run of Namespace, whose modules
extend `DeviceInvariant`, `WebDavInvariant` and `NamespaceInvariant`.

The library's induction theorems take an operator as a parameter, which no
prover here can give them.  `Induction` has what replaces them: a set of naturals
that has 0 and every successor has them all, a family of subsets of a finite set
likewise, both from the well-foundedness of `<`.  With it the recursive functions
behind sums and joins (`SumTo`, `MapThenSumSet`, `FlattenSeq`, the walk of
`Extents`, the chunks of a plan) are related to their definitions: that the
function exists, and what one step more adds.

*ExtentStore.*  `TypeCorrect`: the type invariant, inductive as it stands.
`OwnershipInvariant`: `[]Ownership`.  The action properties are not
inductive by themselves: that a bitmap commit marks only free blocks depends on the
plan being disjoint from `used` since it was made, which depends on the mutex, on
what every other task may commit, and on chains being freed only by their owner.
`Ownership` says all of that: each block's role and owner agree with the bitmap,
with the plan of the task at its `pc`, with the chain it builds, and with the
mutex.  From it follow `AllocationIsExclusive`, `OnlyOldBlocksAreFreed` and
`OnlyOwnBlocksAreWritten`, the three action properties of `extents_ops`, for any number of
tasks, groups, blocks, crashes and cancellations: a dropped task's blocks become
lost, and a dropped guard leaves no plan behind that another task could meet.
`ChainsStayOwn`, `ContentStaysInOrder` and `NothingIsLeaked` are the other three
properties of that run.  They are about chains as wholes, and `Ownership` is about
single blocks and links; `Chaining` says in addition that a chain is all the
extents of its task in that role (`Linked`), that they follow one another
without a gap (`InOrder`) and have as many bytes together as the inode or the
operation says (`Amounts`), and that the slots still to be written are the
beginning of such a chain (`LaidOut`).  The last needs what `allocate` promises:
exactly as many blocks as the bytes and the headers take (`SizingOf`), else the
last extent could be empty and the link before it lead nowhere.

*Bitmaps.*  `ScanInvariant`: the invariant `IInv` says where the scan is
(`Position`: bits and bytes agree, and what is left of `word` are the bits that
follow), that the run under way began after another bit and goes on to here
(`UnderWay`), and that what is collected are the maximal runs that end before
(`Collected`).  `ScanIsExact` is its conclusion at the end of the scan;
`NoShiftOverflows` needs that a byte of equal bits never reaches the shifts,
`ScanGoesForward` that a run is closed where it ends.

*Geometry.*  The lemmas are about every format: regions follow one another inside
the stride (`RegionsInOrder`, `RelRegionsApart`), groups follow one another
(`LaterGroupIsAbove`), quotients of an address give back what was multiplied
(`Quotient`, `GroupOfAddress`, `BlockAddressesInvert`), an inumber and its slot
determine each other (`INodeInItsGroup`, `INodeSlotsApart`).  The theorems
`RegionsNeverOverlap`, `AddressesAlwaysInvert` and `INodesNeverOverlap` carry them
to every usable volume through the invariant `IInv` of Formatting: the type
invariant, `Progress` (what the formatting under way has written), `Known`
(when the format is the inferred one), `Ordered` (the root comes after everything), and `FilesMade` and `RootGone`
(which files a formatting has made by now, and that the root went with the first).
`RootIsLast` needs `Progress`: that the last region is written says nothing
unless all earlier ones were; and `RootGone`: a formatting that is cut while it
makes the files has taken the root away before anything else.

*Devices.*  `CapacityIsDetermined`: a Controller that opens has pinned every
device at the size of its smallest replica, whichever answered first.  It is what
makes the addresses of one start those of the next, although `validate_layout`
may succeed at one start and fail at another.  The other properties of the run,
`VariablesAreTyped`, `ReadsReturnFreshBytes`, `ReplicasStayAgreed`,
`AcceptedWritesStay` and `WritesChangeTheirOwn`, need to know of every call under way
how far each replica is with it: `DevicesInv`.  Of a chunk being written a replica
has the bytes before `pos`, and all of it once it has answered, or missed them
(`Written`); of a chunk being read `got` has the bytes before `pos`, each fresh when
it was read (`Collected`); and the copy of a slot that a write is to store back
has the bytes of the slot as they are now, but for those `raced` names (`Copies`).
Without `Copies` a write could store old bytes beside its range; without the chunks
of a plan being the range in its order (`Chunks`, from the sums of the sizes of the
devices) the bytes of a read could be those of another address.

*WebDavFile.*  `FileIsTyped`, `NoWrittenByteMoves`, `ReadsFollowOn` and
`CopiesAreSnapshots` are the four properties of the run, for any number of handles
and readers, and for every interleaving of the steps of their appends and truncations.
`FileInv` adds to them what an append by one handle leaves to the
others.  That the bytes of a handle which overlapped nobody are all there, although
every link cuts the chain at the tail it found, is its core: of two
appends under way both are `overlapped` (`Together`), so what a chain has after the
tail of an append under way was linked by handles that are (`Since`), and what
is cut off is theirs alone.  A byte of a client is never numbered beyond what it has
sent (`Lines`), an append carries all that was in its buffer until it is linked
(`Flights`), a buffer has bytes of its own client alone (`Buffers`), what was
read is said byte by byte and not as a part of a content that changes (`Reads`),
and a copy has taken the extents before `next`, or, when there was no next one, all of the file
as it was then (`Copies`).  The proof has one lemma for the steps
that leave the file alone (`QuietStep`), one for those that store in a file without
extents or empty it (`StoreStep`), and one for the links (`LinkStep`).  `SeekReturnsContent` is about
`seek_full_data_from_extent` alone: over any chain, and for any range, what it takes
from the extents is that range of the content.

*Namespace.*  `NamespaceTyped` is `TypeOK` for all values of the constants.  The
invariant `Typed` adds to the types which operation may be at which step
(`Placed`), which locals a step may rely on (`Supplied`), and that an inode has its
own number in it (`Numbered`), so that a number found in a bitmap, a directory
or a copy of a bitmap read earlier is that of an inode.

`EntriesResolve`, `ContentIsOwn` and `LinkCounts` are about the volume, and what keeps
them true is what each operation knows of it while it is under way: an unlink
frees an inode because of an nlink it read several steps before; a commit stores a
directory that was read, changed in memory and written elsewhere; a hardlink
counts one more in a copy.  `Consistency` says for every `pc` what of this is
still so (`TaskSound`), and that a task holds the guard only between the read of a
bitmap and its write (`Guarded`).  Since the code locks no directory, it holds because callers
stay apart, and that has to be part of the invariant: there is a function `own`
from inodes to callers, kept nowhere on the device, such that entries, hardlinks
and paths lead from a caller's inodes to its own.  From that follows that a step of
one task changes nothing another relies on (`Framed`), and only the directories,
counts and extents of the task that steps are left to prove.

A removal frees what entries and links still name, and takes a hardlink's target
first.  `Plain`, `Refers`, `Followed` and `Spared` are the stages of it; that
nothing else refers to an inode when it is freed (`LastReference`) is the count
being one while the removal's own reference is counted.

| Theorem | Statement | Under |
|---|---|---|
| `NamespaceConsistent` | `[]Consistency` | `Separate`, `Proper`, `Removals` |
| `NamespaceResolves` | `[](Intact => EntriesResolve)` | the same |
| `NamespaceContent` | `[](Intact => ContentIsOwn)` | the same |
| `NamespaceAccounts` | `[]NothingKept`, the second conjunct of `NothingForgotten` | the same |
| `NamespaceCounts` | `[]LinkCounts` | the same and `Countable` |
| `NamespaceCalm` | `[](EntriesResolve /\ ContentIsOwn)` | `Separate`, `Proper`, no unlink |

What these are, and why the code needs them:

- `Separate`: with several callers, each has a directory of its own.  Two in
  one directory lose an entry (hazard at `mod.rs:786`).
- `Proper`: nothing is written over a symlink or by `create_symlink` or
  `create_hardlink` over a file, since `blob_write` keeps the kind of what it writes
  over (`mod.rs:798`); and no file is empty, since `resolve_parent` takes an
  empty file for an empty directory (`mod.rs:538`).
- `Countable`: no call is cut between the two changes a move or a hardlink makes
  to a count (`mod.rs:686`, `mod.rs:996`).
- `Removals`: where there is an unlink the counts it finds are right: `Countable`, and
  no inode left behind by a failed operation while hardlinks are made.
- `Intact`: no deletion was cut by a crash, a cancellation or an error after it
  freed something, and no bitmap was written back after it changed, whether by a
  deletion, which does not take the guard, or by an allocation or `register_inode`,
  which take it and are not kept from a deletion by it (`clobbered`).  After either, an entry may lead to an inode
  that is free, which the next file takes over: the properties as the runs check them excuse the inode
  itself, and what its next owner does with it is not bounded by that for all
  values of the constants.

`namespace_tree`, `namespace_crash` and `namespace_tasks` satisfy `Separate`, `Proper` and
`Removals`; `namespace_tree` satisfies `Countable` too.  `namespace_crash`, which has no
unlink, is an instance of `NamespaceCalm`.  `namespace_links` has empty files,
which `Proper` excludes, and paths of one component, where they do no harm.

*Model-checked only*:

- the first conjunct of `NothingForgotten`, that every inode is reachable from
  the root, and `NothingVanishes`.  Both speak of paths of any length, and after a
  crash in a move of a directory, which leaves it in two places, moves can
  make a circle of directories when paths are long enough: neither holds
  for all values of the constants;
- `ImplementsFileTree`, which speaks of paths too: what is at each of them, as a
  recursive function walks them;
- `EntriesResolve` and `ContentIsOwn` after a deletion was cut (`namespace_tasks`);
- liveness (`OpsReturn`, `EveryCallReturns`), which the prover does not reach.

## Not modelled

- In Namespace, Geometry and ExtentStore a device access is atomic, and fails
  as a whole or not at all; what Devices allows beyond that (a stale replica,
  bytes lost in a slot) is not carried into them.
- `fcopy` and `fwrite_stream`: sequences of modelled operations.
- A `slot_capacity` changed between two starts, which makes stored values longer
  or shorter than a slot.
- Times and extra metadata of inodes; the byte order of records.
- The parsing and validation of a configuration, the command line, HTTP headers, the requests of WebDAV that are one
  call of XHFS: no state of their own.
- A second unlink of a file whose deletion was cut, which walks a chain of freed
  blocks (`Start` of ExtentStore has no operation on such a file), and a call that
  goes on with extents a truncation took from its file (`astray` of WebDavFile).
- A move whose paths are not of one form, which the command line can ask for: with
  `RelativeMoves` a directory can be moved into itself and is lost, as in the code.
- What a device does with an access that is under way when its request is
  cancelled: the access is done or not, as in a crash.

## Plan

Done: ExtentStore with crashes, cancellation and its proofs; Namespace and
FileTree, with liveness of every call, and the proofs of Namespace; Bitmaps with
its proofs; Geometry and Formatting, from the making of the files on, with
theirs; Devices and WebDavFile with theirs.  Left, in order:

1. *Proofs*: reachability in Namespace where no directory moves, by an order
   of its directories; then the steps of the refinement of FileTree.
2. *Abstract specifications*: one array of bytes with a set of possible values at
   each address, which Devices implements; a log of pieces for WebDavFile.
3. *Configuration*: `validate`, and a layout that includes one device twice.
